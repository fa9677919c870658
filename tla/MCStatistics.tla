----------------------------- MODULE MCStatistics -----------------------------
(* A small instance of Statistics: a column with an index, and conditions   *)
(* on it.                                                                   *)
EXTENDS Statistics

MCSchemas(type) == [a |-> << [name |-> << "x" >>, type |-> type] >>]
Numbers == MCSchemas("BIGINT")

x == ColumnRef(1, 1, << "x" >>, "BIGINT")
Is(o, u) == Op(o, << x, Int64(u) >>)
And(l, r) == Op("AND", << l, r >>)
Or(l, r)  == Op("OR", << l, r >>)
Not(e)    == Op("NOT", << e >>)

Comparisons == {Is(o, u) : o \in Compare, u \in 0..5}
Others == {Op("IS NULL", << x >>), Op("IS NOT NULL", << x >>), Op("=", << x, NullLit >>),
           Op("=", << x, Op("abs", << x >>) >>)}
Sides == {Is("=", 1), Is("<>", 3), Is("<", 3), Is(">=", 2), Op("IS NULL", << x >>),
          Op("=", << x, NullLit >>)}

MCPredicates ==
    Comparisons \cup Others
    \cup {And(l, r) : l, r \in Sides} \cup {Or(l, r) : l, r \in Sides}
    \cup {Not(And(Is("=", 1), r)) : r \in Sides} \cup {Not(Or(Is("<>", 3), r)) : r \in Sides}

MCConditions ==
    {Is(o, u) : o \in {"=", "<", ">="}, u \in {1, 3}}
    \cup {Op(o, << Int64(2), x >>) : o \in {"<", ">=", "="}}
    \cup {And(Is(o, 1), Is(p, u)) : o \in {">", ">="}, p \in {"<", "<="}, u \in {3, 4}}
    \cup {And(Is("=", u), Is(">", 1)) : u \in {1, 2}}
    \cup {And(Is(">=", 2), Op("IS NOT NULL", << x >>)), Or(Is("=", 1), Is("=", 2))}

\* Columns in parentheses, which the two ways to read a table estimate by
\* different shares.
Parenthesised == {Op(o, << Op("()", << x >>), Int64(u) >>) : o \in {"=", "<"}, u \in {1, 3}}

MCIndexes == {<< "a", 1 >>}
===============================================================================
