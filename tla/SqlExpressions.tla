--------------------------- MODULE SqlExpressions ---------------------------
(***************************************************************************)
(* The bound expressions of a statement and what they evaluate to          *)
(* (binder.rs BoundExpr, eval.rs), with the helpers the planner uses to    *)
(* take predicates apart and to move columns (physical_plan.rs).           *)
(*                                                                         *)
(* A value is a BIGINT, a BOOLEAN or Null.  BIGINTs are checked against a  *)
(* width of MaxInt instead of i64.  Columns are counted from 1, in the row *)
(* that the operator above the expression sees.                            *)
(***************************************************************************)
EXTENDS Integers, Sequences, FiniteSets, SequencesExt, TLC

CONSTANTS Null,     \* Value::Null
          Error,    \* a DbError
          MaxInt    \* the largest BIGINT

ASSUME WidthAssumption == MaxInt \in Nat \ {0}

-----------------------------------------------------------------------------
(* BoundExpr.  A column remembers the place of its table in FROM and its   *)
(* name next to its index; names are sequences because the columns of an   *)
(* aggregate are named by the text of their expression.                    *)

Int64(n)  == [kind |-> "int", value |-> n]
Truth(b)  == [kind |-> "bool", truth |-> b]
NullLit   == [kind |-> "null"]
Op(o, s)  == [kind |-> "op", op |-> o, args |-> s]
Agg(f, s) == [kind |-> "agg", func |-> f, args |-> s]
Param(i, ty) == [kind |-> "param", index |-> i, type |-> ty]     \* $i
ColumnRef(t, i, n, ty) ==
    [kind |-> "col", table |-> t, index |-> i, name |-> n, type |-> ty]

Compare    == {"=", "<>", "<", "<=", ">", ">="}
Arithmetic == {"+", "-", "*", "/"}

(* BoundExpr::data_type; "none" is the type of a bare NULL, and of a       *)
(* placeholder of which nothing is known.                                  *)
RECURSIVE Type(_)
Type(e) ==
    CASE e.kind = "int"  -> "BIGINT"
      [] e.kind = "bool" -> "BOOLEAN"
      [] e.kind = "null" -> "none"
      [] e.kind \in {"col", "param"} -> e.type
      [] e.kind = "agg"  -> IF e.func \in {"COUNT", "SUM"} THEN "BIGINT"
                            ELSE IF Type(e.args[1]) = "none" THEN "TEXT" ELSE Type(e.args[1])
      [] e.kind = "op"   -> IF e.op = "()" THEN Type(e.args[1])
                            ELSE IF e.op \in Arithmetic \cup {"neg", "abs"} THEN "BIGINT"
                            ELSE "BOOLEAN"

-----------------------------------------------------------------------------
(* eval_bound_expr: three-valued logic whose sides are always both         *)
(* evaluated, and checked arithmetic.                                      *)

TriAnd(l, r) == IF l = FALSE \/ r = FALSE THEN FALSE
                ELSE IF l = TRUE /\ r = TRUE THEN TRUE ELSE Null

TriOr(l, r) == IF l = TRUE \/ r = TRUE THEN TRUE
               ELSE IF l = FALSE /\ r = FALSE THEN FALSE ELSE Null

TriNot(v) == IF v = Null THEN Null ELSE ~ v

Checked(n) == IF n \in (- MaxInt - 1)..MaxInt THEN n ELSE Error

Magnitude(n) == IF n < 0 THEN - n ELSE n

Quotient(l, r) ==
    LET q == Magnitude(l) \div Magnitude(r) IN IF (l < 0) = (r < 0) THEN q ELSE - q

EvalArith(o, l, r) ==
    CASE o = "+" -> Checked(l + r)
      [] o = "-" -> Checked(l - r)
      [] o = "*" -> Checked(l * r)
      [] o = "/" -> IF r = 0 THEN Error ELSE Checked(Quotient(l, r))

EvalCompare(o, l, r) ==
    CASE o = "="  -> l = r
      [] o = "<>" -> l # r
      [] o = "<"  -> l < r
      [] o = "<=" -> l <= r
      [] o = ">"  -> l > r
      [] o = ">=" -> l >= r

(* One operator on values none of which is an error.                       *)
EvalOp(o, v) ==
    CASE o = "()"          -> v[1]
      [] o = "AND"         -> TriAnd(v[1], v[2])
      [] o = "OR"          -> TriOr(v[1], v[2])
      [] o = "NOT"         -> TriNot(v[1])
      [] o = "IS NULL"     -> v[1] = Null
      [] o = "IS NOT NULL" -> v[1] # Null
      [] o = "neg"         -> IF v[1] = Null THEN Null ELSE Checked(- v[1])
      [] o = "abs"         -> IF v[1] = Null THEN Null ELSE Checked(Magnitude(v[1]))
      [] o \in Arithmetic  -> IF v[1] = Null \/ v[2] = Null THEN Null ELSE EvalArith(o, v[1], v[2])
      [] o \in Compare     -> IF v[1] = Null \/ v[2] = Null THEN Null ELSE EvalCompare(o, v[1], v[2])

RECURSIVE Eval(_, _)
Eval(e, row) ==
    CASE e.kind = "int"  -> e.value
      [] e.kind = "bool" -> e.truth
      [] e.kind = "null" -> Null
      [] e.kind \in {"agg", "param"} -> Error
      [] e.kind = "col"  -> IF e.index \in DOMAIN row THEN row[e.index] ELSE Error
      [] e.kind = "op"   ->
            LET v == [i \in DOMAIN e.args |-> Eval(e.args[i], row)]
            IN  IF \E i \in DOMAIN v : v[i] = Error THEN Error ELSE EvalOp(e.op, v)

(* predicate_matches: NULL does not match.                                 *)
Matches(v) == v = TRUE

(* compare_values, on BIGINTs: NULL comes first.                           *)
Before(a, b) == b # Null /\ (a = Null \/ a < b)

-----------------------------------------------------------------------------
(* logical_plan.rs fmt_bound_expr, as a sequence of tokens: the text by    *)
(* which the binder decides that two expressions are the same.  A column   *)
(* shows its name and not its table.                                       *)
RECURSIVE Label(_)
Label(e) ==
    CASE e.kind = "int"  -> << ToString(e.value) >>
      [] e.kind = "bool" -> << ToString(e.truth) >>
      [] e.kind = "null" -> << "NULL" >>
      [] e.kind = "col"  -> e.name
      [] e.kind = "param" -> << "$", ToString(e.index) >>
      [] e.kind = "agg"  -> << e.func, "(" >>
                            \o (IF e.args = << >> THEN << "*" >> ELSE Label(e.args[1])) \o << ")" >>
      [] e.kind = "op"   ->
            CASE e.op = "()"                         -> << "(" >> \o Label(e.args[1]) \o << ")" >>
              [] e.op \in {"NOT", "neg"}             -> << e.op >> \o Label(e.args[1])
              [] e.op = "abs"                        -> << "abs", "(" >> \o Label(e.args[1]) \o << ")" >>
              [] e.op \in {"IS NULL", "IS NOT NULL"} -> Label(e.args[1]) \o << e.op >>
              [] OTHER -> Label(e.args[1]) \o << e.op >> \o Label(e.args[2])

RECURSIVE ColumnRefs(_)
ColumnRefs(e) == IF e.kind = "col" THEN {e}
                 ELSE IF e.kind \in {"op", "agg"}
                      THEN UNION {ColumnRefs(e.args[i]) : i \in DOMAIN e.args}
                      ELSE {}

Columns(e) == {c.index : c \in ColumnRefs(e)}

(* The columns of e moved: place[c] is the new index of its column c       *)
(* (remap_expr, shift_column_index, remap_condition).                      *)
RECURSIVE MoveColumns(_, _)
MoveColumns(e, place) ==
    IF e.kind = "col" THEN [e EXCEPT !.index = place[e]]
    ELSE IF e.kind \in {"op", "agg"}
         THEN [e EXCEPT !.args = [i \in DOMAIN @ |-> MoveColumns(@[i], place)]]
         ELSE e

RemapExpr(e, map) == MoveColumns(e, [c \in ColumnRefs(e) |-> map[c.index]])

ShiftColumnIndex(e, delta) == MoveColumns(e, [c \in ColumnRefs(e) |-> c.index - delta])

RECURSIVE StripParen(_)
StripParen(e) == IF e.kind = "op" /\ e.op = "()" THEN StripParen(e.args[1]) ELSE e

RECURSIVE CollectConjuncts(_)
CollectConjuncts(e) ==
    LET s == StripParen(e)
    IN  IF s.kind = "op" /\ s.op = "AND"
        THEN CollectConjuncts(s.args[1]) \o CollectConjuncts(s.args[2])
        ELSE << s >>

(* rebuild_conjunction of a non-empty sequence.                            *)
RebuildConjunction(s) ==
    FoldLeft(LAMBDA acc, next : Op("AND", << acc, next >>), s[1], Tail(s))

\* Fault: an expression is on the left if it uses any column of the left.
AnySide(e, leftLen) ==
    IF Columns(e) = {} THEN "none"
    ELSE IF \E i \in Columns(e) : i <= leftLen THEN "left" ELSE "right"

(* columns_side: the side of a join all columns of e are on, if there is   *)
(* one; an expression without columns is on neither.                       *)
ColumnsSide(e, leftLen) ==
    IF Columns(e) = {} THEN "none"
    ELSE IF \A i \in Columns(e) : i <= leftLen THEN "left"
    ELSE IF \A i \in Columns(e) : i > leftLen THEN "right"
    ELSE "none"
=============================================================================
