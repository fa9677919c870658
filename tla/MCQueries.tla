------------------------------ MODULE MCQueries -------------------------------
(* Small instances of Queries: three tables of two columns with a few rows, *)
(* and statements that reach every operator, rule and access path.          *)
EXTENDS Queries

Column(n) == [name |-> << n >>, type |-> "BIGINT"]

Tables == [a |-> << Column("x"), Column("v") >>,
           b |-> << Column("x"), Column("w") >>,
           c |-> << Column("x"), Column("y") >>]

TablesIndexed == {<< "a", 1 >>, << "b", 1 >>, << "c", 2 >>}

-----------------------------------------------------------------------------
(* Contents: NULLs and duplicates, an empty table, a zero, large numbers.  *)

Contents(a, b, c) == [a |-> a, b |-> b, c |-> c]

MCDatabases == <<
    Contents(<< <<2, 1>>, <<1, 1>>, <<Null, 2>>, <<1, 3>> >>,
             << <<1, 2>>, <<Null, 1>>, <<2, 1>> >>, << <<1, 1>>, <<2, 2>> >>),
    Contents(<< >>, << <<1, 1>>, <<2, 2>> >>, << <<1, 2>> >>),
    Contents(<< <<0, 1>>, <<2, Null>>, <<0, 1>> >>,
             << <<0, Null>>, <<0, 3>>, <<2, 2>> >>, << <<0, 1>>, <<2, 3>>, <<0, 1>> >>),
    Contents(<< <<7, 7>>, <<3, 5>> >>, << <<3, 4>>, <<7, 0>> >>, << <<7, 7>> >>) >>

-----------------------------------------------------------------------------
(* Statements                                                              *)

N(n)    == Int64(n)
x       == Ref("", << "x" >>)
v       == Ref("", << "v" >>)
w       == Ref("", << "w" >>)
y       == Ref("", << "y" >>)
ax      == Ref("a", << "x" >>)
bx      == Ref("b", << "x" >>)
cx      == Ref("c", << "x" >>)
ox      == Ref("o", << "x" >>)
ov      == Ref("o", << "v" >>)
av      == Ref("a", << "v" >>)
Eq(l, r)  == Op("=", << l, r >>)
Lt(l, r)  == Op("<", << l, r >>)
Le(l, r)  == Op("<=", << l, r >>)
Gt(l, r)  == Op(">", << l, r >>)
And(l, r) == Op("AND", << l, r >>)
Or(l, r)  == Op("OR", << l, r >>)
Not(e)    == Op("NOT", << e >>)
Plus(l, r) == Op("+", << l, r >>)
Paren(e)  == Op("()", << e >>)
CountAll  == Agg("COUNT", << >>)
SumOf(e)  == Agg("SUM", << e >>)
Asc(e)    == [expr |-> e, desc |-> FALSE]
Desc(e)   == [expr |-> e, desc |-> TRUE]

Table(t)  == [table |-> t, alias |-> t]

Select(items, from, on) ==
    [items |-> items, from |-> from, on |-> on, where |-> << >>, group |-> << >>, having |-> << >>,
     order |-> << >>, distinct |-> FALSE, limit |-> << >>, offset |-> << >>]

FromA(items)      == Select(items, << Table("a") >>, << >>)
FromAB(items, on) == Select(items, << Table("a"), Table("b") >>, << on >>)
FromABC(items, ab, c) == Select(items, << Table("a"), Table("b"), Table("c") >>, << ab, c >>)

Where(s, e)      == [s EXCEPT !.where = << e >>]
OrderBy(s, keys) == [s EXCEPT !.order = keys]
Limit(s, l, o)   == [s EXCEPT !.limit = << N(l) >>, !.offset = << N(o) >>]
GroupBy(s, keys) == [s EXCEPT !.group = keys]
Having(s, e)     == [s EXCEPT !.having = << e >>]
Distinct(s)      == [s EXCEPT !.distinct = TRUE]

All == << Wildcard >>

OneTable == <<
    Where(FromA(All), Eq(x, N(1))),
    OrderBy(Where(FromA(All), And(Gt(x, N(0)), Le(x, N(2)))), << Asc(x) >>),
    OrderBy(Where(FromA(<< v, x >>), Lt(N(0), x)), << Desc(x) >>),
    OrderBy(Where(FromA(<< v >>), Lt(N(0), x)), << Asc(x) >>),
    OrderBy(Where(FromA(<< v, x >>), Lt(N(0), x)), << Asc(v) >>),
    Where(FromA(<< v >>), And(Gt(x, N(0)), And(Paren(Gt(x, N(1))), Lt(x, N(7))))),
    Where(FromA(All), Or(Eq(x, NullLit), Not(Eq(x, N(2))))),
    Where(FromA(All), And(Eq(v, N(1)), Op("IS NULL", << x >>))),
    Where(FromA(All), And(Eq(Plus(N(1), N(1)), N(2)), Eq(x, N(2)))),
    Where(FromA(All), Or(Not(Not(Eq(v, N(1)))), Not(Lt(N(1), N(2))))),
    Where(FromA(All), And(Eq(x, N(1)), Lt(NullLit, N(1)))),
    Where(FromA(All), And(Eq(x, NullLit), Eq(v, N(1)))),
    Where(FromA(All), Or(And(Lt(N(2), N(1)), Eq(v, N(1))), Eq(x, N(2)))),
    Where(FromA(All), And(Or(Eq(v, N(1)), Lt(N(1), N(2))), Gt(x, N(0)))),
    OrderBy(FromA(<< v >>), << Asc(x) >>),
    Limit(OrderBy(FromA(<< x, v >>), << Desc(v), Asc(x) >>), 2, 1),
    Limit(OrderBy(FromA(<< x >>), << Asc(Plus(x, v)) >>), 2, 0),
    Limit(FromA(All), 2, 1),
    Limit(FromA(<< x >>), 0, 0),
    Distinct(FromA(<< x >>)),
    Limit(OrderBy(Distinct(FromA(<< v, x >>)), << Desc(v) >>), 2, 0),
    OrderBy(Distinct(FromA(<< x >>)), << Asc(v) >>),
    FromA(<< Op("/", << N(6), x >>) >>),
    FromA(<< Plus(x, v), Op("neg", << Op("abs", << v >>) >>) >>),
    Where(FromA(All), x),
    FromA(<< w >>),
    FromA(<< x, Lt(NullLit, N(1)) >>),
    [FromA(All) EXCEPT !.limit = << Op("neg", << N(1) >>) >>],
    Select(<< Plus(N(1), N(2)), NullLit >>, << >>, << >>),
    Select(All, << >>, << >>) >>

Groups == <<
    OrderBy(GroupBy(FromA(<< x, CountAll >>), << x >>), << Desc(x) >>),
    FromA(<< CountAll, Agg("COUNT", << v >>), SumOf(v), Agg("MIN", << v >>), Agg("MAX", << x >>) >>),
    Limit(OrderBy(Having(GroupBy(FromA(<< x, SumOf(v) >>), << x >>), Gt(SumOf(v), N(1))),
                  << Desc(SumOf(v)), Asc(x) >>), 1, 0),
    OrderBy(GroupBy(FromA(<< Plus(x, N(1)), Agg("MAX", << v >>) >>), << x >>), << Asc(CountAll) >>),
    GroupBy(FromA(<< Plus(Plus(x, v), CountAll) >>), << Plus(x, v) >>),
    GroupBy(FromA(<< v, CountAll >>), << x >>),
    Having(FromA(<< N(1) >>), Gt(CountAll, N(1))),
    Where(FromA(<< CountAll, SumOf(x) >>), Truth(FALSE)),
    Where(FromA(All), Gt(CountAll, N(1))),
    FromA(<< SumOf(CountAll) >>) >>

(* Joins: every condition of ON with every condition of WHERE.             *)
Pairs(S, T, F(_, _)) == FlattenSeq([i \in DOMAIN S |-> [j \in DOMAIN T |-> F(S[i], T[j])]])

Conditions == <<
    Truth(TRUE),
    Eq(av, N(1)),
    And(Gt(w, N(0)), Eq(av, N(1))),
    And(Eq(bx, N(2)), Paren(And(Lt(av, w), Gt(ax, N(0))))),
    Or(Eq(av, N(1)), Eq(w, N(1))),
    Not(Eq(ax, bx)),
    And(Op("IS NULL", << w >>), Lt(N(1), N(2))),
    Lt(ax, bx) >>

TwoTables ==
    LET On == << Eq(ax, bx), Eq(bx, Plus(ax, N(1))), And(Eq(ax, bx), Eq(av, w)), And(Eq(bx, ax), Gt(w, N(1))),
                 Lt(ax, bx), Truth(TRUE) >>
    IN  Pairs(On, Conditions, LAMBDA on, e : Where(FromAB(All, on), e))
        \o Pairs(On, Conditions, LAMBDA on, e : Where(FromAB(<< w >>, on), e))

TwoTablesMore == <<
    FromAB(<< CountAll >>, Lt(ax, bx)),
    OrderBy(Where(FromAB(<< w >>, Eq(ax, bx)), Gt(ax, N(0))), << Asc(ax) >>),
    Limit(OrderBy(Where(FromAB(<< v, bx >>, Eq(ax, w)), Gt(bx, N(0))), << Asc(bx) >>), 2, 0),
    OrderBy(GroupBy(FromAB(<< ax, SumOf(w) >>, Eq(ax, bx)), << ax >>), << Asc(SumOf(w)) >>),
    FromAB(<< x >>, Eq(ax, bx)),
    Where(Select(<< ov >>, << Table("a"), [table |-> "a", alias |-> "o"] >>, << Eq(ax, ov) >>), Gt(ox, N(0))) >>

ThreeTables ==
    LET On == << << Eq(ax, bx), Eq(bx, cx) >>, << Eq(ax, bx), Eq(ax, cx) >>, << Lt(ax, bx), Eq(w, y) >>,
                 << Eq(ax, bx), And(Eq(cx, bx), And(Gt(y, N(1)), Gt(ax, N(0)))) >>,
                 << Truth(TRUE), Eq(Plus(ax, bx), cx) >>, << Truth(TRUE), Eq(ax, cx) >> >>
    IN  Pairs(On, Conditions, LAMBDA on, e : Where(FromABC(<< av, y >>, on[1], on[2]), e))

ThreeTablesMore == <<
    FromABC(All, Eq(ax, bx), Eq(bx, cx)),
    Where(FromABC(<< v, y >>, Eq(ax, bx), Eq(bx, cx)), And(Gt(y, N(0)), Lt(av, y))),
    Distinct(Where(FromABC(<< cx >>, Eq(ax, bx), Eq(y, v)), Gt(bx, N(0)))),
    OrderBy(Where(FromABC(<< ax, y >>, Eq(ax, bx), Eq(bx, cx)), Gt(ax, N(0))), << Asc(ax) >>) >>

MoreTables == <<
    Select(<< av, w, ov >>,
           << Table("a"), Table("b"), Table("c"), [table |-> "a", alias |-> "o"] >>,
           << Eq(ax, bx), Eq(bx, cx), Eq(cx, ox) >>) >>

-----------------------------------------------------------------------------
(* Statements the program does not answer as its documents say.            *)

\* Columns of two tables that have the same name.
SameNamesSelects == <<
    OrderBy(FromAB(<< ax, v, w >>, Truth(TRUE)), << Asc(bx) >>),
    FromAB(<< SumOf(ax), SumOf(bx) >>, Truth(TRUE)),
    GroupBy(FromAB(<< ax >>, Truth(TRUE)), << bx >>) >>

\* Four tables and a comparison of two of them in WHERE.
FourTablesSelects == << Where(MoreTables[1], Lt(av, w)) >>

\* A condition that fails on rows the join leaves out.
PushedErrorsSelects == << Where(FromAB(All, Eq(ax, bx)), Lt(Op("/", << N(1), Plus(bx, N(-1)) >>), N(5))) >>

\* A condition that simplifies to NULL, as a column.
TypeLostSelects == << FromA(<< And(Truth(TRUE), NullLit) >>) >>

-----------------------------------------------------------------------------

(* Sessions.                                                               *)

Query(s)          == [kind |-> "SELECT", select |-> s]
PrepareAs(n, s)   == [kind |-> "PREPARE", name |-> n, statement |-> Query(s)]
ExecuteOf(n, a)   == [kind |-> "EXECUTE", name |-> n, args |-> a]
DeallocateOf(n)   == [kind |-> "DEALLOCATE", name |-> n]
P(i)              == Param(i, "none")
Minus(l, r)       == Op("-", << l, r >>)
Times(l, r)       == Op("*", << l, r >>)
Neg(e)            == Op("neg", << e >>)
IsNull(e)         == Op("IS NULL", << e >>)
IsNotNull(e)      == Op("IS NOT NULL", << e >>)

\* What the precedence of operators decides.
Groupings == Select(<<
    Minus(Minus(N(1), N(2)), N(3)), Minus(N(1), Minus(N(2), N(3))),
    Plus(Times(Neg(Paren(N(2))), N(3)), N(1)), Times(N(2), Plus(N(3), N(1))), Times(N(-2), N(-3)),
    Neg(Neg(N(1))), Neg(N(-3)), N(-16), Neg(Op("abs", << N(-4) >>)),
    Op("/", << Op("/", << N(8), N(2) >>), N(2) >>), Op("/", << N(8), Op("/", << N(2), N(2) >>) >>),
    And(Not(Eq(N(1), N(2))), Truth(TRUE)), Not(And(Eq(N(1), N(2)), Truth(TRUE))), Not(Not(Truth(FALSE))),
    Eq(Truth(TRUE), Not(Truth(FALSE))), Eq(Not(Truth(TRUE)), Truth(FALSE)),
    Or(Or(Truth(TRUE), And(Truth(FALSE), NullLit)), Truth(FALSE)), And(Truth(FALSE), Or(NullLit, Truth(TRUE))),
    IsNull(Lt(Plus(N(1), N(2)), N(4))), Eq(IsNotNull(NullLit), Truth(FALSE)), Not(IsNull(N(1))),
    IsNull(Not(NullLit)), Eq(Lt(N(1), N(2)), Truth(TRUE)), Eq(Truth(TRUE), Lt(N(1), N(2))) >>, << >>, << >>)

Session1 == <<
    PrepareAs("p", Where(FromA(<< x, Plus(v, P(2)) >>), Le(x, P(1)))),
    ExecuteOf("p", << N(2), N(-1) >>),
    ExecuteOf("p", << NullLit, N(1) >>),
    ExecuteOf("p", << N(1) >>),
    ExecuteOf("p", << Truth(TRUE), N(1) >>) >>

Session2 == <<
    ExecuteOf("p", << >>),
    PrepareAs("p", OrderBy(Where(FromAB(<< ax, w >>, Eq(ax, bx)), Eq(P(1), ax)), << Asc(w) >>)),
    PrepareAs("p", FromA(All)),
    ExecuteOf("p", << N(2) >>),
    DeallocateOf("p"),
    DeallocateOf("p"),
    PrepareAs("p", FromA(<< x >>)),
    ExecuteOf("p", << >>) >>

Session3 == <<
    PrepareAs("g", OrderBy(Having(GroupBy(FromA(<< Plus(x, P(1)), SumOf(Plus(v, P(2))) >>), << Plus(x, P(1)) >>),
                                  Gt(CountAll, P(3))), << Desc(SumOf(Plus(v, P(2)))) >>)),
    ExecuteOf("g", << N(1), N(2), N(0) >>),
    ExecuteOf("g", << N(1), NullLit, N(1) >>) >>

Session4 == <<
    PrepareAs("q", Where(FromA(All), And(P(2), Eq(x, P(1))))),
    ExecuteOf("q", << N(1), Truth(TRUE) >>),
    ExecuteOf("q", << N(1), N(1) >>),
    PrepareAs("r", Where(FromA(All), Or(P(1), Eq(x, P(1))))),
    PrepareAs("r", GroupBy(FromA(<< Plus(x, P(1)) >>), << Plus(x, P(2)) >>)),
    PrepareAs("r", Where(FromA(All), Eq(x, P(4)))),
    PrepareAs("r", Where(FromA(All), Eq(x, P(0)))),
    PrepareAs("r", [FromA(All) EXCEPT !.limit = << P(1) >>]),
    PrepareAs("r", Select(<< P(1), IsNull(P(3)) >>, << >>, << >>)),
    ExecuteOf("r", << N(1), Truth(TRUE), NullLit >>),
    ExecuteOf("r", << Truth(FALSE), NullLit >>),
    ExecuteOf("q", << N(2), Truth(FALSE) >>) >>

\* Statements that are only parsed.
Columns2 == << [name |-> "x", type |-> "BIGINT", constraints |-> {"PRIMARY", "NOT"}],
               [name |-> "v", type |-> "TEXT", constraints |-> {}],
               [name |-> "w", type |-> "BOOLEAN", constraints |-> {"UNIQUE"}] >>

Insert(columns) == [kind |-> "INSERT", table |-> "a", columns |-> columns,
                    rows |-> << << N(1), Plus(N(1), N(-1)) >>, << NullLit, P(1) >> >>]
Update(where)   == [kind |-> "UPDATE", table |-> "a", where |-> where,
                    set |-> << [column |-> "v", value |-> Plus(v, N(1))], [column |-> "x", value |-> Eq(x, v)] >>]
Delete(where)   == [kind |-> "DELETE", table |-> "a", where |-> where]
Explain(a, s)   == [kind |-> "EXPLAIN", analyze |-> a, statement |-> s]
Begin(level)    == [kind |-> "BEGIN", level |-> level]
Show(what, t)   == [kind |-> "SHOW", what |-> what, table |-> t]
Of(kind, t)     == [kind |-> kind, table |-> t]

Others == <<
    Insert(<< >>), Insert(<< << "x", "v" >> >>), Update(<< >>), Update(<< Not(Eq(x, N(1))) >>),
    Delete(<< >>), Delete(<< IsNull(x) >>),
    [kind |-> "CREATE TABLE", table |-> "d", columns |-> Columns2],
    [kind |-> "CREATE INDEX", unique |-> TRUE, index |-> "i", table |-> "a", column |-> "v"],
    [kind |-> "CREATE INDEX", unique |-> FALSE, index |-> "i", table |-> "a", column |-> "v"],
    [kind |-> "DROP TABLE", table |-> "a"], [kind |-> "DROP INDEX", index |-> "i"],
    Explain(FALSE, Query(FromA(All))), Explain(TRUE, Insert(<< >>)), Explain(TRUE, Delete(<< >>)),
    Explain(FALSE, Update(<< >>)),
    Begin(<< >>), Begin(<< "UNCOMMITTED" >>), Begin(<< "COMMITTED" >>), Begin(<< "REPEATABLE" >>),
    Begin(<< "SERIALIZABLE" >>), [kind |-> "COMMIT"], [kind |-> "ROLLBACK"], [kind |-> "CHECKPOINT"],
    Show("TABLES", << >>), Show("INDEXES", << >>), Show("INDEXES", << "a" >>), Show("STATS", << >>),
    Show("STATS", << "a" >>), Of("DESCRIBE", "a"), Of("ANALYZE", << >>), Of("ANALYZE", << "a" >>),
    Of("VACUUM", << >>), Of("VACUUM", << "a" >>),
    [kind |-> "PREPARE", name |-> "b", statement |-> Begin(<< >>)], ExecuteOf("b", << >>) >>

-----------------------------------------------------------------------------

MCSelects == << Groupings >> \o OneTable \o Groups \o TwoTables \o TwoTablesMore
             \o ThreeTables \o ThreeTablesMore \o MoreTables

Scripts1(selects) == LET each == selects IN [i \in DOMAIN each |-> << Query(each[i]) >>]

MCScripts == Scripts1(MCSelects) \o << Session1, Session2, Session3, Session4, Others >>

\* The statements of section 5 of the README.
SameNamesScripts    == Scripts1(SameNamesSelects)
FourTablesScripts   == Scripts1(FourTablesSelects)
PushedErrorsScripts == Scripts1(PushedErrorsSelects)
TypeLostScripts     == Scripts1(TypeLostSelects)
=============================================================================
