--------------------------- MODULE PhysicalPlans ----------------------------
(***************************************************************************)
(* From a logical plan to the physical plans it may become                 *)
(* (physical_plan.rs optimize, join_order.rs).                             *)
(*                                                                         *)
(* The cheapest candidate depends on statistics that may be old or         *)
(* missing, so every candidate the code compares may be chosen: Optimize   *)
(* is the set of plans.  The memory backend is the case without indexes.   *)
(***************************************************************************)
EXTENDS RewriteRules

CONSTANTS Indexes,      \* the indexed columns, pairs of a table and a column
          MaxDpTables   \* join orders are searched up to this many tables

ASSUME DpAssumption == MaxDpTables \in Nat

-----------------------------------------------------------------------------
(* Access paths                                                            *)

IndexScanNode(t, k, c, lo, up) ==
    [node |-> "IndexScan", table |-> t, scan |-> k, column |-> c, lower |-> lo, upper |-> up]

IsConstantValue(e) == StripParen(e).kind \in {"int", "bool", "null"}

LiteralValue(e) == Eval(StripParen(e), << >>)

ColumnIndexOf(e) == LET s == StripParen(e) IN IF s.kind = "col" THEN s.index ELSE 0

FlipComparison == [o \in {"=", "<", "<=", ">", ">="} |->
    CASE o = "<" -> ">" [] o = "<=" -> ">=" [] o = ">" -> "<" [] o = ">=" -> "<=" [] OTHER -> o]

(* as_column_literal_comparison: at most one [column, op, value].          *)
ColumnComparison(e) ==
    LET s == StripParen(e)
        Side(i, j, o) == IF ColumnIndexOf(s.args[i]) # 0 /\ IsConstantValue(s.args[j])
                         THEN << [column |-> ColumnIndexOf(s.args[i]), op |-> o,
                                  value  |-> LiteralValue(s.args[j])] >>
                         ELSE << >>
    IN  IF s.kind = "op" /\ s.op \in DOMAIN FlipComparison
        THEN Side(1, 2, s.op) \o Side(2, 1, FlipComparison[s.op])
        ELSE << >>

(* scan_plan_candidates: a point for every equality with an indexed        *)
(* column, a range for every indexed column that is compared, from the     *)
(* first lower and the first upper bound, and the scan of the table.       *)
ScanPlanCandidates(table, pred) ==
    LET conj    == CollectConjuncts(pred)
        cmp     == [i \in DOMAIN conj |-> ColumnComparison(conj[i])]
        Usable(i, ops) == /\ cmp[i] # << >>
                          /\ cmp[i][1].value # Null
                          /\ cmp[i][1].op \in ops
                          /\ << table, cmp[i][1].column >> \in Indexes
        Without(used) == LET rest == SelectSeq([i \in DOMAIN conj |-> i], LAMBDA i : i \notin used)
                         IN  [k \in DOMAIN rest |-> conj[rest[k]]]
        First(c, ops) == {i \in DOMAIN conj :
                            /\ Usable(i, ops) /\ cmp[i][1].column = c
                            /\ \A j \in 1..(i - 1) : ~ (Usable(j, ops) /\ cmp[j][1].column = c)}
        BoundOf(used) == IF used = {} THEN << >>
                         ELSE LET i == CHOOSE i \in used : TRUE
                              IN  << [value |-> cmp[i][1].value, included |-> cmp[i][1].op \in {"=", "<=", ">="}] >>
        Point(i) == Filtered(IndexScanNode(table, "point", cmp[i][1].column, BoundOf({i}), BoundOf({i})),
                             Without({i}))
        Range1(c) == LET lo == First(c, {">", ">="})
                         up == First(c, {"<", "<="})
                     IN  Filtered(IndexScanNode(table, "range", c, BoundOf(lo), BoundOf(up)),
                                  Without(lo \cup up))
    IN  {Point(i) : i \in {j \in DOMAIN conj : Usable(j, {"="})}}
        \cup {Range1(cmp[i][1].column) : i \in {j \in DOMAIN conj : Usable(j, {"<", "<=", ">", ">="})}}
        \cup {FilterNode(ScanNode(table), pred)}

-----------------------------------------------------------------------------
(* Joins of two plans                                                      *)

HashJoinNode(l, r, k)      == [node |-> "HashJoin", left |-> l, right |-> r, keys |-> k]
IndexJoinNode(l, t, c, k)  == [node |-> "IndexJoin", left |-> l, table |-> t, column |-> c, key |-> k]

(* split_equi_join_keys: the pairs of keys if every conjunct equates one   *)
(* side with the other, else none; the right key is over the right rows.   *)
SplitEquiJoinKeys(cond, leftLen) ==
    LET conj == CollectConjuncts(cond)
        Sides(e) == IF e.kind = "op" /\ e.op = "="
                    THEN << ColumnsSide(e.args[1], leftLen), ColumnsSide(e.args[2], leftLen) >>
                    ELSE << >>
        Pair(l, r) == [left |-> l, right |-> ShiftColumnIndex(r, leftLen)]
    IN  IF \A i \in DOMAIN conj : Sides(conj[i]) \in {<< "left", "right" >>, << "right", "left" >>}
        THEN [i \in DOMAIN conj |->
                IF Sides(conj[i])[1] = "left" THEN Pair(conj[i].args[1], conj[i].args[2])
                ELSE Pair(conj[i].args[2], conj[i].args[1])]
        ELSE << >>

(* index_scan_target: one key, a column of a bare scan that has an index.  *)
HasIndexTarget(right, keys) ==
    /\ Len(keys) = 1
    /\ right.node = "Scan"
    /\ << right.table, ColumnIndexOf(keys[1].right) >> \in Indexes

(* join_leaf and choose_join_plan.                                         *)
JoinPlans(l, r, cond) ==
    LET keys == SplitEquiJoinKeys(cond, Len(OutputTypes(l)))
    IN  IF keys = << >> THEN {JoinNode(l, r, cond)}
        ELSE {HashJoinNode(l, r, keys)}
             \cup (IF HasIndexTarget(r, keys)
                   THEN {IndexJoinNode(l, r.table, ColumnIndexOf(keys[1].right), keys[1].left)}
                   ELSE {})

-----------------------------------------------------------------------------
(* Join orders (join_order.rs).  Tables are the places of the leaves, and  *)
(* a column of an ON condition finds its leaf by the place its table has   *)
(* in FROM.                                                                *)

RECURSIVE ChainLeaves(_)
ChainLeaves(p) == IF p.node = "Join" THEN Append(ChainLeaves(p.left), p.right) ELSE << p >>

RECURSIVE ChainConditions(_)
ChainConditions(p) == IF p.node = "Join" THEN Append(ChainConditions(p.left), p.cond) ELSE << >>

ReferencedTables(e) == {c.table : c \in ColumnRefs(e)}

Widths(leaves) == [i \in DOMAIN leaves |-> Len(OutputTypes(leaves[i]))]

(* prefix_sums and offsets_for_order: where leaf t begins when the leaves  *)
(* stand in this order.                                                    *)
OffsetIn(order, widths, t) ==
    FoldLeft(LAMBDA acc, u : acc + widths[u], 0, SubSeq(order, 1, SelectInSeq(order, LAMBDA u : u = t) - 1))

Identity(n) == [i \in 1..n |-> i]

RemapCondition(e, order, widths) ==
    MoveColumns(e, [c \in ColumnRefs(e) |->
        OffsetIn(order, widths, c.table) + c.index - OffsetIn(Identity(Len(widths)), widths, c.table)])

AllConjuncts(conds) == FlattenSeq([i \in DOMAIN conds |-> CollectConjuncts(conds[i])])

(* The conditions that join leaf i to the leaves of S, those of the first  *)
(* leaf of S first.                                                        *)
ConnectingCondition(conds, S, i) ==
    LET leaves  == SetToSortSeq(S, <)
        Edge(j) == SelectSeq(AllConjuncts(conds), LAMBDA c : ReferencedTables(c) = {i, j})
    IN  FlattenSeq([k \in DOMAIN leaves |-> Edge(leaves[k])])

(* remap_condition subtracts offsets that do not fit its columns when the  *)
(* leaves are not the tables of FROM: an index out of bounds panics, and   *)
(* so does a negative one in a build that checks overflow.                 *)
JoinOrderPanics(p) ==
    LET leaves == ChainLeaves(p)
        widths == Widths(leaves)
        n      == Len(leaves)
        Remapped(c) == \/ Cardinality(ReferencedTables(c)) = 1
                       \/ Cardinality(ReferencedTables(c)) = 2 /\ ReferencedTables(c) \subseteq 1..n
        conj   == AllConjuncts(ChainConditions(p))
    IN  /\ n \in 3..MaxDpTables
        /\ \E k \in DOMAIN conj : \E c \in ColumnRefs(conj[k]) :
              /\ Remapped(conj[k])
              /\ c.table > n \/ c.index <= OffsetIn(Identity(n), widths, c.table)

(* Every leaf with the conditions about it alone (merge_leaf_filter).      *)
LeafWithFilters(leaf, i, conds, widths) ==
    LET own   == SelectSeq(AllConjuncts(conds), LAMBDA c : ReferencedTables(c) = {i})
        local == [k \in DOMAIN own |-> RemapCondition(own[k], << i >>, widths)]
    IN  IF own = << >> THEN leaf
        ELSE IF leaf.node = "Filter"
             THEN FilterNode(leaf.input, Op("AND", << leaf.pred, RebuildConjunction(local) >>))
             ELSE FilterNode(leaf, RebuildConjunction(local))

ResidualConditions(conds) ==
    SelectSeq(AllConjuncts(conds), LAMBDA c : Cardinality(ReferencedTables(c)) \notin {1, 2})

(* The dynamic program: a set of leaves grows by one that a condition      *)
(* connects to it, or by any if none does.                                 *)
RECURSIVE JoinOrders(_, _, _, _)
JoinOrders(S, plans, conds, widths) ==
    LET connected == {i \in S : ConnectingCondition(conds, S \ {i}, i) # << >>}
        Extend(prev, i, right) ==
            LET order == Append(prev.order, i)
                on    == ConnectingCondition(conds, S \ {i}, i)
                local == [k \in DOMAIN on |-> RemapCondition(on[k], order, widths)]
                cond  == IF on = << >> THEN Truth(TRUE) ELSE RebuildConjunction(local)
            IN  {[plan |-> q, order |-> order] : q \in JoinPlans(prev.plan, right, cond)}
    IN  IF Cardinality(S) = 1
        THEN LET i == CHOOSE i \in S : TRUE IN {[plan |-> q, order |-> << i >>] : q \in plans[i]}
        ELSE UNION {UNION {Extend(prev, i, right) :
                             prev \in JoinOrders(S \ {i}, plans, conds, widths), right \in plans[i]} :
                       i \in IF connected # {} THEN connected ELSE S}

(* reorder_to_original_layout                                              *)
ReorderToOriginal(entry, leaves, widths) ==
    LET n        == Len(leaves)
        Column(t, i) == ColumnRef(t, OffsetIn(entry.order, widths, t) + i, << >>, OutputTypes(leaves[t])[i])
    IN  IF entry.order = Identity(n) THEN entry.plan
        ELSE ProjectionNode(entry.plan,
                FlattenSeq([t \in 1..n |-> [i \in 1..widths[t] |-> Column(t, i)]]))

-----------------------------------------------------------------------------
(* Sorting that an index has already done                                  *)

(* output_ordering: the column the rows are in ascending order of, or 0.   *)
RECURSIVE OutputOrdering(_)
OutputOrdering(p) ==
    CASE p.node = "IndexScan"  -> IF p.scan = "range" THEN p.column ELSE 0
      [] p.node = "Filter"     -> OutputOrdering(p.input)
      [] p.node = "Sort"       -> IF Len(p.keys) = 1 /\ ~ p.keys[1].desc THEN p.keys[1].expr.index ELSE 0
      [] p.node \in {"Join", "HashJoin", "IndexJoin"} -> OutputOrdering(p.left)
      [] p.node = "Projection" ->
            LET below == OutputOrdering(p.input)
            IN  IF below = 0 THEN 0
                ELSE SelectInSeq(p.items, LAMBDA e : e.kind = "col" /\ e.index = below)
      [] OTHER -> 0

\* Fault: an index also does for the descending order.
AnyDirection(keys, p) == Len(keys) = 1 /\ OutputOrdering(p) = keys[1].expr.index

SortIsAlreadySatisfied(keys, p) ==
    Len(keys) = 1 /\ ~ keys[1].desc /\ OutputOrdering(p) = keys[1].expr.index

-----------------------------------------------------------------------------
(* optimize                                                                *)

RECURSIVE Optimize(_)
RECURSIVE SyntacticOrder(_, _)

(* combine_in_syntactic_order, and the join of two tables.                 *)
SyntacticOrder(leaves, conds) ==
    IF Len(leaves) = 1 THEN Optimize(leaves[1])
    ELSE UNION {JoinPlans(l, r, Last(conds)) :
                  l \in SyntacticOrder(Front(leaves), Front(conds)), r \in Optimize(Last(leaves))}

(* optimize_join_order                                                     *)
OptimizeJoin(p) ==
    LET leaves == ChainLeaves(p)
        conds  == ChainConditions(p)
        widths == Widths(leaves)
        plans  == [i \in DOMAIN leaves |-> Optimize(LeafWithFilters(leaves[i], i, conds, widths))]
        searched == {ReorderToOriginal(e, leaves, widths) :
                        e \in JoinOrders(DOMAIN leaves, plans, conds, widths)}
    IN  IF Len(leaves) \notin 3..MaxDpTables THEN SyntacticOrder(leaves, conds)
        ELSE {Filtered(q, ResidualConditions(conds)) : q \in searched \cup SyntacticOrder(leaves, conds)}

Optimize(p) ==
    CASE p.node \in {"Scan", "Values"} -> {p}
      [] p.node = "Filter" /\ p.input.node = "Scan" -> ScanPlanCandidates(p.input.table, p.pred)
      [] p.node = "Join"   -> OptimizeJoin(p)
      [] p.node = "Sort"   -> {IF SortIsAlreadySatisfied(p.keys, q) THEN q ELSE SortNode(q, p.keys) :
                                  q \in Optimize(p.input)}
      [] OTHER             -> {[p EXCEPT !.input = q] : q \in Optimize(p.input)}

Panics(p) == \E q \in SubPlans(p) : q.node = "Join" /\ JoinOrderPanics(q)
=============================================================================
