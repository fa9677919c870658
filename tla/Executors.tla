------------------------------ MODULE Executors ------------------------------
(***************************************************************************)
(* The rows a plan yields (the executors of physical_plan.rs).             *)
(*                                                                         *)
(* An operator is a stream: built is FALSE if its constructor fails, which *)
(* is where the blocking operators read their input; rows are what next()  *)
(* returns before it returns None, or an error if the stream fails.  A     *)
(* reader that stops early never meets that error.                         *)
(*                                                                         *)
(* Run also executes the logical plans, which shows what the optimizer may *)
(* have changed.                                                           *)
(***************************************************************************)
EXTENDS PhysicalPlans

Rows(s) == [built |-> TRUE, rows |-> s, fails |-> FALSE]
Fails   == [built |-> TRUE, rows |-> << >>, fails |-> TRUE]
Unbuilt == [built |-> FALSE, rows |-> << >>, fails |-> TRUE]

Complete(in) == in.built /\ ~ in.fails

(* A streaming operator: the streams F of the rows of its input, one after *)
(* another up to the first that fails.                                     *)
Pull(in, F(_)) ==
    LET Step(acc, row) == IF acc.fails THEN acc
                          ELSE LET next == F(row) IN [next EXCEPT !.rows = acc.rows \o @]
        pulled == FoldLeft(Step, Rows(<< >>), in.rows)
    IN  IF ~ in.built THEN Unbuilt ELSE [pulled EXCEPT !.fails = @ \/ in.fails]

(* A blocking operator: all rows of its input are read in its constructor. *)
Read(in, F(_)) == IF Complete(in) THEN F(in.rows) ELSE Unbuilt

EvalAll(exprs, row) == [i \in DOMAIN exprs |-> Eval(exprs[i], row)]

HasNull(s) == \E i \in DOMAIN s : s[i] = Null

-----------------------------------------------------------------------------
(* IndexScanExec: the rows with a key within the bounds; NULL is in no     *)
(* index.  A point returns them in the order of the table, a range in the  *)
(* order of the keys.                                                      *)

Within(v, lower, upper) ==
    /\ v # Null
    /\ lower # << >> => v > lower[1].value \/ (lower[1].included /\ v = lower[1].value)
    /\ upper # << >> => v < upper[1].value \/ (upper[1].included /\ v = upper[1].value)

IndexScanRows(p, table) ==
    LET Key(i) == table[i][p.column]
        found == SelectSeq(Identity(Len(table)), LAMBDA i : Within(Key(i), p.lower, p.upper))
        order == SortSeq(found, LAMBDA i, j : Key(i) < Key(j) \/ (Key(i) = Key(j) /\ i < j))
    IN  [k \in DOMAIN order |-> table[order[k]]]

Lookup(table, column, v) == SelectSeq(table, LAMBDA row : v # Null /\ row[column] = v)

(* FilterExec, and the pairs of NestedLoopJoinExec.                        *)
Keep(pred, row) ==
    LET v == Eval(pred, row)
    IN  IF v = Error THEN Fails ELSE Rows(IF Matches(v) THEN << row >> ELSE << >>)

ProjectRow(items, row) ==
    LET out == EvalAll(items, row) IN IF Failed(out) THEN Fails ELSE Rows(<< out >>)

NestedLoopJoin(left, right, cond) ==
    Read(right, LAMBDA rows : Pull(left, LAMBDA l : Pull(right, LAMBDA r : Keep(cond, l \o r))))

(* HashJoinExec: the right side is hashed by its keys; a NULL among the    *)
(* keys joins with nothing.                                                *)
HashJoin(left, right, keys) ==
    LET leftKeys  == [i \in DOMAIN keys |-> keys[i].left]
        rightKeys == [i \in DOMAIN keys |-> keys[i].right]
        Probe(rows, l) ==
            LET key == EvalAll(leftKeys, l)
                hit == SelectSeq(rows, LAMBDA r : ~ HasNull(key) /\ EvalAll(rightKeys, r) = key)
            IN  IF Failed(key) THEN Fails ELSE Rows([i \in DOMAIN hit |-> l \o hit[i]])
        Build(rows) == IF \E i \in DOMAIN rows : Failed(EvalAll(rightKeys, rows[i])) THEN Unbuilt
                       ELSE Pull(left, LAMBDA l : Probe(rows, l))
    IN  Read(right, Build)

(* IndexNestedLoopJoinExec                                                 *)
IndexJoin(left, table, column, key) ==
    Pull(left, LAMBDA l :
        LET v   == Eval(key, l)
            hit == Lookup(table, column, v)
        IN  IF v = Error THEN Fails ELSE Rows([i \in DOMAIN hit |-> l \o hit[i]]))

-----------------------------------------------------------------------------
(* HashAggregateExec: the groups in the order in which they are met, one   *)
(* group over no rows if there is no GROUP BY.                             *)

FirstOccurrences(s) == FoldLeft(LAMBDA acc, x : IF Contains(acc, x) THEN acc ELSE Append(acc, x), << >>, s)

(* AggState: NULL arguments are skipped; SUM adds in the order of the rows *)
(* and fails on the first sum that is out of range.                        *)
AggregateValue(call, rows) ==
    LET values == [i \in DOMAIN rows |-> IF call.args = << >> THEN 0 ELSE Eval(call.args[1], rows[i])]
        known  == SelectSeq(values, LAMBDA v : v # Null)
        Better(w, v) == (call.func = "MIN" /\ Before(w, v)) \/ (call.func = "MAX" /\ Before(v, w))
        Best(v, w)   == IF Better(w, v) THEN w ELSE v
    IN  IF Failed(values) THEN Error
        ELSE IF call.func = "COUNT" THEN Len(known)
        ELSE IF known = << >> THEN Null
        ELSE IF call.func = "SUM"
             THEN FoldLeft(LAMBDA acc, v : IF acc = Error THEN Error ELSE Checked(acc + v), 0, known)
        ELSE FoldLeft(Best, known[1], known)

Aggregate(rows, group, calls) ==
    LET keys   == [i \in DOMAIN rows |-> EvalAll(group, rows[i])]
        groups == IF group = << >> THEN << << >> >> ELSE FirstOccurrences(keys)
        Members(k) == SelectSeq(rows, LAMBDA row : EvalAll(group, row) = k)
        Line(k) == k \o [j \in DOMAIN calls |-> AggregateValue(calls[j], Members(k))]
        lines  == [g \in DOMAIN groups |-> Line(groups[g])]
    IN  IF Failed(FlattenSeq(keys)) \/ Failed(FlattenSeq(lines)) THEN Unbuilt ELSE Rows(lines)

-----------------------------------------------------------------------------
(* SortExec: stable, by the first key that differs.                        *)

SortsBefore(a, b, keys) ==
    \E k \in DOMAIN keys :
        /\ \A j \in 1..(k - 1) : a[j] = b[j]
        /\ IF keys[k].desc THEN Before(b[k], a[k]) ELSE Before(a[k], b[k])

Sort(rows, keys) ==
    LET exprs == [k \in DOMAIN keys |-> keys[k].expr]
        key   == [i \in DOMAIN rows |-> EvalAll(exprs, rows[i])]
        order == SortSeq(Identity(Len(rows)), LAMBDA i, j :
                     SortsBefore(key[i], key[j], keys) \/ (key[i] = key[j] /\ i < j))
    IN  IF Failed(FlattenSeq(key)) THEN Unbuilt ELSE Rows([i \in DOMAIN rows |-> rows[order[i]]])

(* LimitExec: nothing is read past the last row that is returned.          *)
LimitRows(in, limit, offset) ==
    LET skip == IF offset = << >> THEN 0 ELSE offset[1]
        last == IF limit = << >> THEN Len(in.rows) ELSE skip + limit[1]
        enough == limit # << >> /\ (limit[1] = 0 \/ last <= Len(in.rows))
        upTo == IF last <= Len(in.rows) THEN last ELSE Len(in.rows)
    IN  [in EXCEPT !.rows = SubSeq(@, skip + 1, upTo), !.fails = ~ in.built \/ (@ /\ ~ enough)]

-----------------------------------------------------------------------------
(* build_query_executor, and the rows it delivers from these tables.       *)

RECURSIVE Run(_, _)
Run(p, data) ==
    CASE p.node = "Scan"       -> Rows(data[p.table])
      [] p.node = "Values"     -> Rows(<< << >> >>)
      [] p.node = "IndexScan"  -> Rows(IndexScanRows(p, data[p.table]))
      [] p.node = "Join"       -> NestedLoopJoin(Run(p.left, data), Run(p.right, data), p.cond)
      [] p.node = "HashJoin"   -> HashJoin(Run(p.left, data), Run(p.right, data), p.keys)
      [] p.node = "IndexJoin"  -> IndexJoin(Run(p.left, data), data[p.table], p.column, p.key)
      [] p.node = "Filter"     -> Pull(Run(p.input, data), LAMBDA row : Keep(p.pred, row))
      [] p.node = "Projection" -> Pull(Run(p.input, data), LAMBDA row : ProjectRow(p.items, row))
      [] p.node = "Aggregate"  -> Read(Run(p.input, data), LAMBDA rows : Aggregate(rows, p.group, p.calls))
      [] p.node = "Distinct"   -> LET in == Run(p.input, data)
                                  IN  [in EXCEPT !.rows = FirstOccurrences(@)]
      [] p.node = "Sort"       -> Read(Run(p.input, data), LAMBDA rows : Sort(rows, p.keys))
      [] p.node = "Limit"      -> LimitRows(Run(p.input, data), p.limit, p.offset)

(* execute_select: the rows, or the first error.                           *)
Collect(stream) == IF Complete(stream) THEN stream.rows ELSE Error
=============================================================================
