------------------------------ MODULE Statistics ------------------------------
(***************************************************************************)
(* A table with one column whose rows come and go, ANALYZE, and what the   *)
(* planner then believes (database.rs execute_analyze, storage.rs          *)
(* set_table_stats, module Estimates).  Statistics stay as they are until  *)
(* the next ANALYZE.                                                       *)
(***************************************************************************)
EXTENDS Estimates

CONSTANTS
    Table,        \* its name, with one column in Schemas
    Values,       \* values of the column besides Null
    MaxRows,      \* rows the table may have (a bound)
    MaxChanges,   \* changes after an ANALYZE (a bound)
    Predicates,   \* conditions that estimates are made for
    Conditions    \* conditions that an index may answer

ASSUME StatisticsAssumption == {MaxRows, MaxChanges} \subseteq Nat

VARIABLES
    rows,     \* how many rows have a value
    stats,    \* the statistics in the catalog: a function from tables
    changes,  \* changes since
    refused   \* an ANALYZE ended with InvalidStats

vars == << rows, stats, changes, refused >>

Init ==
    /\ rows = [u \in Values \cup {Null} |-> 0]
    /\ stats = << >>
    /\ changes = 0
    /\ refused = FALSE

Touched ==
    /\ changes < MaxChanges
    /\ changes' = IF stats = << >> THEN 0 ELSE changes + 1
    /\ UNCHANGED << stats, refused >>

Insert(u) ==
    /\ RowsWith(rows, DOMAIN rows) < MaxRows
    /\ rows' = [rows EXCEPT ![u] = @ + 1]
    /\ Touched

Delete(u) ==
    /\ rows[u] > 0
    /\ rows' = [rows EXCEPT ![u] = @ - 1]
    /\ Touched

\* collect_table_stats and set_table_stats
Analyze ==
    LET collected == Collected(rows, Schemas[Table][1].type)
    IN  /\ stats' = IF ValidTableStats(Table, collected) THEN Table :> collected ELSE stats
        /\ refused' = ~ ValidTableStats(Table, collected)
        /\ changes' = IF ValidTableStats(Table, collected) THEN 0 ELSE changes
        /\ UNCHANGED rows

Next ==
    \/ \E u \in DOMAIN rows : Insert(u) \/ Delete(u)
    \/ Analyze

Spec == Init /\ [][Next]_vars

------------------------------------------------------------------------------
(* Properties.                                                             *)

Analyzed == stats # << >>
Fresh    == Analyzed /\ changes = 0
Column   == stats[Table].columns[1]

\* What ANALYZE collects of a table passes the checks that set_table_stats and
\* the next opening of the database make (storage.rs:1888), whatever it holds.
\* A value is a common one or in one bucket, which counts its values exactly;
\* and while there is room for common values, no other value has more rows
\* than an average bucket of the rest (statistics.rs:57-87): a frequent value
\* is never hidden among the others of its bucket.
FrequentStandOut ==
    /\ ~ refused
    /\ Fresh =>
        /\ \A u \in Occurring(rows) :
              Cardinality(McvOf(Column, u)) + Cardinality(Holding(Column.histogram, u)) = 1
        /\ \A i \in DOMAIN Column.mcv : Column.mcv[i].rows = rows[Column.mcv[i].value]
        /\ \A i \in DOMAIN Column.histogram :
              LET within == {u \in Occurring(rows) : i \in Holding(Column.histogram, u)}
              IN  /\ Column.histogram[i].rows = RowsWith(rows, within)
                  /\ {Column.histogram[i].lower, Column.histogram[i].upper} \subseteq within
        /\ Len(Column.mcv) < McvMaxEntries =>
              \A u \in Occurring(rows) :
                  McvOf(Column, u) = {} => ~ AboveAverage(rows[u], TotalRows(Column.histogram))

Shares(p) == PredicateSelectivity3(p, ScanNode(Table), stats)

\* A condition of equalities with constants, IS NULL, AND, OR and NOT that fresh statistics
\* call impossible holds for no row; one that they call certain or never
\* unknown fails, or is unknown, for no row.
Outcomes(p) == {Eval(p, << u >>) : u \in {w \in DOMAIN rows : rows[w] > 0}}

RECURSIVE Exact(_)
Exact(e) ==
    CASE e.op \in {"IS NULL", "IS NOT NULL"} -> TRUE
      [] e.op \in {"AND", "OR", "NOT"}       -> \A i \in DOMAIN e.args : Exact(e.args[i])
      [] OTHER -> e.op \in {"=", "<>"} /\ IsConstantValue(e.args[2])

NoFalseZero ==
    Fresh => \A p \in {q \in Predicates : Exact(q)} :
        LET s == Shares(p)
        IN  /\ s.true = Zero    => TRUE \notin Outcomes(p)
            /\ s.false = Zero   => FALSE \notin Outcomes(p)
            /\ s.unknown = Zero => Null \notin Outcomes(p)

\* However a table is read, through an index and what it leaves of the
\* condition or row by row, the planner counts on the same rows, as long as the
\* condition has its columns without parentheses: the access path is chosen by
\* its cost alone.  (Rounding twice may move it by one.)  A column in
\* parentheses has its statistics on an index (column_index_of) but not on a
\* scan (column_owner_stats).
PathsAgree ==
    \A c \in Conditions : \A p, q \in ScanPlanCandidates(Table, c) :
        EstimateRows(p, stats) <= EstimateRows(q, stats) + 1

\* The rows estimated for a join of the table with itself on the column are at
\* least its rows with a value and at most those the join has: NULLs, which
\* join with nothing, do not count (estimator.rs:486-491).
SelfJoin ==
    LET x == ColumnRef(1, 1, << "x" >>, Schemas[Table][1].type)
    IN  HashJoinNode(ScanNode(Table), ScanNode(Table), << [left |-> x, right |-> x] >>)

JoinsBounded ==
    Fresh /\ Occurring(rows) # {} =>
        EstimateRows(SelfJoin, stats)
            \in NonNullRows(rows)..SumFunctionOnSet([u \in DOMAIN rows |-> rows[u] * rows[u]], Occurring(rows))
=============================================================================
