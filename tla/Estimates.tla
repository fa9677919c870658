------------------------------ MODULE Estimates ------------------------------
(***************************************************************************)
(* What ANALYZE keeps of a table (statistics.rs), what storage.rs accepts  *)
(* of it, and the numbers of rows that estimator.rs and physical_plan.rs   *)
(* derive from it for a predicate and for a plan.                          *)
(*                                                                         *)
(* The values of a column are a bag: a function from values, and Null, to  *)
(* how many rows have them.  An f64 is an exact ratio of two integers; the *)
(* clamps of estimator.rs are left out, since no ratio reaches them.       *)
(***************************************************************************)
EXTENDS PhysicalPlans

CONSTANTS HistogramBucketCount, McvMaxEntries, DefaultRowCountEstimate

ASSUME EstimatesAssumption ==
    {HistogramBucketCount, McvMaxEntries, DefaultRowCountEstimate} \subseteq Nat \ {0}

-----------------------------------------------------------------------------
(* Ratios in lowest terms.                                                 *)

Gcd(m, n) ==
    LET gcd[a \in Nat, b \in Nat] == IF b = 0 THEN a ELSE gcd[b, a % b] IN gcd[m, n]

Ratio(m, n) == LET g == Gcd(m, n) IN << m \div g, n \div g >>

Zero == << 0, 1 >>
One  == << 1, 1 >>

Times(a, b) == LET c == Ratio(a[1], b[2])
                   d == Ratio(b[1], a[2])
               IN  << c[1] * d[1], c[2] * d[2] >>

PlusOver(a, b, g)  == Ratio(a[1] * (b[2] \div g) + b[1] * (a[2] \div g), a[2] * (b[2] \div g))
MinusOver(a, b, g) == Ratio(a[1] * (b[2] \div g) - b[1] * (a[2] \div g), a[2] * (b[2] \div g))
Added(a, b) == PlusOver(a, b, Gcd(a[2], b[2]))
Less(a, b)  == MinusOver(a, b, Gcd(a[2], b[2]))       \* only used where a is not smaller

\* f64::round of rows times a ratio.
Rounded(rows, a) == (2 * rows * a[1] + a[2]) \div (2 * a[2])

-----------------------------------------------------------------------------
(* StatsCollector                                                          *)

Occurring(bag)    == {u \in DOMAIN bag \ {Null} : bag[u] > 0}
RowsWith(bag, S)  == SumFunctionOnSet(bag, S)
NonNullRows(bag)  == RowsWith(bag, Occurring(bag))
Smallest(S)       == CHOOSE u \in S : \A u2 \in S : u <= u2
Largest(S)        == CHOOSE u \in S : \A u2 \in S : u >= u2
TotalRows(seq)    == FoldLeft(LAMBDA acc, e : acc + e.rows, 0, seq)
Fewer(m, n)       == IF m < n THEN m ELSE n

(* extract_mcv: the most frequent value, the smallest of them, as long as  *)
(* it has more rows than a bucket of what is left would have.              *)
MostFrequent(bag) ==
    Smallest({u \in Occurring(bag) : \A u2 \in Occurring(bag) : bag[u2] <= bag[u]})

AboveAverage(count, remaining) == count * Fewer(remaining, HistogramBucketCount) > remaining

\* Fault: the average is that of all the rows, not of those that are left.
TakesIfAboveFirst(acc, u) ==
    IF AboveAverage(acc.left[u], NonNullRows(acc.left) + TotalRows(acc.mcv))
    THEN [acc EXCEPT !.mcv = Append(@, [value |-> u, rows |-> acc.left[u]]), !.left[u] = 0]
    ELSE acc

TakesIfAbove(acc, u) ==
    IF AboveAverage(acc.left[u], NonNullRows(acc.left))
    THEN [acc EXCEPT !.mcv = Append(@, [value |-> u, rows |-> acc.left[u]]), !.left[u] = 0]
    ELSE acc

ExtractMcv(bag) ==
    FoldLeft(LAMBDA acc, i : IF Occurring(acc.left) = {} THEN acc
                             ELSE TakesIfAbove(acc, MostFrequent(acc.left)),
             [mcv |-> << >>, left |-> bag], [i \in 1..McvMaxEntries |-> i])

(* build_equi_depth_histogram: buckets of a target size, each to the end   *)
(* of the run of equal values it would cut.                                *)
UpTo(bag, u) == {w \in Occurring(bag) : w <= u}

Bucket(bag, upper) ==
    [lower |-> Smallest(Occurring(bag)), upper |-> upper, rows |-> RowsWith(bag, UpTo(bag, upper))]

EndOfBucket(bag, target) ==
    Smallest({u \in Occurring(bag) : RowsWith(bag, UpTo(bag, u)) >= target})

WholeBucket(acc, upper) ==
    [histogram |-> Append(acc.histogram, Bucket(acc.left, upper)),
     left      |-> [u \in DOMAIN acc.left |-> IF u # Null /\ u <= upper THEN 0 ELSE acc.left[u]]]

NextBucket(acc, target) ==
    IF Occurring(acc.left) = {} THEN acc
    ELSE WholeBucket(acc, EndOfBucket(acc.left, Fewer(target, NonNullRows(acc.left))))

HistogramOf(bag, total, n) ==
    FoldLeft(LAMBDA acc, i : NextBucket(acc, total \div n + (IF i <= total % n THEN 1 ELSE 0)),
             [histogram |-> << >>, left |-> bag], [i \in 1..n |-> i]).histogram

BuildEquiDepthHistogram(bag) ==
    IF Occurring(bag) = {} THEN << >>
    ELSE HistogramOf(bag, NonNullRows(bag), Fewer(NonNullRows(bag), HistogramBucketCount))

\* add_row for every row, and finish.  An Option is a set of at most one.
ColumnStatsFrom(bag, type, extracted) ==
    [type      |-> type,
     nulls     |-> bag[Null],
     distinct  |-> Cardinality(Occurring(bag)),
     min       |-> {u \in Occurring(bag) : u = Smallest(Occurring(bag))},
     max       |-> {u \in Occurring(bag) : u = Largest(Occurring(bag))},
     mcv       |-> extracted.mcv,
     histogram |-> BuildEquiDepthHistogram(extracted.left)]

Collected(bag, type) ==
    [rows    |-> bag[Null] + NonNullRows(bag),
     columns |-> << ColumnStatsFrom(bag, type, ExtractMcv(bag)) >>]

-----------------------------------------------------------------------------
(* validate_column_stats_metadata                                          *)

WithinMinMax(s, u) == (\A m \in s.min : m <= u) /\ (\A m \in s.max : u <= m) /\ s.min # {}

ValidMcv(s, nonNull) ==
    /\ Len(s.mcv) <= Fewer(s.distinct, McvMaxEntries)
    /\ \A i \in DOMAIN s.mcv :
          /\ WithinMinMax(s, s.mcv[i].value)
          /\ s.mcv[i].rows \in 1..nonNull
          /\ \A j \in 1..(i - 1) : s.mcv[j].value # s.mcv[i].value /\ s.mcv[j].rows >= s.mcv[i].rows

ValidHistogram(s) ==
    /\ Len(s.histogram) <= HistogramBucketCount
    /\ \A i \in DOMAIN s.histogram :
          /\ s.histogram[i].lower <= s.histogram[i].upper
          /\ WithinMinMax(s, s.histogram[i].lower) /\ WithinMinMax(s, s.histogram[i].upper)
          /\ s.histogram[i].rows > 0
          /\ i > 1 => s.histogram[i - 1].upper < s.histogram[i].lower

ValidColumnStats(rows, s) ==
    LET nonNull == rows - s.nulls
    IN  /\ s.distinct \in 0..nonNull
        /\ nonNull = 0 <=> s.distinct = 0
        /\ s.min = {} <=> s.max = {}
        /\ \A m \in s.min, n \in s.max : m <= n
        /\ ValidMcv(s, nonNull) /\ ValidHistogram(s)
        /\ TotalRows(s.mcv) + TotalRows(s.histogram) = nonNull

\* validate_one_table_stats
ValidTableStats(t, s) ==
    /\ Len(s.columns) = Len(Schemas[t])
    /\ \A i \in DOMAIN s.columns : ValidColumnStats(s.rows, s.columns[i])

-----------------------------------------------------------------------------
(* Selectivity of one comparison.  A column's statistics are an Option:    *)
(* empty, or one pair of the statistics and the rows of the table.         *)

DefaultEqSel   == << 1, 200 >>
DefaultIneqSel == << 1, 3 >>

NullFraction(nulls, rows) == IF rows = 0 THEN Zero ELSE Ratio(nulls, rows)

NonNull(of) == Less(One, NullFraction(of.stats.nulls, of.rows))

Holding(histogram, value) ==
    {i \in DOMAIN histogram : histogram[i].lower <= value /\ value <= histogram[i].upper}

\* A mixed bucket is shared out among the values that buckets have on average.
InBucket(s, b, nonNull) ==
    IF b.lower = b.upper \/ s.distinct - Len(s.mcv) <= Len(s.histogram) THEN Ratio(b.rows, nonNull)
    ELSE Times(Ratio(b.rows, nonNull), Ratio(Len(s.histogram), s.distinct - Len(s.mcv)))

McvOf(s, value) == {i \in DOMAIN s.mcv : s.mcv[i].value = value}

\* equality_selectivity_within_non_null
EqualityWithin(s, value, nonNull, common, holding) ==
    CASE nonNull = 0 -> DefaultEqSel
      [] nonNull > 0 /\ common # {}  -> Ratio(s.mcv[Smallest(common)].rows, nonNull)
      [] nonNull > 0 /\ common = {} /\ holding # {} ->
            InBucket(s, s.histogram[Smallest(holding)], nonNull)
      [] nonNull > 0 /\ common = {} /\ holding = {} /\ s.histogram # << >> -> DefaultEqSel
      [] OTHER -> Zero

\* estimate_equality_selectivity
EstimateEquality(of, value) ==
    IF value = Null THEN Zero
    ELSE IF of = << >> THEN DefaultEqSel
    ELSE Times(NonNull(of[1]),
               EqualityWithin(of[1].stats, value, of[1].rows - of[1].stats.nulls,
                              McvOf(of[1].stats, value), Holding(of[1].stats.histogram, value)))

\* bucket_overlap_fraction; only BIGINTs have distances.
Interpolated(type, upperSatisfies, value, b) ==
    IF type # "BIGINT" THEN << 1, 2 >>
    ELSE IF upperSatisfies THEN Ratio(b.upper - value, b.upper - b.lower)
    ELSE Ratio(value - b.lower, b.upper - b.lower)

BucketOverlap(type, op, value, b) ==
    LET low == EvalCompare(op, b.lower, value)
        up  == EvalCompare(op, b.upper, value)
    IN  IF low = up THEN (IF up THEN One ELSE Zero) ELSE Interpolated(type, up, value, b)

HistogramMatched(s, op, value) ==
    FoldLeft(LAMBDA acc, b : Added(acc, Times(<< b.rows, 1 >>, BucketOverlap(s.type, op, value, b))),
             Zero, s.histogram)

McvMatched(s, op, value) ==
    TotalRows(SelectSeq(s.mcv, LAMBDA e : EvalCompare(op, e.value, value)))

\* range_selectivity_within_non_null; without a row there is no Min and Max.
RangeWithin(s, op, value) ==
    IF s.mcv = << >> /\ s.histogram = << >> THEN DefaultIneqSel
    ELSE Times(Added(HistogramMatched(s, op, value), << McvMatched(s, op, value), 1 >>),
               << 1, TotalRows(s.mcv) + TotalRows(s.histogram) >>)

\* estimate_range_selectivity
EstimateRange(of, op, value) ==
    IF value = Null THEN Zero
    ELSE IF of = << >> THEN DefaultIneqSel
    ELSE Times(NonNull(of[1]), RangeWithin(of[1].stats, op, value))

-----------------------------------------------------------------------------
(* Selectivity3: the shares of rows for which a predicate is true, false   *)
(* and unknown.                                                            *)

Share(t, f, u) == [true |-> t, false |-> f, unknown |-> u]
Certain(t)     == Share(t, Less(One, t), Zero)
Remaining(t, f) == Share(t, f, Less(Less(One, t), f))

\* comparison_unknown_fraction
UnknownFraction(of) ==
    IF of = << >> THEN Zero ELSE NullFraction(of[1].stats.nulls, of[1].rows)

TrueAndUnknown(t, u) == Share(t, Less(Less(One, t), u), u)

AlwaysUnknown == Share(Zero, Zero, One)

\* P(a) + P(b) - P(a) P(b)
Either(p, q) == Less(Added(p, q), Times(p, q))

\* Fault: AND is unknown unless both sides are known.
KnownAnd(a, b) ==
    LET known == Times(Less(One, a.unknown), Less(One, b.unknown))
        t     == Times(a.true, b.true)
    IN  Share(t, Less(known, t), Less(One, known))

And3(a, b) == Remaining(Times(a.true, b.true), Either(a.false, b.false))
Or3(a, b)  == Remaining(Either(a.true, b.true), Times(a.false, b.false))

Not3(a) == Share(a.false, a.true, a.unknown)

IsNull3(of) == Certain(IF of = << >> THEN DefaultEqSel ELSE UnknownFraction(of))

\* equality_selectivity3, range_selectivity3
Comparison3(of, op, value) ==
    CASE value = Null -> AlwaysUnknown
      [] value # Null /\ op = "="  -> TrueAndUnknown(EstimateEquality(of, value), UnknownFraction(of))
      [] value # Null /\ op = "<>" -> Not3(TrueAndUnknown(EstimateEquality(of, value), UnknownFraction(of)))
      [] OTHER -> TrueAndUnknown(EstimateRange(of, op, value), UnknownFraction(of))

-----------------------------------------------------------------------------
(* Whose column an operator's column is, and its statistics.  stats is a   *)
(* function from the tables that were analyzed.                            *)

RECURSIVE ResolveColumnOwner(_, _)
ResolveColumnOwner(p, i) ==
    LET InJoin(right) ==
            LET n == Len(OutputTypes(p.left))
            IN  IF i <= n THEN ResolveColumnOwner(p.left, i) ELSE ResolveColumnOwner(right, i - n)
    IN  CASE p.node \in {"Scan", "IndexScan"}                   -> << p.table, i >>
          [] p.node \in {"Filter", "Distinct", "Sort", "Limit"} -> ResolveColumnOwner(p.input, i)
          [] p.node \in {"Join", "HashJoin"}                    -> InJoin(p.right)
          [] p.node = "IndexJoin"                               -> InJoin(ScanNode(p.table))
          [] OTHER                                              -> << >>

ColumnStatsOf(stats, t, i) ==
    IF t \in DOMAIN stats THEN << [stats |-> stats[t].columns[i], rows |-> stats[t].rows] >> ELSE << >>

OwnerStats(owner, stats) ==
    IF owner = << >> THEN << >> ELSE ColumnStatsOf(stats, owner[1], owner[2])

ColumnOwnerStats(e, p, stats) ==
    IF e.kind # "col" THEN << >> ELSE OwnerStats(ResolveColumnOwner(p, e.index), stats)

\* predicate_selectivity3 and comparison_selectivity3
\* Fault: a constant on the left is read as if on the right.
AsWritten(o) == o

FlippedOrSame(o) == IF o \in DOMAIN FlipComparison THEN FlipComparison[o] ELSE o

ComparisonSelectivity3(e, p, stats) ==
    CASE IsConstantValue(e.args[2]) ->
            Comparison3(ColumnOwnerStats(e.args[1], p, stats), e.op, LiteralValue(e.args[2]))
      [] ~ IsConstantValue(e.args[2]) /\ IsConstantValue(e.args[1]) ->
            Comparison3(ColumnOwnerStats(e.args[2], p, stats), FlippedOrSame(e.op), LiteralValue(e.args[1]))
      [] OTHER -> Certain(DefaultIneqSel)

RECURSIVE PredicateSelectivity3(_, _, _)
PredicateSelectivity3(e, p, stats) ==
    LET Of(i) == PredicateSelectivity3(e.args[i], p, stats)
    IN  CASE e.kind = "op" /\ e.op = "()"  -> Of(1)
          [] e.kind = "op" /\ e.op = "NOT" -> Not3(Of(1))
          [] e.kind = "op" /\ e.op = "AND" -> And3(Of(1), Of(2))
          [] e.kind = "op" /\ e.op = "OR"  -> Or3(Of(1), Of(2))
          [] e.kind = "op" /\ e.op \in Compare -> ComparisonSelectivity3(e, p, stats)
          [] e.kind = "op" /\ e.op = "IS NULL" -> IsNull3(ColumnOwnerStats(e.args[1], p, stats))
          [] e.kind = "op" /\ e.op = "IS NOT NULL" -> Not3(IsNull3(ColumnOwnerStats(e.args[1], p, stats)))
          [] OTHER -> Certain(DefaultIneqSel)

-----------------------------------------------------------------------------
(* estimate_rows                                                           *)

TableRowCount(stats, t) ==
    IF t \in DOMAIN stats THEN stats[t].rows ELSE DefaultRowCountEstimate

AtLeastOne(n) == IF n = 0 THEN 1 ELSE n
Greater(m, n) == IF m < n THEN n ELSE m

EstimateJoinRowCount(l, r, ndvL, ndvR) == (l * r) \div AtLeastOne(Greater(ndvL, ndvR))

FallbackJoinRowCount(l, r) == EstimateJoinRowCount(l, r, l, r)

\* Fault: rows whose key is NULL count.
AllRows(rows, of) == rows

ApplyNonNullFraction(rows, of) == Rounded(rows, NonNull(of))

\* The first key of a hash join.
KeyedJoinRowCount(l, r, ofL, ofR) ==
    IF ofL = << >> \/ ofR = << >> THEN FallbackJoinRowCount(l, r)
    ELSE IF ofL[1].stats.distinct = 0 \/ ofR[1].stats.distinct = 0 THEN FallbackJoinRowCount(l, r)
    ELSE EstimateJoinRowCount(ApplyNonNullFraction(l, ofL[1]), ApplyNonNullFraction(r, ofR[1]),
                              ofL[1].stats.distinct, ofR[1].stats.distinct)

IndexJoinRowCount(l, inner, of) ==
    IF of = << >> THEN EstimateJoinRowCount(l, inner, AtLeastOne(l), inner)
    ELSE EstimateJoinRowCount(l, ApplyNonNullFraction(inner, of[1]), AtLeastOne(l),
                              AtLeastOne(of[1].stats.distinct))

\* range_selectivity_of_bounds; an end without a bound is empty.
BoundSelectivity(of, bound, inclusive, exclusive) ==
    IF bound = << >> THEN One
    ELSE EstimateRange(of, IF bound[1].included THEN inclusive ELSE exclusive, bound[1].value)

IndexScanSelectivity(p, of) ==
    IF p.scan = "point" THEN EstimateEquality(of, p.lower[1].value)
    ELSE Times(BoundSelectivity(of, p.lower, ">=", ">"), BoundSelectivity(of, p.upper, "<=", "<"))

\* estimate_aggregate_row_count: no more groups than rows.
EstimateAggregateRowCount(ndvs, rows) ==
    IF ndvs = << >> THEN 1
    ELSE FoldLeft(LAMBDA acc, n : Fewer(acc * AtLeastOne(n), rows), 1, ndvs)

DistinctOr(of, rows) == IF of = << >> THEN rows ELSE of[1].stats.distinct

RECURSIVE EstimateRows(_, _)
EstimateRows(p, stats) ==
    CASE p.node = "Scan"      -> TableRowCount(stats, p.table)
      [] p.node = "IndexScan" -> Rounded(TableRowCount(stats, p.table),
                                         IndexScanSelectivity(p, ColumnStatsOf(stats, p.table, p.column)))
      [] p.node = "Values"    -> Len(p.rows)
      [] p.node = "Filter"    -> Rounded(EstimateRows(p.input, stats),
                                         PredicateSelectivity3(p.pred, p.input, stats).true)
      [] p.node = "Join"      -> FallbackJoinRowCount(EstimateRows(p.left, stats), EstimateRows(p.right, stats))
      [] p.node = "HashJoin"  ->
            KeyedJoinRowCount(EstimateRows(p.left, stats), EstimateRows(p.right, stats),
                              ColumnOwnerStats(p.keys[1].left, p.left, stats),
                              ColumnOwnerStats(p.keys[1].right, p.right, stats))
      [] p.node = "IndexJoin" ->
            IndexJoinRowCount(EstimateRows(p.left, stats), TableRowCount(stats, p.table),
                              ColumnStatsOf(stats, p.table, p.column))
      [] p.node = "Aggregate" ->
            EstimateAggregateRowCount([i \in DOMAIN p.group |->
                    DistinctOr(ColumnOwnerStats(p.group[i], p.input, stats), EstimateRows(p.input, stats))],
                EstimateRows(p.input, stats))
      [] p.node = "Limit" /\ p.limit # << >> -> Fewer(EstimateRows(p.input, stats), p.limit[1])
      [] OTHER -> EstimateRows(p.input, stats)
=============================================================================
