---------------------------- MODULE LogicalPlans ----------------------------
(***************************************************************************)
(* SELECT from its syntax tree to a logical plan: names and types are      *)
(* resolved (binder.rs), aggregates and ORDER BY keys become columns of    *)
(* the operators below them, and the plan is built in the order in which   *)
(* SQL evaluates its clauses (logical_plan.rs).                            *)
(*                                                                         *)
(* A select is a record with the fields items ("*" or expressions), from   *)
(* ([table, alias]), on (one condition for every table after the first),   *)
(* where, group, having, order ([expr, desc]), distinct, limit and offset; *)
(* an optional clause is a sequence of at most one element.                *)
(***************************************************************************)
EXTENDS SqlExpressions

CONSTANT Schemas     \* [table -> its columns, a sequence of [name, type]]

Failed(s) == \E i \in DOMAIN s : s[i] = Error

-----------------------------------------------------------------------------
(* Binder: columns and types                                               *)

Ref(q, n) == [kind |-> "ref", qual |-> q, name |-> n]     \* q = "": unqualified
Wildcard  == [kind |-> "*"]

Schema(t) == Schemas[t]

(* The joined schema of FROM: the columns of its tables one after another. *)
TableOffset(from, k) == FoldLeft(+, 0, [j \in 1..(k - 1) |-> Len(Schema(from[j].table))])

JoinedColumns(from) ==
    FlattenSeq([k \in DOMAIN from |->
        LET columns == Schema(from[k].table)
        IN  [i \in DOMAIN columns |->
                ColumnRef(k, TableOffset(from, k) + i, columns[i].name, columns[i].type)]])

(* A qualifier means the first table of that name; a bare name must be a   *)
(* column of exactly one table.                                            *)
ResolveColumn(e, from) ==
    LET owner   == SelectInSeq(from, LAMBDA t : t.alias = e.qual)
        matches == SelectSeq(JoinedColumns(from),
                             LAMBDA c : c.name = e.name /\ (e.qual = "" \/ c.table = owner))
    IN  IF Len(matches) = 1 THEN matches[1] ELSE Error

RECURSIVE HasAggregate(_)
HasAggregate(e) ==
    \/ e.kind = "agg"
    \/ e.kind = "op" /\ \E i \in DOMAIN e.args : HasAggregate(e.args[i])

Fits(type, want) == type \in {want, "none"}

(* check_unary_type, check_binary_type and the signature of abs.           *)
Accepts(op, types) ==
    CASE op \in {"()", "IS NULL", "IS NOT NULL"} -> TRUE
      [] op \in Compare             -> types[1] = types[2] \/ "none" \in {types[1], types[2]}
      [] op \in {"AND", "OR", "NOT"} -> \A i \in DOMAIN types : Fits(types[i], "BOOLEAN")
      [] OTHER                      -> \A i \in DOMAIN types : Fits(types[i], "BIGINT")

AcceptsAggregate(func, args) ==
    \A i \in DOMAIN args : ~ HasAggregate(args[i]) /\ (func = "SUM" => Fits(Type(args[i]), "BIGINT"))

(* The type that an operator gives to an operand that is a placeholder; a  *)
(* comparison gives it the type of its other side.                         *)
ParamHint(op, types) ==
    CASE op \in {"()", "IS NULL", "IS NOT NULL"} -> "none"
      [] op \in Compare              -> IF types[1] # "none" THEN types[1] ELSE types[2]
      [] op \in {"AND", "OR", "NOT"} -> "BOOLEAN"
      [] OTHER                       -> "BIGINT"

CoerceParamType(e, hint) ==
    IF e.kind = "param" /\ e.type = "none" THEN [e EXCEPT !.type = hint] ELSE e

TypesOf(exprs) == [i \in DOMAIN exprs |-> Type(exprs[i])]

Coerced(op, args) == [i \in DOMAIN args |-> CoerceParamType(args[i], ParamHint(op, TypesOf(args)))]

BoundOp(e, args) == IF Accepts(e.op, TypesOf(args)) THEN [e EXCEPT !.args = args] ELSE Error

BoundCall(e, args) == IF AcceptsAggregate(e.func, args) THEN [e EXCEPT !.args = args] ELSE Error

BoundOver(e, args) ==
    CASE Failed(args)   -> Error
      [] e.kind = "agg" -> BoundCall(e, args)
      [] OTHER          -> BoundOp(e, Coerced(e.op, args))

RECURSIVE BindExpr(_, _)
BindExpr(e, from) ==
    CASE e.kind = "ref"            -> ResolveColumn(e, from)
      [] e.kind \in {"op", "agg"}  -> BoundOver(e, [i \in DOMAIN e.args |-> BindExpr(e.args[i], from)])
      [] OTHER                     -> e

AsPredicate(bound) == IF bound # Error /\ Fits(Type(bound), "BOOLEAN") THEN bound ELSE Error

BindPredicate(e, from) == AsPredicate(BindExpr(e, from))

(* LIMIT and OFFSET are evaluated while binding, in an empty scope.        *)
EvalRowCount(e) ==
    LET bound == BindExpr(e, << >>)
        count == Eval(bound, << >>)
    IN  IF bound = Error \/ Type(bound) # "BIGINT" THEN Error
        ELSE IF count \in {Error, Null} \/ count < 0 THEN Error ELSE count

-----------------------------------------------------------------------------
(* Binder: aggregates.  Expressions are the same if their labels are.      *)

Same(e, f) == Label(e) = Label(f)

IndexOf(s, e) == SelectInSeq(s, LAMBDA f : Same(e, f))

RECURSIVE CallsIn(_, _)
CallsIn(e, group) ==
    IF IndexOf(group, e) # 0 THEN << >>
    ELSE IF e.kind = "agg" THEN << e >>
    ELSE IF e.kind = "op" THEN FlattenSeq([i \in DOMAIN e.args |-> CallsIn(e.args[i], group)])
    ELSE << >>

AppendNew(s, e) == IF IndexOf(s, e) = 0 THEN Append(s, e) ELSE s

(* The aggregate calls of the select list, HAVING and ORDER BY, each once, *)
(* in the order in which they are met.                                     *)
AggregateCalls(exprs, group) ==
    FoldLeft(AppendNew, << >>, FlattenSeq([i \in DOMAIN exprs |-> CallsIn(exprs[i], group)]))

AggregateSchema(group, calls) ==
    [i \in 1..(Len(group) + Len(calls)) |->
        LET e == (group \o calls)[i]
        IN  [name |-> Label(e), type |-> IF Type(e) = "none" THEN "TEXT" ELSE Type(e)]]

(* The expression over the columns of the aggregate operator.              *)
RECURSIVE RewriteForAggregate(_, _, _)
RewriteForAggregate(e, group, calls) ==
    LET slot   == IndexOf(group \o calls, e)
        schema == AggregateSchema(group, calls)
        args   == [i \in DOMAIN e.args |-> RewriteForAggregate(e.args[i], group, calls)]
    IN  IF IndexOf(group, e) # 0 \/ e.kind = "agg"
        THEN ColumnRef(1, slot, schema[slot].name, schema[slot].type)
        ELSE IF e.kind = "col" THEN Error
        ELSE IF e.kind # "op" THEN e
        ELSE IF Failed(args) THEN Error ELSE [e EXCEPT !.args = args]

-----------------------------------------------------------------------------
(* bind_select.  The parts of a select bound in the scope of FROM, or      *)
(* Error.                                                                  *)
CheckedClauses(s, c) ==
    LET rowBound == c.on \o c.where \o c.group
    IN  IF \/ s.from = << >> /\ \E i \in DOMAIN s.items : s.items[i] = Wildcard
           \/ Failed(c.items \o rowBound \o c.having \o c.order)
           \/ \E i \in DOMAIN rowBound : HasAggregate(rowBound[i])
        THEN Error ELSE c

BindClauses(s) ==
    LET Bind(e)      == BindExpr(e, s.from)
        Predicate(e) == BindPredicate(e, s.from)
        Each(seq, F(_)) == [i \in DOMAIN seq |-> F(seq[i])]
    IN  CheckedClauses(s,
            [items  |-> FlattenSeq(Each(s.items, LAMBDA e :
                            IF e = Wildcard THEN JoinedColumns(s.from) ELSE << Bind(e) >>)),
             on     |-> [i \in DOMAIN s.on |-> BindPredicate(s.on[i], SubSeq(s.from, 1, i + 1))],
             where  |-> Each(s.where, Predicate),
             group  |-> Each(s.group, Bind),
             having |-> Each(s.having, Predicate),
             order  |-> Each(s.order, LAMBDA k : Bind(k.expr))])

IsAggregate(c) ==
    \/ c.group # << >>
    \/ c.having # << >>
    \/ \E i \in DOMAIN c.items : HasAggregate(c.items[i])
    \/ \E i \in DOMAIN c.order : HasAggregate(c.order[i])

(* An expression of a clause over the aggregate operator, if there is one. *)
Over(exprs, c, calls) ==
    IF IsAggregate(c)
    THEN [i \in DOMAIN exprs |-> RewriteForAggregate(exprs[i], c.group, calls)] ELSE exprs

(* ORDER BY takes a column of the select list with the same label, else a  *)
(* hidden column after it.                                                 *)
Assembled(s, c, calls, items, having, order) ==
    LET columns == FoldLeft(AppendNew, items, order)
        limit   == [i \in DOMAIN s.limit  |-> EvalRowCount(s.limit[i])]
        offset  == [i \in DOMAIN s.offset |-> EvalRowCount(s.offset[i])]
    IN  IF \/ Failed(items \o having \o order)
           \/ s.distinct /\ Len(columns) > Len(items)
           \/ Failed(limit \o offset)
        THEN Error
        ELSE [from |-> s.from, on |-> c.on, where |-> c.where,
              aggregate |-> IF IsAggregate(c)
                            THEN << [group |-> c.group, calls |-> calls,
                                     schema |-> AggregateSchema(c.group, calls)] >> ELSE << >>,
              having |-> having, projection |-> columns, visible |-> Len(items),
              distinct |-> s.distinct,
              order |-> [i \in DOMAIN order |->
                            [column |-> IndexOf(columns, order[i]), desc |-> s.order[i].desc]],
              limit |-> limit, offset |-> offset]

BindOverAggregate(s, c, calls) ==
    Assembled(s, c, calls, Over(c.items, c, calls), Over(c.having, c, calls), Over(c.order, c, calls))

BindBound(s, c) ==
    IF c = Error THEN Error ELSE BindOverAggregate(s, c, AggregateCalls(c.items \o c.having \o c.order, c.group))

BindSelect(s) == BindBound(s, BindClauses(s))

-----------------------------------------------------------------------------
(* LogicalPlan                                                             *)

ScanNode(t)             == [node |-> "Scan", table |-> t]
ValuesNode              == [node |-> "Values"]
FilterNode(i, p)        == [node |-> "Filter", input |-> i, pred |-> p]
JoinNode(l, r, c)       == [node |-> "Join", left |-> l, right |-> r, cond |-> c]
ProjectionNode(i, s)    == [node |-> "Projection", input |-> i, items |-> s]
AggregateNode(i, a)     == [node |-> "Aggregate", input |-> i, group |-> a.group, calls |-> a.calls,
                            schema |-> a.schema]
DistinctNode(i)         == [node |-> "Distinct", input |-> i]
SortNode(i, k)          == [node |-> "Sort", input |-> i, keys |-> k]
LimitNode(i, l, o)      == [node |-> "Limit", input |-> i, limit |-> l, offset |-> o]

(* output_schema, as far as types go; the physical operators follow the    *)
(* same rules.  The schema of an aggregate is fixed when it is bound.      *)
RECURSIVE OutputTypes(_)
OutputTypes(p) ==
    CASE p.node \in {"Scan", "IndexScan"} -> [i \in DOMAIN Schema(p.table) |-> Schema(p.table)[i].type]
      [] p.node = "Values"     -> << >>
      [] p.node \in {"Join", "HashJoin"} -> OutputTypes(p.left) \o OutputTypes(p.right)
      [] p.node = "IndexJoin"  -> OutputTypes(p.left) \o OutputTypes(ScanNode(p.table))
      [] p.node = "Aggregate"  -> [i \in DOMAIN p.schema |-> p.schema[i].type]
      [] p.node = "Projection" ->
            LET types == OutputTypes(p.input)
            IN  [i \in DOMAIN p.items |->
                    LET e == p.items[i]
                    IN  IF e.kind = "col" THEN types[e.index]
                        ELSE IF Type(e) = "none" THEN "TEXT" ELSE Type(e)]
      [] OTHER -> OutputTypes(p.input)

RECURSIVE BuildFrom(_, _)
BuildFrom(from, on) ==
    IF from = << >> THEN ValuesNode
    ELSE IF Len(from) = 1 THEN ScanNode(from[1].table)
    ELSE JoinNode(BuildFrom(Front(from), Front(on)), ScanNode(Last(from).table), Last(on))

(* build_select: WHERE, aggregate, HAVING, select list, DISTINCT, ORDER    *)
(* BY, LIMIT, and a projection that drops the hidden columns.              *)
BuildSelect(b) ==
    LET Filtered(plan, opt) == IF opt = << >> THEN plan ELSE FilterNode(plan, opt[1])
        filtered   == Filtered(BuildFrom(b.from, b.on), b.where)
        aggregated == IF b.aggregate = << >> THEN filtered
                      ELSE Filtered(AggregateNode(filtered, b.aggregate[1]), b.having)
        projected  == ProjectionNode(aggregated, b.projection)
        Column(i)  == ColumnRef(1, i, << >>, OutputTypes(projected)[i])
        distinct   == IF b.distinct THEN DistinctNode(projected) ELSE projected
        sorted     == IF b.order = << >> THEN distinct
                      ELSE SortNode(distinct, [i \in DOMAIN b.order |->
                               [expr |-> Column(b.order[i].column), desc |-> b.order[i].desc]])
        limited    == IF b.limit \o b.offset = << >> THEN sorted
                      ELSE LimitNode(sorted, b.limit, b.offset)
    IN  IF b.visible = Len(b.projection) THEN limited
        ELSE ProjectionNode(limited, [i \in 1..b.visible |-> Column(i)])
=============================================================================
