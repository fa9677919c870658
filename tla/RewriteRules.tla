---------------------------- MODULE RewriteRules ----------------------------
(***************************************************************************)
(* The rewriting rules of the optimizer (rules.rs), each as a function     *)
(* from logical plan to logical plan.                                      *)
(***************************************************************************)
EXTENDS LogicalPlans

RuleNames == << "ConstantFolding", "BooleanSimplification", "FilterMerge",
                "PredicatePushdown", "ProjectionPruning" >>

-----------------------------------------------------------------------------
(* map_plan_children, map_plan_exprs: one level of a plan                  *)

MapChildren(p, F(_)) ==
    IF p.node \in {"Scan", "Values"} THEN p
    ELSE IF p.node = "Join" THEN [p EXCEPT !.left = F(@), !.right = F(@)]
    ELSE [p EXCEPT !.input = F(@)]

MapExprs(p, F(_)) ==
    LET Each(s) == [i \in DOMAIN s |-> F(s[i])]
    IN  CASE p.node = "Filter"     -> [p EXCEPT !.pred = F(@)]
          [] p.node = "Join"       -> [p EXCEPT !.cond = F(@)]
          [] p.node = "Projection" -> [p EXCEPT !.items = Each(@)]
          [] p.node = "Sort"       -> [p EXCEPT !.keys = [i \in DOMAIN @ |-> [@[i] EXCEPT !.expr = F(@)]]]
          [] p.node = "Aggregate"  ->
                [p EXCEPT !.group = Each(@),
                          !.calls = [i \in DOMAIN @ |-> [@[i] EXCEPT !.args = Each(@)]]]
          [] OTHER -> p

-----------------------------------------------------------------------------
(* ConstantFolding: a subexpression without columns becomes its value,     *)
(* unless it fails or the value is a NULL that would lose its type.        *)

Literal(v, type) ==
    IF v = Null THEN NullLit ELSE IF type = "BOOLEAN" THEN Truth(v) ELSE Int64(v)

LosesType(e, v) == v = Null /\ Type(e) # "none"

RECURSIVE FoldExpr(_)
FoldExpr(e) ==
    IF e.kind # "op" THEN e
    ELSE LET folded == [e EXCEPT !.args = [i \in DOMAIN @ |-> FoldExpr(@[i])]]
             value  == Eval(folded, << >>)
         IN  IF ColumnRefs(folded) # {} \/ value = Error \/ LosesType(folded, value)
             THEN folded
             ELSE Literal(value, Type(folded))

-----------------------------------------------------------------------------
(* BooleanSimplification                                                   *)

IsLiteral(e, b) == LET s == StripParen(e) IN s.kind = "bool" /\ s.truth = b

SimplifyAnd(e) ==
    LET l == e.args[1]
        r == e.args[2]
    IN  IF IsLiteral(l, TRUE) THEN r
        ELSE IF IsLiteral(r, TRUE) THEN l
        ELSE IF IsLiteral(l, FALSE) THEN l
        ELSE IF IsLiteral(r, FALSE) THEN r ELSE e

SimplifyOr(e) ==
    LET l == e.args[1]
        r == e.args[2]
    IN  IF IsLiteral(l, TRUE) THEN l
        ELSE IF IsLiteral(r, TRUE) THEN r
        ELSE IF IsLiteral(l, FALSE) THEN r
        ELSE IF IsLiteral(r, FALSE) THEN l ELSE e

SimplifyNot(e) ==
    LET a == e.args[1]
    IN  IF IsLiteral(a, TRUE) \/ IsLiteral(a, FALSE) THEN Truth(IsLiteral(a, FALSE))
        ELSE IF a.kind = "op" /\ a.op = "NOT" THEN a.args[1] ELSE e

RECURSIVE SimplifyExpr(_)
SimplifyExpr(e) ==
    IF e.kind # "op" THEN e
    ELSE LET s == [e EXCEPT !.args = [i \in DOMAIN @ |-> SimplifyExpr(@[i])]]
         IN  CASE e.op = "AND" -> SimplifyAnd(s)
               [] e.op = "OR"  -> SimplifyOr(s)
               [] e.op = "NOT" -> SimplifyNot(s)
               [] OTHER        -> s

RECURSIVE FoldPlan(_)
FoldPlan(p) == MapExprs(MapChildren(p, FoldPlan), FoldExpr)

RECURSIVE SimplifyPlan(_)
SimplifyPlan(p) == MapExprs(MapChildren(p, SimplifyPlan), SimplifyExpr)

-----------------------------------------------------------------------------
(* FilterMerge: a chain of filters becomes one, innermost predicate first. *)

RECURSIVE ChainPredicates(_)
ChainPredicates(p) ==
    IF p.node = "Filter" THEN Append(ChainPredicates(p.input), p.pred) ELSE << >>

RECURSIVE ChainInput(_)
ChainInput(p) == IF p.node = "Filter" THEN ChainInput(p.input) ELSE p

RECURSIVE MergeFilters(_)
MergeFilters(p) ==
    IF p.node # "Filter" THEN MapChildren(p, MergeFilters)
    ELSE FilterNode(MergeFilters(ChainInput(p)), RebuildConjunction(ChainPredicates(p)))

-----------------------------------------------------------------------------
(* PredicatePushdown: the conjuncts of a filter over a join that are about *)
(* one side move below the join, into the left-hand joins as far as they   *)
(* go.                                                                     *)

Filtered(p, preds) == IF preds = << >> THEN p ELSE FilterNode(p, RebuildConjunction(preds))

IsFilteredJoin(p) == p.node = "Filter" /\ p.input.node = "Join"

ConjunctsOf(p, side) ==
    LET leftLen == Len(OutputTypes(p.input.left))
    IN  SelectSeq(CollectConjuncts(p.pred), LAMBDA c : ColumnsSide(c, leftLen) = side)

RECURSIVE PushdownPlan(_)
PushdownPlan(p) ==
    IF ~ IsFilteredJoin(p) THEN MapChildren(p, PushdownPlan)
    ELSE LET leftLen == Len(OutputTypes(p.input.left))
             right   == ConjunctsOf(p, "right")
             local   == [i \in DOMAIN right |-> ShiftColumnIndex(right[i], leftLen)]
         IN  Filtered([p.input EXCEPT
                          !.left  = PushdownPlan(Filtered(@, ConjunctsOf(p, "left"))),
                          !.right = PushdownPlan(Filtered(@, local))],
                      ConjunctsOf(p, "none"))

-----------------------------------------------------------------------------
(* ProjectionPruning: below an aggregate or a projection over joins, a     *)
(* scan passes on only the columns somebody above it uses.  The scan of a  *)
(* filter and the scan on the right of a join stay bare, because access    *)
(* paths are chosen there.                                                 *)

RECURSIVE IsFromWhereSubtree(_)
IsFromWhereSubtree(p) ==
    CASE p.node \in {"Scan", "Values"} -> TRUE
      [] p.node = "Filter" -> IsFromWhereSubtree(p.input)
      [] p.node = "Join"   -> IsFromWhereSubtree(p.left) /\ IsFromWhereSubtree(p.right)
      [] OTHER -> FALSE

IdentityMap(p) == [c \in DOMAIN OutputTypes(p) |-> c]

PruneScan(p, required) ==
    LET kept == SetToSortSeq(required, <)
        columns == Schema(p.table)
    IN  IF Cardinality(required) >= Len(columns) THEN [plan |-> p, map |-> IdentityMap(p)]
        ELSE [plan |-> ProjectionNode(p, [i \in DOMAIN kept |->
                           ColumnRef(1, kept[i], columns[kept[i]].name, columns[kept[i]].type)]),
              map |-> [c \in required |-> CHOOSE i \in DOMAIN kept : kept[i] = c]]

(* The pruned plan and where its columns went.                             *)
RECURSIVE PruneScope(_, _)
PruneScope(p, required) ==
    CASE p.node = "Scan"   -> PruneScan(p, required)
      [] p.node = "Values" -> [plan |-> p, map |-> IdentityMap(p)]
      [] p.node = "Filter" ->
            IF p.input.node = "Scan" THEN [plan |-> p, map |-> IdentityMap(p)]
            ELSE LET below == PruneScope(p.input, required \cup Columns(p.pred))
                 IN  [plan |-> FilterNode(below.plan, RemapExpr(p.pred, below.map)), map |-> below.map]
      [] p.node = "Join" ->
            LET leftLen == Len(OutputTypes(p.left))
                needed  == required \cup Columns(p.cond)
                left    == PruneScope(p.left, {c \in needed : c <= leftLen})
                right   == IF p.right.node = "Scan"
                           THEN [plan |-> p.right, map |-> IdentityMap(p.right)]
                           ELSE PruneScope(p.right, {c - leftLen : c \in {d \in needed : d > leftLen}})
                newLen  == Len(OutputTypes(left.plan))
                combined == [c \in DOMAIN left.map \cup {leftLen + d : d \in DOMAIN right.map} |->
                                IF c <= leftLen THEN left.map[c] ELSE newLen + right.map[c - leftLen]]
            IN  [plan |-> JoinNode(left.plan, right.plan, RemapExpr(p.cond, combined)),
                 map  |-> [c \in required |-> combined[c]]]

ColumnsOfNode(p) ==
    IF p.node = "Projection" THEN UNION {Columns(p.items[i]) : i \in DOMAIN p.items}
    ELSE UNION {Columns(p.group[i]) : i \in DOMAIN p.group}
            \cup UNION {Columns(p.calls[i]) : i \in DOMAIN p.calls}

RECURSIVE PrunePlan(_)
PrunePlan(p) ==
    IF /\ p.node \in {"Aggregate", "Projection"}
       /\ IsFromWhereSubtree(p.input)
       /\ p.input.node \notin {"Scan", "Values"}
    THEN LET pruned == PruneScope(p.input, ColumnsOfNode(p))
         IN  MapExprs([p EXCEPT !.input = pruned.plan], LAMBDA e : RemapExpr(e, pruned.map))
    ELSE MapChildren(p, PrunePlan)

-----------------------------------------------------------------------------
(* Rule::apply, and the change it reports: a pushdown that only takes a    *)
(* conjunction apart and puts it together again reports none.              *)

Apply(rule, p) ==
    CASE rule = "ConstantFolding"       -> FoldPlan(p)
      [] rule = "BooleanSimplification" -> SimplifyPlan(p)
      [] rule = "FilterMerge"           -> MergeFilters(p)
      [] rule = "PredicatePushdown"     -> PushdownPlan(p)
      [] rule = "ProjectionPruning"     -> PrunePlan(p)

RECURSIVE SubPlans(_)
SubPlans(p) ==
    {p} \cup (IF p.node \in {"Scan", "Values"} THEN {}
              ELSE IF p.node = "Join" THEN SubPlans(p.left) \cup SubPlans(p.right)
              ELSE SubPlans(p.input))

\* Fault: a filter above a join counts as a change although nothing moves.
MeetsJoin(p) == \E q \in SubPlans(p) : IsFilteredJoin(q)

Pushes(p) ==
    \E q \in SubPlans(p) : IsFilteredJoin(q) /\ ConjunctsOf(q, "left") \o ConjunctsOf(q, "right") # << >>

Changed(rule, before, after) ==
    IF rule = "PredicatePushdown" THEN Pushes(before) ELSE after # before
=============================================================================
