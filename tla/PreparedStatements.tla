-------------------------- MODULE PreparedStatements --------------------------
(***************************************************************************)
(* Placeholders of a prepared SELECT: the types that binding inferred for  *)
(* them, collected by PREPARE, and the values that EXECUTE puts into the   *)
(* bound statement without binding it again (session.rs).                  *)
(*                                                                         *)
(* The types of $1, $2, ... are a sequence; "none" is a type that was not  *)
(* inferred.  A value is a literal.                                        *)
(***************************************************************************)
EXTENDS LogicalPlans

CONSTANT MaxParamIndex     \* MAX_PARAM_INDEX: the largest placeholder

ASSUME ParamIndexAssumption == MaxParamIndex \in Nat

(* collect_bound_expr                                                      *)
RECURSIVE ParamsIn(_)
ParamsIn(e) ==
    CASE e.kind = "param"         -> << e >>
      [] e.kind \in {"op", "agg"} -> FlattenSeq([i \in DOMAIN e.args |-> ParamsIn(e.args[i])])
      [] OTHER                    -> << >>

(* The expressions of a bound select, in the order of collect_select.      *)
BoundExprs(b) ==
    b.on \o b.projection \o b.where
         \o FlattenSeq([i \in DOMAIN b.aggregate |-> b.aggregate[i].group \o b.aggregate[i].calls])
         \o b.having

(* One more placeholder: the ones below it that were not met have no type, *)
(* and two uses must not need two types.                                   *)
RecordParam(types, param) ==
    LET known == [i \in 1..Max({Len(types), param.index}) |-> IF i \in DOMAIN types THEN types[i] ELSE "none"]
        first == known[param.index]
    IN  IF types = Error \/ param.index \notin 1..MaxParamIndex THEN Error
        ELSE IF first = "none" THEN [known EXCEPT ![param.index] = param.type]
        ELSE IF Fits(param.type, first) THEN known ELSE Error

CollectParamTypes(b) ==
    LET exprs == BoundExprs(b)
    IN  FoldLeft(RecordParam, << >>, FlattenSeq([i \in DOMAIN exprs |-> ParamsIn(exprs[i])]))

(* What execute_prepared checks of the values.  NULL has every type.       *)
ArgsFit(types, args) ==
    /\ Len(args) = Len(types)
    /\ \A i \in DOMAIN types : types[i] = "none" \/ Fits(Type(args[i]), types[i])

RECURSIVE Substitute(_, _)
Substitute(e, args) ==
    CASE e.kind = "param"         -> args[e.index]
      [] e.kind \in {"op", "agg"} -> [e EXCEPT !.args = [i \in DOMAIN @ |-> Substitute(@[i], args)]]
      [] OTHER                    -> e

(* substitute_select: types, names and places stay as they were bound.     *)
SubstituteSelect(b, args) ==
    LET Each(exprs) == [i \in DOMAIN exprs |-> Substitute(exprs[i], args)]
    IN  [b EXCEPT !.on = Each(@), !.projection = Each(@), !.where = Each(@), !.having = Each(@),
                  !.aggregate = [i \in DOMAIN @ |->
                      [@[i] EXCEPT !.group = Each(@), !.calls = Each(@)]]]
=============================================================================
