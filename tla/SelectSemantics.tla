--------------------------- MODULE SelectSemantics ---------------------------
(***************************************************************************)
(* What a SELECT means, stated over the sets of rows its FROM clause can   *)
(* pick and without any plan: the reference the planned and executed       *)
(* statement is compared with.  Only names and types are taken from the    *)
(* binder.                                                                 *)
(*                                                                         *)
(* A pick chooses one row of every table.  An entry of the result is a     *)
(* pick, a group of picks, or a row if the select is DISTINCT.             *)
(***************************************************************************)
EXTENDS LogicalPlans

Picks(from, k, data) ==
    LET Positions(j) == DOMAIN data[from[j].table]
    IN  {p \in [1..k -> UNION {Positions(j) : j \in 1..k}] : \A j \in 1..k : p[j] \in Positions(j)}

RowOf(p, from, data) == FlattenSeq([j \in DOMAIN p |-> data[from[j].table][p[j]]])

(* The rows of the picks that pass every ON condition and WHERE, or Error  *)
(* if a condition fails on a pick that passed the ones before it.          *)
OnFails(s, c, data) ==
    LET Value(k, p) == Eval(c.on[k], RowOf(p, s.from, data))
    IN  \E k \in DOMAIN c.on : \E p \in Picks(s.from, k + 1, data) :
            Value(k, p) = Error /\ \A j \in 1..(k - 1) : Matches(Value(j, p))

Joined(s, c, data) ==
    LET On(p) == \A k \in DOMAIN c.on : Matches(Eval(c.on[k], RowOf(p, s.from, data)))
        picks == {p \in Picks(s.from, Len(s.from), data) : On(p)}
    IN  [p \in picks |-> RowOf(p, s.from, data)]

Passing(joined, where) ==
    IF \E p \in DOMAIN joined : \E i \in DOMAIN where : Eval(where[i], joined[p]) = Error THEN Error
    ELSE Restrict(joined, {p \in DOMAIN joined : \A i \in DOMAIN where : Matches(Eval(where[i], joined[p]))})

Selected(s, c, data) == IF OnFails(s, c, data) THEN Error ELSE Passing(Joined(s, c, data), c.where)

-----------------------------------------------------------------------------
(* Groups.  A group is a function from its picks to their rows.            *)

(* An expression has one value per group.                                  *)
RECURSIVE OnePerGroup(_, _)
OnePerGroup(e, keys) ==
    \/ \E i \in DOMAIN keys : keys[i] = e
    \/ e.kind \in {"agg", "int", "bool", "null"}
    \/ e.kind = "op" /\ \A i \in DOMAIN e.args : OnePerGroup(e.args[i], keys)

AggregateOf(e, group) ==
    LET values == [p \in DOMAIN group |-> IF e.args = << >> THEN 0 ELSE Eval(e.args[1], group[p])]
        known  == {p \in DOMAIN group : values[p] # Null}
        Extreme(p) == \A q \in known :
            IF e.func = "MIN" THEN ~ Before(values[q], values[p]) ELSE ~ Before(values[p], values[q])
    IN  IF \E p \in DOMAIN group : values[p] = Error THEN Error
        ELSE IF e.func = "COUNT" THEN Cardinality(known)
        ELSE IF known = {} THEN Null
        ELSE IF e.func = "SUM" THEN Checked(SumFunctionOnSet(values, known))
        ELSE values[CHOOSE p \in known : Extreme(p)]

(* The value of e for a group.  A constant needs no row.                   *)
RECURSIVE ValueOf(_, _, _)
ValueOf(e, keys, group) ==
    IF \E i \in DOMAIN keys : keys[i] = e THEN Eval(e, group[CHOOSE p \in DOMAIN group : TRUE])
    ELSE IF e.kind = "agg" THEN AggregateOf(e, group)
    ELSE IF e.kind # "op" THEN Eval(e, << >>)
    ELSE LET v == [i \in DOMAIN e.args |-> ValueOf(e.args[i], keys, group)]
         IN  IF Failed(v) THEN Error ELSE EvalOp(e.op, v)

(* The selected picks by the values of the GROUP BY expressions.           *)
GroupsOf(selected, keys) ==
    LET Key(p) == [i \in DOMAIN keys |-> Eval(keys[i], selected[p])]
        picks  == DOMAIN selected
    IN  IF keys = << >> THEN {selected}
        ELSE {Restrict(selected, {q \in picks : Key(q) = Key(p)}) : p \in picks}

-----------------------------------------------------------------------------
(* The result: a function from entries to [row, key], where key holds the  *)
(* values of ORDER BY; or Error.                                           *)

Rejected(s, c) ==
    \/ c = Error
    \/ IsAggregate(c) /\ \E e \in ToSet(c.items \o c.having \o c.order) : ~ OnePerGroup(e, c.group)
    \/ s.distinct /\ ~ ToSet(c.order) \subseteq ToSet(c.items)
    \/ Failed([i \in DOMAIN s.limit |-> EvalRowCount(s.limit[i])])
    \/ Failed([i \in DOMAIN s.offset |-> EvalRowCount(s.offset[i])])

Grouped(c, selected) == IF IsAggregate(c) THEN GroupsOf(selected, c.group) ELSE DOMAIN selected

(* The values of expressions for a group or a pick.                        *)
ValuesFor(exprs, x, c, selected) ==
    [i \in DOMAIN exprs |-> IF IsAggregate(c) THEN ValueOf(exprs[i], c.group, x) ELSE Eval(exprs[i], selected[x])]

WithHaving(c, groups) ==
    {x \in DOMAIN groups : \A i \in DOMAIN c.having : Matches(groups[x].having[i])}

DistinctEntries(entries) ==
    LET Row(x) == entries[x].row
    IN  [r \in {Row(x) : x \in DOMAIN entries} |-> entries[CHOOSE x \in DOMAIN entries : Row(x) = r]]

KeptEntries(s, entries) ==
    IF \E x \in DOMAIN entries : Failed(entries[x].row \o entries[x].key) THEN Error
    ELSE IF s.distinct THEN DistinctEntries(entries) ELSE entries

EntriesOf(s, c, groups) ==
    IF \E x \in DOMAIN groups : Failed(groups[x].having) THEN Error
    ELSE KeptEntries(s, [x \in WithHaving(c, groups) |-> [row |-> groups[x].row, key |-> groups[x].key]])

EntriesSelected(s, c, selected) ==
    IF selected = Error THEN Error
    ELSE IF \E p \in DOMAIN selected : \E i \in DOMAIN c.group : Eval(c.group[i], selected[p]) = Error THEN Error
    ELSE EntriesOf(s, c, [x \in Grouped(c, selected) |->
                             [row |-> ValuesFor(c.items, x, c, selected), key |-> ValuesFor(c.order, x, c, selected),
                              having |-> ValuesFor(c.having, x, c, selected)]])

Entries(s, c, data) == EntriesSelected(s, c, Selected(s, c, data))

(* The answer is what LIMIT and OFFSET leave of the entries in some order  *)
(* that ORDER BY allows: wherever the keys of that order are the same, the *)
(* rows answered there are among the rows with that key.                   *)
Precedes(a, b, order) ==
    \E k \in DOMAIN order :
        /\ \A j \in 1..(k - 1) : a[j] = b[j]
        /\ IF order[k].desc THEN Before(b[k], a[k]) ELSE Before(a[k], b[k])

RowCount(opt, n) == IF opt = << >> THEN n ELSE Min({n, EvalRowCount(opt[1])})

Delivers(answer, entries, order, skip, take) ==
    LET keys    == {entries[x].key : x \in DOMAIN entries}
        rank    == [k \in keys |-> Cardinality({x \in DOMAIN entries : Precedes(entries[x].key, k, order)})]
        size    == [k \in keys |-> Cardinality({x \in DOMAIN entries : entries[x].key = k})]
        KeyAt(i) == CHOOSE k \in keys : rank[k] < i /\ i <= rank[k] + size[k]
        result  == [i \in 1..take |-> [row |-> answer[i], key |-> KeyAt(skip + i)]]
    IN  /\ Len(answer) = take
        /\ \A i \in 1..take : Cardinality({j \in 1..take : result[j] = result[i]})
                                  <= Cardinality({x \in DOMAIN entries : entries[x] = result[i]})

(* The right answers to a select.                                          *)
Presents(answer, entries, s) ==
    IF entries = Error THEN answer = Error
    ELSE LET n    == Cardinality(DOMAIN entries)
             skip == IF s.offset = << >> THEN 0 ELSE RowCount(s.offset, n)
         IN  answer # Error /\ Delivers(answer, entries, s.order, skip, RowCount(s.limit, n - skip))

AnswersClauses(answer, s, c, data) ==
    IF Rejected(s, c) THEN answer = Error ELSE Presents(answer, Entries(s, c, data), s)

IsAnswer(answer, s, data) == AnswersClauses(answer, s, BindClauses(s), data)
=============================================================================
