------------------------------- MODULE Queries --------------------------------
(***************************************************************************)
(* Statements of one session from their text to their answer, as Session   *)
(* and Database run them: parsed, bound and turned into a logical plan, or *)
(* prepared for later; rewritten by every rule in turn until a round       *)
(* changes nothing, planned, and executed against the rows the tables have *)
(* (session.rs execute, database.rs execute_select, rules.rs optimize).    *)
(*                                                                         *)
(* What the client means to say is chosen at the start, how it writes it   *)
(* when it sends it.  The rows stay what they are while a statement runs,  *)
(* because SharedDatabase runs one statement at a time; between statements *)
(* others may change them.  SELECT is run here, and prepared; statements   *)
(* of other kinds are only parsed.                                         *)
(***************************************************************************)
EXTENDS Executors, SelectSemantics, SqlText, PreparedStatements

CONSTANTS Scripts,         \* the statements of a session, a sequence of sequences
          Databases,       \* the contents, a sequence of [table -> rows]
          MaxIterations    \* MAX_ITERATIONS: rounds of rewriting

ASSUME IterationsAssumption == MaxIterations \in Nat \ {0}

VARIABLES script, at,     \* what the client means, and the statement it is at
          text,           \* what it sent
          statement,      \* what was parsed
          prepared,       \* name -> [bound, types]
          data,           \* the rows of the tables
          phase,          \* "send", "parse", "run", "rewrite", "plan", "execute", "done"
          plan,           \* logical, from "execute" on physical
          rule, round,    \* the next rule, and the rounds that are over
          changed,        \* whether a rule of this round changed the plan
          answer          \* rows or Error

vars == << script, at, text, statement, prepared, data, phase, plan, rule, round, changed, answer >>

client  == << script, at >>
rewriting == << plan, rule, round, changed >>

NoRows == << >>     \* the answer to a command that succeeds

Init == /\ script \in ToSet(Scripts)
        /\ at = 1
        /\ prepared = << >>
        /\ data \in ToSet(Databases)
        /\ text = << >>
        /\ statement = Error
        /\ phase = "send"
        /\ plan = Error
        /\ rule = 1
        /\ round = 0
        /\ changed = FALSE
        /\ answer = Error

-----------------------------------------------------------------------------

(* The client: a text, whole or with another statement behind it.          *)
Send ==
    /\ phase = "send"
    /\ text' \in {Brief(script[at]), Full(script[at]), Twice(script[at])}
    /\ phase' = "parse"
    /\ UNCHANGED << client, statement, prepared, data, rewriting, answer >>

(* The next statement, or the same again if it was not understood.         *)
NextStatement ==
    /\ phase = "done"
    /\ at' = IF statement = Error THEN at ELSE at + 1
    /\ at' \in DOMAIN script
    /\ data' \in ToSet(Databases)
    /\ phase' = "send"
    /\ statement' = Error
    /\ plan' = Error
    /\ rule' = 1
    /\ round' = 0
    /\ changed' = FALSE
    /\ answer' = Error
    /\ UNCHANGED << script, text, prepared >>

-----------------------------------------------------------------------------
(* Session::execute                                                        *)

Answer(rows) == phase' = "done" /\ answer' = rows /\ UNCHANGED rewriting

(* A bound select goes to the optimizer.                                   *)
Optimized(bound) ==
    /\ plan' = BuildSelect(bound)
    /\ phase' = "rewrite"
    /\ UNCHANGED << rule, round, changed, answer >>

Parse ==
    /\ phase = "parse"
    /\ statement' = Parsed(text)
    /\ text' = << >>
    /\ phase' = IF statement' = Error THEN "done" ELSE "run"
    /\ UNCHANGED << client, prepared, data, rewriting, answer >>

Started(bound) == IF bound = Error THEN Answer(Error) ELSE Optimized(bound)

Bind ==
    /\ phase = "run"
    /\ statement.kind = "SELECT"
    /\ Started(BindSelect(statement.select))
    /\ UNCHANGED << client, text, statement, prepared, data >>

(* execute_prepare: what is kept is the bound statement.                   *)
PreparedWith(bound, types) == IF types = Error THEN Error ELSE [bound |-> bound, types |-> types]

Prepared(bound) == IF bound = Error THEN Error ELSE PreparedWith(bound, CollectParamTypes(bound))

Store(name, entry) ==
    IF name \in DOMAIN prepared \/ entry = Error THEN Answer(Error) /\ UNCHANGED prepared
    ELSE Answer(NoRows) /\ prepared' = prepared @@ (name :> entry)

Prepare ==
    /\ phase = "run"
    /\ statement.kind = "PREPARE"
    /\ LET s == statement.statement
       IN  Store(statement.name, IF s.kind = "SELECT" THEN Prepared(BindSelect(s.select)) ELSE Error)
    /\ UNCHANGED << client, text, statement, data >>

(* execute_prepared_with_context                                           *)
ExecutePrepared ==
    /\ phase = "run"
    /\ statement.kind = "EXECUTE"
    /\ IF statement.name \notin DOMAIN prepared THEN Answer(Error)
       ELSE IF ~ ArgsFit(prepared[statement.name].types, statement.args) THEN Answer(Error)
       ELSE Optimized(SubstituteSelect(prepared[statement.name].bound, statement.args))
    /\ UNCHANGED << client, text, statement, prepared, data >>

Deallocate ==
    /\ phase = "run"
    /\ statement.kind = "DEALLOCATE"
    /\ Answer(IF statement.name \in DOMAIN prepared THEN NoRows ELSE Error)
    /\ prepared' = [n \in DOMAIN prepared \ {statement.name} |-> prepared[n]]
    /\ UNCHANGED << client, text, statement, data >>

(* Statements that other modules model: they may succeed and may fail.     *)
HandOver ==
    /\ phase = "run"
    /\ statement.kind \notin {"SELECT", "PREPARE", "EXECUTE", "DEALLOCATE"}
    /\ \E result \in {NoRows, Error} : Answer(result)
    /\ UNCHANGED << client, text, statement, prepared, data >>

-----------------------------------------------------------------------------
(* Database::execute_select                                                *)

(* rules::optimize: one rule, and the end of a round.                      *)
ApplyRule ==
    /\ phase = "rewrite"
    /\ rule \in DOMAIN RuleNames
    /\ plan' = Apply(RuleNames[rule], plan)
    /\ changed' = (changed \/ Changed(RuleNames[rule], plan, plan'))
    /\ rule' = rule + 1
    /\ UNCHANGED << client, text, statement, prepared, data, phase, round, answer >>

EndRound ==
    /\ phase = "rewrite"
    /\ rule \notin DOMAIN RuleNames
    /\ round' = round + 1
    /\ rule' = 1
    /\ changed' = FALSE
    /\ phase' = IF changed /\ round' < MaxIterations THEN "rewrite" ELSE "plan"
    /\ UNCHANGED << client, text, statement, prepared, data, plan, answer >>

(* physical_plan::optimize chooses one of the candidates, or panics.       *)
Candidates(p) == IF Panics(p) THEN {Error} ELSE Optimize(p)

ChoosePlan ==
    /\ phase = "plan"
    /\ \E p \in Candidates(plan) : plan' = p
    /\ phase' = "execute"
    /\ UNCHANGED << client, text, statement, prepared, data, rule, round, changed, answer >>

Execute ==
    /\ phase = "execute"
    /\ answer' = IF plan = Error THEN Error ELSE Collect(Run(plan, data))
    /\ phase' = "done"
    /\ UNCHANGED << client, text, statement, prepared, data, rewriting >>

Next == \/ Send \/ Parse \/ NextStatement
        \/ Bind \/ Prepare \/ ExecutePrepared \/ Deallocate \/ HandOver
        \/ ApplyRule \/ EndRound \/ ChoosePlan \/ Execute

Spec == Init /\ [][Next]_vars

-----------------------------------------------------------------------------
(* What was parsed is what was written: trees that are written the same    *)
(* way are the same but for parentheses, so no operator may have taken an  *)
(* operand from another, and no clause may be lost or come twice, however  *)
(* the statement is written.  A text that goes on after its statement is   *)
(* refused as a whole (parser.rs parse_expr, expect_end).                  *)
ParsedAsWritten ==
    [][phase = "parse" =>
          IF text = Twice(script[at]) THEN statement' = Error
          ELSE statement' # Error /\ Brief(statement') = Brief(script[at])]_vars

(* PREPARE makes sense if the statement does with some values written into *)
(* it that are not NULL and that nothing else in it is the same as; LIMIT  *)
(* and OFFSET take no placeholder.                                         *)
Accepted(s) == s # Error /\ ~ Rejected(s.select, BindClauses(s.select))

SensibleText(words, n) ==
    /\ n <= MaxParamIndex /\ ParamTok(0) \notin ToSet(words)
    /\ \E numbers \in SUBSET (1..n) :
          Accepted(WrittenOut(words, [i \in 1..n |->
                       IF i \in numbers THEN Int64(MaxInt - i) ELSE Truth(TRUE)]))

Sensible(s) ==
    /\ s.kind = "SELECT"
    /\ \A e \in ToSet(s.select.limit \o s.select.offset) : ParamsIn(e) = << >>
    /\ SensibleText(Brief(s), Placeholders(Brief(s)))

(* The statement of the script that a name stands for after the first k; 0 *)
(* if it stands for none.                                                  *)
RECURSIVE Named(_, _)
Named(name, k) ==
    IF k = 0 THEN 0
    ELSE LET s == script[k]
             before == Named(name, k - 1)
         IN  IF s.kind = "DEALLOCATE" /\ s.name = name THEN 0
             ELSE IF s.kind = "PREPARE" /\ s.name = name /\ before = 0 /\ Sensible(s.statement) THEN k
             ELSE before

(* What EXECUTE stands for when the k-th statement prepared the name.      *)
Executed(k, args) ==
    LET words == Brief(script[k].statement)
    IN  IF k = 0 THEN Error
        ELSE IF Len(args) # Placeholders(words) THEN Error ELSE WrittenOut(words, args)

Answers(s) == IF s = Error THEN answer = Error ELSE IsAnswer(answer, s.select, data)

AnswersTo(s, named) ==
    CASE s.kind \in {"SELECT", "EXECUTE"} ->
            Answers(IF s.kind = "SELECT" THEN s ELSE Executed(named[at - 1], s.args))
      [] s.kind = "PREPARE"    -> (answer = Error) <=> (named[at] # at)
      [] s.kind = "DEALLOCATE" -> (answer = Error) <=> (named[at - 1] = 0)
      [] OTHER                 -> TRUE

(* Every SELECT is answered with the rows SQL gives it, by whichever plan  *)
(* is chosen, and refused or failed if SQL refuses or fails it.  EXECUTE   *)
(* is answered as the prepared statement with the values written out would *)
(* be, although that was bound before the values were known, and rows have *)
(* changed since; PREPARE refuses what no values make right, and nothing   *)
(* else but a name that is taken (database.rs execute_select, session.rs;  *)
(* rules.rs:289 lets a simplified condition lose an error, which no        *)
(* statement of the instances has).                                        *)
AnswersRight ==
    (phase = "done" /\ statement # Error) => AnswersTo(script[at], [k \in 0..at |-> Named(script[at].name, k)])

(* Every rule keeps what a plan yields: the same rows in the same order,   *)
(* and no error where there was none, although conditions move to places   *)
(* where other rows pass them and columns are renumbered (rules.rs).  Nor  *)
(* do the types of the columns change, on the way to a physical plan, so   *)
(* that what was bound over a plan still fits it (output_schema).          *)
RewritesKeepRows ==
    [][/\ (phase = "rewrite" /\ Collect(Run(plan, data)) # Error)
             => Collect(Run(plan', data)) = Collect(Run(plan, data))
       /\ (phase \in {"rewrite", "plan"} /\ plan' # Error)
             => OutputTypes(plan') = OutputTypes(plan)]_vars

Hidden(p) == p.node = "Projection" /\ p.input.node = "Scan"

(* Rewriting ends because there is nothing left to rewrite, not because    *)
(* the limit on the rounds cuts two rules off that undo each other: no     *)
(* rule would change the plan that is planned (MAX_ITERATIONS in rules.rs).*)
(* And no rule has hidden a table from the planner, which looks for an     *)
(* index only where a filter, or a join on its right, stands directly on a *)
(* scan (ProjectionPruning in rules.rs, index_scan_target).                *)
RewritingSettles ==
    phase = "plan" =>
        /\ \A i \in DOMAIN RuleNames : ~ Changed(RuleNames[i], plan, Apply(RuleNames[i], plan))
        /\ \A p \in SubPlans(plan) :
              /\ p.node = "Filter" => ~ Hidden(p.input)
              /\ p.node = "Join" => ~ Hidden(p.right)
=============================================================================
