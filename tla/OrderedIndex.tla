----------------------------- MODULE OrderedIndex -----------------------------
(***************************************************************************)
(* What a B+Tree promises to threads that share it (btree.rs): a set of    *)
(* entries, each a key and a RecordId.  Inserting and deleting take effect *)
(* at one moment.  A scan does not: it yields, in the order of keys, every *)
(* entry that is there for the whole of the scan, and none of them a       *)
(* second time, save that the latest one may be repeated.                  *)
(***************************************************************************)
EXTENDS Naturals, Sequences

CONSTANTS
    Thread, Calls,  \* threads, and the calls that they may make
    Unique,         \* TRUE: keys are not repeated
    Idle            \* the call of a thread that has made none yet

VARIABLES
    index,   \* the entries
    call,    \* each thread's latest call
    answer,  \* "none", and "applied" after its effect, while it runs
    got,     \* what a thread's scan has yielded
    owed     \* what was there when its scan began, and still is

vars == <<index, call, answer, got, owed>>

Init ==
    /\ index = {}
    /\ call = [t \in Thread |-> Idle]
    /\ answer = [t \in Thread |-> "idle"]
    /\ got = [t \in Thread |-> <<>>]
    /\ owed = [t \in Thread |-> {}]

HasKey(key) == \E e \in index : e.key = key

Within(e, lower, upper) ==
    /\ CASE lower.kind = "unbounded" -> TRUE
         [] lower.kind = "included"  -> e.key >= lower.key
         [] lower.kind = "excluded"  -> e.key > lower.key
    /\ CASE upper.kind = "unbounded" -> TRUE
         [] upper.kind = "included"  -> e.key <= upper.key
         [] upper.kind = "excluded"  -> e.key < upper.key

Wanted(t) == {e \in index : Within(e, call'[t].lower, call'[t].upper)}

Call(t, c) ==
    /\ answer[t] \notin {"none", "applied"}
    /\ call' = [call EXCEPT ![t] = c]
    /\ answer' = [answer EXCEPT ![t] = "none"]
    /\ got' = [got EXCEPT ![t] = <<>>]
    /\ owed' = [owed EXCEPT ![t] = IF c.op = "scan" THEN Wanted(t) ELSE {}]
    /\ UNCHANGED index

Running(t, op) == call[t].op = op /\ answer[t] = "none"

Answers(t, value) == answer' = [answer EXCEPT ![t] = value]

Insert(t) ==
    /\ Running(t, "insert")
    /\ Unique => ~ HasKey(call[t].entry.key)
    /\ index' = index \cup {call[t].entry}
    /\ Answers(t, "applied") \/ Answers(t, "inserted")
    /\ UNCHANGED <<call, got, owed>>

Inserted(t) ==
    /\ answer[t] = "applied"
    /\ Answers(t, "inserted")
    /\ UNCHANGED <<index, call, got, owed>>

Refuse(t) ==
    /\ Running(t, "insert")
    /\ Unique /\ HasKey(call[t].entry.key)
    /\ Answers(t, "refused")
    /\ UNCHANGED <<index, call, got, owed>>

\* A key that two of would not fit into a page.
TooLarge(t) ==
    /\ Running(t, "insert")
    /\ Answers(t, "too large")
    /\ UNCHANGED <<index, call, got, owed>>

Delete(t) ==
    /\ Running(t, "delete")
    /\ IF call[t].entry \in index THEN Answers(t, "deleted") ELSE Answers(t, "absent")
    /\ index' = index \ {call[t].entry}
    /\ owed' = [u \in Thread |-> owed[u] \ {call[t].entry}]
    /\ UNCHANGED <<call, got>>

Yielded(t) == {got[t][i] : i \in DOMAIN got[t]}

Yield(t) ==
    /\ Running(t, "scan")
    /\ \E e \in index :
          /\ Within(e, call[t].lower, call[t].upper)
          /\ e \in owed[t] \cap Yielded(t) => e = got[t][Len(got[t])]
          /\ \A f \in Yielded(t) : f.key <= e.key
          /\ \A f \in owed[t] : f.key < e.key => f \in Yielded(t)
          /\ got' = [got EXCEPT ![t] = Append(@, e)]
    /\ UNCHANGED <<index, call, answer, owed>>

End(t) ==
    /\ Running(t, "scan")
    /\ owed[t] \subseteq Yielded(t)
    /\ Answers(t, "end")
    /\ UNCHANGED <<index, call, got, owed>>

Next ==
    \E t \in Thread :
        \/ \E c \in Calls : Call(t, c)
        \/ Insert(t) \/ Inserted(t) \/ Refuse(t) \/ TooLarge(t) \/ Delete(t)
        \/ Yield(t) \/ End(t)

Spec == Init /\ [][Next]_vars
=============================================================================
