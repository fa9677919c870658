-------------------------- MODULE TransactionStore --------------------------
(***************************************************************************)
(* What the disk backend of the database promises of its transactions,     *)
(* whatever the write-ahead log, the buffer pool and recovery do to keep   *)
(* the promise: a transaction's changes are there while it runs, for good  *)
(* once COMMIT has answered, and not at all after ROLLBACK or a crash.     *)
(*                                                                         *)
(* Every write makes an image of a row that was never there before, so a   *)
(* change is the set of images it added and the set it removed.            *)
(***************************************************************************)
EXTENDS Naturals

CONSTANTS Tx,     \* transactions
          Image   \* images of rows

VARIABLES
    up,        \* whether the database answers
    stable,    \* images of the committed state
    change,    \* what each running transaction added and removed
    contents   \* how often a scan returns each image

storeVars == <<up, stable, change, contents>>

NoChange == [added |-> {}, removed |-> {}]

Apply(images, c) == (images \cup c.added) \ c.removed

\* A scan returns the committed state with the running changes, each row once.
Visible(images, changes) ==
    LET added   == UNION {changes[t].added : t \in Tx}
        removed == UNION {changes[t].removed : t \in Tx}
        seen    == (images \cup added) \ removed
    IN  [i \in Image |-> IF i \in seen THEN 1 ELSE 0]

Down == [i \in Image |-> 0]

StoreInit ==
    /\ up = TRUE
    /\ stable \in SUBSET Image
    /\ change = [t \in Tx |-> NoChange]
    /\ contents = Visible(stable, change)

\* One image replaced by another: an INSERT removes none, a DELETE adds none.
Change(t, added, removed) ==
    /\ up
    /\ change' = [change EXCEPT ![t] = [added   |-> @.added \cup added,
                                        removed |-> @.removed \cup removed]]
    /\ contents' = Visible(stable, change')
    /\ UNCHANGED <<up, stable>>

CommitChange(t) ==
    /\ up
    /\ stable' = Apply(stable, change[t])
    /\ change' = [change EXCEPT ![t] = NoChange]
    /\ contents' = Visible(stable', change')
    /\ UNCHANGED up

RollbackChange(t) ==
    /\ up
    /\ change' = [change EXCEPT ![t] = NoChange]
    /\ contents' = Visible(stable, change')
    /\ UNCHANGED <<up, stable>>

StoreCrash ==
    /\ up' = FALSE
    /\ change' = [t \in Tx |-> NoChange]
    /\ contents' = Down
    /\ UNCHANGED stable

StoreRestart ==
    /\ ~ up
    /\ up' = TRUE
    /\ contents' = Visible(stable, change)
    /\ UNCHANGED <<stable, change>>

AtMostOne == {{}} \cup {{i} : i \in Image}

StoreNext ==
    \/ \E t \in Tx :
          \/ CommitChange(t) \/ RollbackChange(t)
          \/ \E added, removed \in AtMostOne : Change(t, added, removed)
    \/ StoreCrash
    \/ StoreRestart

StoreSpec == StoreInit /\ [][StoreNext]_storeVars
=============================================================================
