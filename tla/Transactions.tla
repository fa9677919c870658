---------------------------- MODULE Transactions ----------------------------
(***************************************************************************)
(* Transactions over one shared database: Database and SharedDatabase of   *)
(* src/src/database.rs, on top of the lock manager.                        *)
(*                                                                         *)
(* Every call runs under the mutex of SharedDatabase.  A statement         *)
(* computes the keys it must lock, acquires them one by one, and reads or  *)
(* writes once it has them all.  A refused request looks for a cycle of    *)
(* the wait-for graph: a victim is undone and aborted there and then, or   *)
(* the statement answers WouldBlock and its thread sleeps until another    *)
(* call notifies it and it tries the same statement again.                 *)
(*                                                                         *)
(* A row is its primary key and the transaction that wrote it; a table is  *)
(* a sequence of slots.  The unique index is taken to hold the rows of the *)
(* heap, rows have one size (an UPDATE stays in place).                    *)
(***************************************************************************)
EXTENDS Naturals, FiniteSets, SequencesExt

CONSTANTS
    Backend,      \* "Memory" locks tables, "Disk" locks rows
    NTxn,         \* transactions begun in a behaviour
    Table,        \* table numbers
    Id,           \* primary keys
    NSlots,       \* slots of a table
    Seeded,       \* rows 1..Seeded are there, committed, at the start
    Work,         \* what clients do: <<isolation level, statement>> pairs
    MaxStmts,     \* statements per transaction
    Failures,     \* TRUE: a statement may fail before it writes
    Blocking,     \* TRUE: clients use SharedDatabase; FALSE: Database itself
    CommitAborted \* TRUE: a client may COMMIT an aborted transaction

ASSUME BackendAssumption == Backend \in {"Memory", "Disk"}
ASSUME BoundsAssumption ==
    /\ {NTxn, MaxStmts, NSlots} \subseteq Nat \ {0}
    /\ Seeded \in 0..NSlots
    /\ 1..Seeded \subseteq Id /\ Id \subseteq Nat \ {0} /\ IsFiniteSet(Id)
    /\ Table \subseteq Nat
ASSUME FlagsAssumption == {Failures, Blocking, CommitAborted} \subseteq BOOLEAN

VARIABLES
    entries,   \* the lock manager's table
    pending,   \* its pending_shared_grants
    heap,      \* [Table -> [slot -> row]]
    tx,        \* the TransactionContexts
    call,      \* the statement each client waits for
    asleep,    \* threads in Condvar::wait
    run,       \* the attempt that holds the Database mutex
    issued,    \* statements issued so far (a bound)
    seen,      \* history: what each transaction's SELECTs returned
    committed  \* history: what the committed transactions wrote

locks   == <<entries, pending>>
vars    == <<entries, pending, heap, tx, call, asleep, run, issued, seen, committed>>

Txn   == 1..NTxn
Slot  == 1..NSlots
Level == {"ReadUncommitted", "ReadCommitted", "RepeatableRead", "Serializable"}

Row    == [id : Id, by : 0..NTxn]     \* by = 0: there from the start
NoRow  == [id |-> 0, by |-> 0]
Stmt   == [op : {"select", "insert", "update", "delete"}, table : Table, ids : SUBSET Id]
NoStmt == [op |-> "none"]

ASSUME WorkAssumption == Work \subseteq Level \X Stmt

NoRun  == [txn |-> 0, keys |-> <<>>, victim |-> 0, again |-> FALSE]

\* LockKey::Table and LockKey::Tuple.
TableKey(tab)   == <<tab, 0>>
RowKey(tab, s)  == <<tab, s>>
Key == Table \X (0..NSlots)

LM == INSTANCE LockManager

------------------------------------------------------------------------------
(* Which keys a statement locks, in the order it asks for them.            *)

Occupied(h, tab)  == {s \in Slot : h[tab][s] # NoRow}
Matching(h, stmt) == {s \in Occupied(h, stmt.table) : h[stmt.table][s].id \in stmt.ids}

\* The elements of a set of numbers in ascending order.
Rank(S, x) == Cardinality({y \in S : y <= x})
Nth(S, i)  == CHOOSE x \in S : Rank(S, x) = i

RowKeys(tab, slots) == [i \in 1..Cardinality(slots) |-> RowKey(tab, Nth(slots, i))]

\* Faults: a SELECT that locks nothing; one that locks the rows it finds only.
ReadNothing(level, stmt) == <<>>

ReadRowsOnly(level, stmt) == RowKeys(stmt.table, Occupied(heap, stmt.table))

ReadKeys(level, stmt) ==
    IF level = "ReadUncommitted" THEN <<>>
    ELSE IF Backend = "Memory"   THEN <<TableKey(stmt.table)>>
    ELSE RowKeys(stmt.table, Occupied(heap, stmt.table))
         \o (IF level = "Serializable" THEN <<TableKey(stmt.table)>> ELSE <<>>)

InsertKeys(level, stmt) ==
    IF Backend = "Memory" \/ level = "Serializable" THEN <<TableKey(stmt.table)>> ELSE <<>>

WriteKeys(stmt) ==
    IF Backend = "Memory" THEN <<TableKey(stmt.table)>>
                          ELSE RowKeys(stmt.table, Matching(heap, stmt))

KeysOf(t, stmt) ==
    CASE stmt.op = "select" -> ReadKeys(tx[t].level, stmt)
      [] stmt.op = "insert" -> InsertKeys(tx[t].level, stmt)
      [] stmt.op \in {"update", "delete"} -> WriteKeys(stmt)

ModeOf(stmt) == IF stmt.op = "select" THEN LM!Shared ELSE LM!Exclusive

------------------------------------------------------------------------------
(* What a statement does to the heap, and the records that undo it.        *)

FirstFree(h, tab) == Min(Slot \ Occupied(h, tab))

\* The rows of an INSERT go to the first free slots, in the order of their
\* keys; UPDATE and DELETE choose theirs by a second scan, not by the keys
\* that were locked.
Free(tab) == Slot \ Occupied(heap, tab)

Targets(stmt) ==
    IF stmt.op = "insert"
    THEN {s \in Free(stmt.table) : Rank(Free(stmt.table), s) <= Cardinality(stmt.ids)}
    ELSE Matching(heap, stmt)

NewRow(t, stmt, s) ==
    CASE stmt.op = "insert" -> [id |-> Nth(stmt.ids, Rank(Free(stmt.table), s)), by |-> t]
      [] stmt.op = "update" -> [heap[stmt.table][s] EXCEPT !.by = t]
      [] stmt.op = "delete" -> NoRow

UndoRecord(t, stmt, s) ==
    [op |-> stmt.op, table |-> stmt.table, slot |-> s,
     before |-> heap[stmt.table][s], after |-> NewRow(t, stmt, s)]

Written(t, stmt) ==
    LET slots == Targets(stmt)
    IN  [heap |-> [heap EXCEPT ![stmt.table] =
                      [s \in Slot |-> IF s \in slots THEN NewRow(t, stmt, s) ELSE @[s]]],
         undo |-> tx[t].undo \o [i \in 1..Cardinality(slots) |->
                                    UndoRecord(t, stmt, Nth(slots, i))]]

\* NSlots bounds the table, which grows by pages in the code.
HasRoom(stmt) == stmt.op = "insert" => Cardinality(stmt.ids) <= Cardinality(Free(stmt.table))

ViolatesUnique(stmt) == stmt.op = "insert" /\ Matching(heap, stmt) # {}

------------------------------------------------------------------------------
(* Undo: the records in reverse order.                                     *)

\* In memory a row is found by its values.  The order of the rows is left out:
\* a deleted row comes back to its place, or to a free one if that is taken.
UndoneInMemory(acc, rec) ==
    LET tab   == rec.table
        found == {u \in Slot : acc.heap[tab][u] = rec.after}
        place == IF acc.heap[tab][rec.slot] = NoRow THEN rec.slot ELSE FirstFree(acc.heap, tab)
    IN  CASE rec.op = "delete" -> [acc EXCEPT !.heap[tab][place] = rec.before]
          [] rec.op # "delete" /\ found # {} -> [acc EXCEPT !.heap[tab][Min(found)] = rec.before]
          [] rec.op # "delete" /\ found = {} -> acc

\* On disk it is found by its place.  A deleted row comes back in the first free
\* slot, and remap sends later records after it; the unique index refuses a
\* second row with its key, and the undo stops there.
\* Resolve follows the moves of one row; a chain of them has at most NSlots links
\* unless it is cyclic, the subject of module WalRecovery.
Resolve(moved, s) ==
    IF moved[s] = s THEN s ELSE FoldLeft(LAMBDA u, i : moved[u], s, [i \in Slot |-> i])

UndoneOnDisk(acc, rec) ==
    LET tab == rec.table
        s   == Resolve(acc.remap[tab], rec.slot)
        f   == FirstFree(acc.heap, tab)
    IN  CASE rec.op = "insert" ->
                [acc EXCEPT !.heap[tab][s] = NoRow]
          [] rec.op = "update" ->
                IF acc.heap[tab][s] = NoRow THEN acc
                ELSE [acc EXCEPT !.heap[tab][s] = rec.before]
          [] rec.op = "delete" ->
                [heap  |-> [acc.heap EXCEPT ![tab][f] = rec.before],
                 remap |-> [acc.remap EXCEPT ![tab][rec.slot] = f],
                 ok    |-> \A u \in Slot : acc.heap[tab][u].id # rec.before.id]

Undone(acc, rec) ==
    CASE acc.ok /\ Backend = "Memory" -> UndoneInMemory(acc, rec)
      [] acc.ok /\ Backend = "Disk"   -> UndoneOnDisk(acc, rec)
      [] ~ acc.ok                     -> acc

Undo(h, undo) ==
    LET n     == Len(undo)
        start == [heap |-> h, remap |-> [tab \in Table |-> [s \in Slot |-> s]], ok |-> TRUE]
        after[i \in 0..n] ==
            IF i = 0 THEN start ELSE Undone(after[i - 1], undo[n + 1 - i])
    IN  after[n]

------------------------------------------------------------------------------
(* Deadlock detection.  The depth-first search visits the neighbours of a  *)
(* transaction in the order of their ids and follows simple paths only,    *)
(* so it returns the lexicographically least cycle through its start.      *)

Cycles(t) ==
    LET edge == LM!WaitForEdges(entries')
        path == UNION {[1..n -> Txn] : n \in 2..NTxn}
    IN  {p \in path : /\ p[1] = t
                      /\ \A i, j \in DOMAIN p : p[i] = p[j] => i = j
                      /\ \A i \in 1..(Len(p) - 1) : <<p[i], p[i + 1]>> \in edge
                      /\ <<p[Len(p)], t>> \in edge}

\* The start closes every cycle, so no cycle is a prefix of another.
Before(p, q) ==
    LET step(c, i) == IF i = Len(c) + 1 THEN c[1] ELSE c[i]
    IN  \E i \in 1..(NTxn + 1) :
            /\ i <= Len(p) + 1 /\ i <= Len(q) + 1
            /\ step(p, i) < step(q, i)
            /\ \A j \in 1..(i - 1) : step(p, j) = step(q, j)

CyclesFound(t) == {p \in Cycles(t) : \A q \in Cycles(t) : p = q \/ Before(p, q)}

\* The youngest transaction of the cycle.
Victims(t) ==
    {v \in Txn : \E p \in CyclesFound(t) : v \in Range(p) /\ \A u \in Range(p) : u <= v}

------------------------------------------------------------------------------
(* Calls.  At most one of them holds the mutex.                            *)

Idle == run = NoRun

InCall(t) == call[t] # NoStmt

Ended == {"Committed", "RolledBack", "Lost", "Broken"}

Init ==
    /\ LM!Init
    /\ heap = [tab \in Table |-> [s \in Slot |->
                   IF s <= Seeded THEN [id |-> s, by |-> 0] ELSE NoRow]]
    /\ tx = [t \in Txn |-> [state |-> "Unborn", level |-> "RepeatableRead", undo |-> <<>>]]
    /\ call = [t \in Txn |-> NoStmt]
    /\ asleep = {}
    /\ run = NoRun
    /\ issued = [t \in Txn |-> 0]
    /\ seen = [t \in Txn |-> {}]
    /\ committed = [tab \in Table |-> {[id |-> i, by |-> 0] : i \in 1..Seeded}]

\* begin_tx_with_isolation: ids are handed out in increasing order.
Begin(t, level) ==
    /\ Idle
    /\ tx[t].state = "Unborn"
    /\ \E w \in Work : w[1] = level
    /\ \A u \in Txn : u < t => tx[u].state # "Unborn"
    /\ tx' = [tx EXCEPT ![t].state = "Active", ![t].level = level]
    /\ UNCHANGED <<locks, heap, call, asleep, run, issued, seen, committed>>

\* run_in_tx up to the locks: the keys are those of the rows there are now.
StartAttempt(t, stmt) ==
    run' = [txn |-> t, keys |-> KeysOf(t, stmt), victim |-> 0, again |-> FALSE]

\* A client calls execute_in_tx, and the call gets the mutex.
Issue(t, stmt) ==
    /\ Idle
    /\ tx[t].state = "Active"
    /\ ~ InCall(t)
    /\ <<tx[t].level, stmt>> \in Work
    /\ issued[t] < MaxStmts
    /\ issued' = [issued EXCEPT ![t] = @ + 1]
    /\ call' = [call EXCEPT ![t] = stmt]
    /\ StartAttempt(t, stmt)
    /\ UNCHANGED <<locks, heap, tx, asleep, seen, committed>>

\* What ends an attempt: the call returns and every sleeper is notified.
Return(t) ==
    /\ run' = NoRun
    /\ call' = [call EXCEPT ![t] = NoStmt]
    /\ asleep' = {}

\* WouldBlock: SharedDatabase notifies the others and puts the thread to
\* sleep, Database hands the answer to its caller.
WouldBlock(t) ==
    IF Blocking THEN run' = NoRun /\ asleep' = {t} /\ UNCHANGED call
                ELSE Return(t)

\* A notified thread has the mutex again and tries its statement once more,
\* unless its transaction was aborted while it slept.
Retry(t) ==
    /\ Idle
    /\ InCall(t)
    /\ t \notin asleep
    /\ IF tx[t].state = "Aborted" THEN Return(t)
                                  ELSE StartAttempt(t, call[t]) /\ UNCHANGED <<call, asleep>>
    /\ UNCHANGED <<locks, heap, tx, issued, seen, committed>>

\* acquire_lock_or_detect_deadlock on the next key.
Granted(t) == LM!GrantedAtOnce(entries[Head(run.keys)], t, ModeOf(call[t]))

AcquireNext(t) ==
    /\ run.txn = t /\ run.victim = 0 /\ run.keys # <<>>
    /\ LM!Acquire(t, Head(run.keys), ModeOf(call[t]))
    /\ UNCHANGED <<heap, tx, issued, seen, committed>>

LockGranted(t) ==
    /\ AcquireNext(t)
    /\ Granted(t)
    /\ run' = [run EXCEPT !.keys = Tail(@), !.again = FALSE]
    /\ UNCHANGED <<call, asleep>>

\* No cycle, or a second refusal after one was broken.
LockRefused(t) ==
    /\ AcquireNext(t)
    /\ ~ Granted(t)
    /\ run.again \/ Cycles(t) = {}
    /\ WouldBlock(t)

DeadlockFound(t) ==
    /\ AcquireNext(t)
    /\ ~ Granted(t)
    /\ ~ run.again /\ Cycles(t) # {}
    /\ \E v \in Victims(t) : run' = [run EXCEPT !.victim = v]
    /\ UNCHANGED <<call, asleep>>

\* Fault: the victim keeps its undo records as well.
AbortedWithUndo(c) == [c EXCEPT !.state = "Aborted"]

\* abort_transaction: the victim keeps its context, without its undo records.
AbortedContext(c) == [c EXCEPT !.state = "Aborted", !.undo = <<>>]

\* Fault: the locks are dropped and nobody who waits is promoted.
DropLocks(t) ==
    /\ entries' = [k \in Key |-> [holders |-> LM!DropHolder(entries[k].holders, t),
                                  waiters |-> LM!DropWaiter(entries[k].waiters, t)]]
    /\ pending' = [pending EXCEPT ![t] = {}]

ReleaseLocks(t) == LM!ReleaseAll(t)

AbortVictim(t) ==
    LET v == run.victim
        u == Undo(heap, tx[v].undo)
    IN  /\ run.txn = t /\ v # 0 /\ u.ok
        /\ heap' = u.heap
        /\ tx' = [tx EXCEPT ![v] = AbortedContext(@)]
        /\ ReleaseLocks(v)
        /\ IF v = t THEN Return(t)
                    ELSE /\ run' = [run EXCEPT !.victim = 0, !.again = TRUE]
                         /\ UNCHANGED <<call, asleep>>
        /\ UNCHANGED <<issued, seen, committed>>

\* The undo of the victim fails: its locks stay, and the statement that found
\* the deadlock answers with the error, which aborts its own transaction.
AbortVictimFails(t) ==
    LET v == run.victim
        u == Undo(heap, tx[v].undo)
    IN  /\ run.txn = t /\ v # 0 /\ ~ u.ok
        /\ heap' = u.heap
        /\ tx' = [tx EXCEPT ![v].undo = <<>>, ![t].state = "Aborted"]
        /\ Return(t)
        /\ UNCHANGED <<locks, issued, seen, committed>>

------------------------------------------------------------------------------
(* The statement itself, once it has its locks.                            *)

HasLocks(t) == run.txn = t /\ run.victim = 0 /\ run.keys = <<>>

\* Fault: every level releases its read locks.
ReleasesAlways(t) == TRUE

ReleasesReads(t) == tx[t].level = "ReadCommitted"

\* Faults: READ COMMITTED keeps its read locks; it drops its write locks too.
KeepReadLocks(t) == UNCHANGED locks

ReleaseWriteLocks(t) == IF ReleasesReads(t) THEN LM!ReleaseAll(t) ELSE UNCHANGED locks

EndOfScanLocks(t) == IF ReleasesReads(t) THEN LM!ReleasePendingReads(t) ELSE UNCHANGED locks

Select(t) ==
    LET stmt == call[t]
        rows == {heap[stmt.table][s] : s \in Matching(heap, stmt)}
    IN  /\ HasLocks(t) /\ stmt.op = "select"
        /\ EndOfScanLocks(t)
        /\ seen' = [seen EXCEPT ![t] =
               (IF ReleasesReads(t) THEN {} ELSE @)
               \cup {[table |-> stmt.table, ids |-> stmt.ids, rows |-> rows]}]
        /\ Return(t)
        /\ UNCHANGED <<heap, tx, issued, committed>>

Write(t) ==
    LET w == Written(t, call[t])
    IN  /\ HasLocks(t) /\ call[t].op # "select"
        /\ ~ ViolatesUnique(call[t]) /\ HasRoom(call[t])
        /\ heap' = w.heap
        /\ tx' = [tx EXCEPT ![t].undo = w.undo]
        /\ Return(t)
        /\ UNCHANGED <<locks, issued, seen, committed>>

\* finish: a statement that fails aborts its transaction, which keeps its
\* locks and its undo records until it is rolled back.
StatementFails(t) ==
    /\ HasLocks(t)
    /\ Failures \/ ViolatesUnique(call[t])
    /\ IF call[t].op = "select" THEN EndOfScanLocks(t) ELSE UNCHANGED locks
    /\ tx' = [tx EXCEPT ![t].state = "Aborted"]
    /\ Return(t)
    /\ UNCHANGED <<heap, issued, seen, committed>>

------------------------------------------------------------------------------
(* The end of a transaction.                                               *)

\* The keys of the row that a record is about.
IdsOf(rec) == {rec.before.id, rec.after.id} \ {0}

\* The rows of a table once t's changes are part of the committed state: what
\* its last record left of each row it changed, and the rows it did not.
WithChanges(rows, tab, undo) ==
    LET mine == {i \in 1..Len(undo) : undo[i].table = tab}
        last == {i \in mine : \A j \in mine : j > i => IdsOf(undo[i]) \cap IdsOf(undo[j]) = {}}
    IN  {r \in rows : \A i \in mine : r.id \notin IdsOf(undo[i])}
        \cup ({undo[i].after : i \in last} \ {NoRow})

\* Fault: COMMIT and ROLLBACK do not notify the sleeping threads.
EndTxSilently(t, state) ==
    /\ tx' = [tx EXCEPT ![t] = [state |-> state, level |-> "RepeatableRead", undo |-> <<>>]]
    /\ seen' = [seen EXCEPT ![t] = {}]
    /\ issued' = [issued EXCEPT ![t] = 0]
    /\ UNCHANGED asleep

\* What is left of an ended transaction is how it ended: the rest of its
\* state is reset, which only merges states.
EndTx(t, state) ==
    /\ tx' = [tx EXCEPT ![t] = [state |-> state, level |-> "RepeatableRead", undo |-> <<>>]]
    /\ seen' = [seen EXCEPT ![t] = {}]
    /\ issued' = [issued EXCEPT ![t] = 0]
    /\ asleep' = {}

Commit(t) ==
    /\ Idle /\ ~ InCall(t)
    /\ tx[t].state = "Active"
    /\ committed' = [tab \in Table |-> WithChanges(committed[tab], tab, tx[t].undo)]
    /\ EndTx(t, "Committed")
    /\ ReleaseLocks(t)
    /\ UNCHANGED <<heap, call, run>>

\* commit_tx refuses an aborted transaction and puts its context back, but
\* the TxHandle it was given by value is gone.
CommitRefused(t) ==
    /\ CommitAborted
    /\ Idle /\ ~ InCall(t)
    /\ tx[t].state = "Aborted"
    /\ tx' = [tx EXCEPT ![t].state = "Lost"]
    /\ asleep' = {}
    /\ UNCHANGED <<locks, heap, call, run, issued, seen, committed>>

Rollback(t) ==
    LET u == Undo(heap, tx[t].undo)
    IN  /\ Idle /\ ~ InCall(t)
        /\ tx[t].state \in {"Active", "Aborted"}
        /\ heap' = u.heap
        /\ IF u.ok THEN EndTx(t, "RolledBack") /\ ReleaseLocks(t)
                   ELSE EndTx(t, "Broken") /\ UNCHANGED locks
        /\ UNCHANGED <<call, run, committed>>

AllEnded == \A t \in Txn : tx[t].state \in Ended

Finished == AllEnded /\ UNCHANGED vars

Step(t) ==
    \/ LockGranted(t) \/ LockRefused(t) \/ DeadlockFound(t)
    \/ AbortVictim(t) \/ AbortVictimFails(t)
    \/ Select(t) \/ Write(t) \/ StatementFails(t)

Next ==
    \/ \E t \in Txn :
          \/ \E level \in Level : Begin(t, level)
          \/ \E w \in Work : Issue(t, w[2])
          \/ Retry(t) \/ Step(t)
          \/ Commit(t) \/ CommitRefused(t) \/ Rollback(t)
    \/ Finished

Spec == Init /\ [][Next]_vars

\* Fairness.  The thread that has the mutex goes on; a notified thread gets
\* the mutex if it is free again and again; a client that is answered ends
\* its transaction some day.
Fairness ==
    \A t \in Txn : /\ WF_vars(Step(t))
                   /\ SF_vars(Retry(t))
                   /\ SF_vars(Commit(t) \/ Rollback(t))

FairSpec == Spec /\ Fairness

------------------------------------------------------------------------------
(* Properties.                                                             *)

\* Every variable has its type; a sleeping thread waits for a statement.
TypeOK ==
    /\ LM!TypeOK
    /\ heap \in [Table -> [Slot -> Row \cup {NoRow}]]
    /\ \A t \in Txn : /\ tx[t].state \in {"Unborn", "Active", "Aborted"} \cup Ended
                      /\ tx[t].level \in Level
                      /\ InCall(t) => call[t] \in Stmt
    /\ asleep \subseteq {t \in Txn : InCall(t)}
    /\ run = NoRun \/ (run.txn \in Txn /\ InCall(run.txn))
    /\ issued \in [Txn -> 0..MaxStmts]

\* The calls of the database use the lock manager as it expects to be used:
\* in particular release_keys is only ever asked to release read locks.
LockProtocol == LM!Spec

Live(t) == tx[t].state \in {"Active", "Aborted"}

HoldsExclusive(t, tab, s) ==
    \E k \in {TableKey(tab), RowKey(tab, s)} : entries[k].holders[t] = LM!Exclusive

\* Strict two-phase locking: a row changed by a live transaction stays under
\* its exclusive lock until that transaction has ended or has been undone.
WritesLocked ==
    \A t \in Txn : Live(t) =>
        \A i \in 1..Len(tx[t].undo) :
            HoldsExclusive(t, tx[t].undo[i].table, tx[t].undo[i].slot)

ReadsClean(t, r) == r.by \in {0, t} \/ tx[r.by].state = "Committed"

\* From READ COMMITTED up, a SELECT returns only rows of committed
\* transactions and of its own.
NoDirtyReads ==
    [][\A t \in Txn : tx[t].level # "ReadUncommitted" =>
          \A rd \in seen'[t] \ seen[t] : \A r \in rd.rows : ReadsClean(t, r)]_vars

WroteItself(t, tab, id) ==
    \E i \in 1..Len(tx[t].undo) :
        /\ tx[t].undo[i].table = tab
        /\ id \in {tx[t].undo[i].before.id, tx[t].undo[i].after.id}

Keeps(t, levels) == tx[t].state = "Active" /\ tx[t].level \in levels

\* From REPEATABLE READ up, what a transaction has read stays there, unless
\* it changed it itself: reading again would return it again.
RepeatableReads ==
    \A t \in Txn : Keeps(t, {"RepeatableRead", "Serializable"}) =>
        \A rd \in seen[t] : \A r \in rd.rows :
            \/ \E s \in Slot : heap[rd.table][s] = r
            \/ WroteItself(t, rd.table, r.id)

PhantomFreeLevels ==
    IF Backend = "Memory" THEN {"RepeatableRead", "Serializable"} ELSE {"Serializable"}

\* No phantoms under SERIALIZABLE, nor under REPEATABLE READ when whole
\* tables are locked: reading again would not return another row.
NoPhantoms ==
    \A t \in Txn : Keeps(t, PhantomFreeLevels) =>
        \A rd \in seen[t] : \A s \in Matching(heap, rd) :
            \/ heap[rd.table][s] \in rd.rows
            \/ WroteItself(t, rd.table, heap[rd.table][s].id)

\* Whenever no transaction has changes to undo, the heap holds exactly the
\* rows that the committed transactions left, each once: no update is lost,
\* no rolled-back or aborted change survives, nothing is undone twice.
AtRest ==
    (\A t \in Txn : tx[t].undo = <<>>) =>
        \A tab \in Table :
            /\ {heap[tab][s] : s \in Occupied(heap, tab)} = committed[tab]
            /\ Cardinality(Occupied(heap, tab)) = Cardinality(committed[tab])

\* READ COMMITTED keeps no read lock past the statement that took it, even
\* one that was granted while the statement slept.
ReadLocksReleased ==
    \A t \in Txn :
        (/\ tx[t].state = "Active" /\ tx[t].level = "ReadCommitted"
         /\ ~ InCall(t)) =>
            \A k \in Key : entries[k].holders[t] # LM!Shared

\* An aborted transaction, which accepts nothing but ROLLBACK, can always be
\* rolled back: its client has not lost the handle that ROLLBACK needs.
AbortedCanRollBack == \A t \in Txn : tx[t].state # "Lost"

\* A rollback always succeeds: whatever other transactions did meanwhile, the
\* rows it puts back pass the checks they passed before.
RollbackSucceeds == \A t \in Txn : tx[t].state # "Broken"

\* Every call returns: no statement sleeps for ever, whatever deadlocks the
\* transactions run into, as long as clients that are answered end theirs.
\* The locks of a lost or a broken transaction are the only ones never freed.
KeepsItsLocks(t) == tx[t].state \in {"Lost", "Broken"}

CallsReturn ==
    \A t \in Txn : InCall(t) ~> (~ InCall(t) \/ \E u \in Txn : KeepsItsLocks(u))
=============================================================================
