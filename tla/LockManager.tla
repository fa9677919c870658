----------------------------- MODULE LockManager -----------------------------
(***************************************************************************)
(* The lock manager of src/src/lock_manager.rs: for every lock key, the    *)
(* transactions that hold it and a FIFO queue of the requests that could   *)
(* not be granted.  A call never blocks a thread: it answers Granted or    *)
(* Blocked, and a blocked request stays queued until a release promotes it *)
(* or its owner gives up.                                                  *)
(*                                                                         *)
(* The operators work on one entry (the value stored under one key), as    *)
(* the code does; the actions are the three calls the Database makes.      *)
(***************************************************************************)
EXTENDS Naturals, Sequences

CONSTANTS Txn,  \* transaction identifiers
          Key   \* lock keys: LockKey::Table and LockKey::Tuple values

VARIABLES entries,  \* [Key -> Entry]; a key absent from the map is EmptyEntry
          pending   \* pending_shared_grants: [Txn -> SUBSET Key]

vars == <<entries, pending>>

------------------------------------------------------------------------------
(* Lock modes and the entry kept under one key.                            *)

Shared    == "Shared"
Exclusive == "Exclusive"
NoLock    == "None"
Mode      == {Shared, Exclusive}

Compatible(held, requested) == held = Shared /\ requested = Shared

Waiter == [txn : Txn, mode : Mode, isUpgrade : BOOLEAN]
Entry  == [holders : [Txn -> Mode \cup {NoLock}], waiters : Seq(Waiter)]

EmptyEntry == [holders |-> [t \in Txn |-> NoLock], waiters |-> <<>>]

HoldersOf(h) == {t \in Txn : h[t] # NoLock}

\* Fault: an upgrade that only asks whether its transaction holds the key.
AnyHolder(h, t) == h[t] # NoLock

SoleHolder(h, t) == HoldersOf(h) = {t}

CompatibleWithHolders(h, mode) ==
    \A t \in HoldersOf(h) : Compatible(h[t], mode)

Waits(q, t) == \E i \in 1..Len(q) : q[i].txn = t

------------------------------------------------------------------------------
(* acquire: an adequate lock already held; an upgrade; a new request.      *)

HoldsEnough(e, t, mode) == e.holders[t] = Exclusive \/ e.holders[t] = mode

IsUpgrade(e, t, mode) == e.holders[t] = Shared /\ mode = Exclusive

\* Fault: a newcomer overtakes the queue.
GrantedPastQueue(e, t, mode) ==
    \/ HoldsEnough(e, t, mode)
    \/ IsUpgrade(e, t, mode) /\ SoleHolder(e.holders, t)
    \/ e.holders[t] = NoLock /\ CompatibleWithHolders(e.holders, mode)

GrantedAtOnce(e, t, mode) ==
    \/ HoldsEnough(e, t, mode)
    \/ IsUpgrade(e, t, mode) /\ SoleHolder(e.holders, t)
    \/ /\ e.holders[t] = NoLock
       /\ e.waiters = <<>>
       /\ CompatibleWithHolders(e.holders, mode)

\* The queue after t's request was refused.  A transaction queues at most one
\* request per key; an upgrade goes to the front, a new request to the back.
Enqueue(e, t, mode) ==
    CASE Waits(e.waiters, t)   -> e.waiters
      [] /\ ~ Waits(e.waiters, t)
         /\ IsUpgrade(e, t, mode)
         -> <<[txn |-> t, mode |-> mode, isUpgrade |-> TRUE]>> \o e.waiters
      [] /\ ~ Waits(e.waiters, t)
         /\ ~ IsUpgrade(e, t, mode)
         -> Append(e.waiters, [txn |-> t, mode |-> mode, isUpgrade |-> FALSE])

AcquireEntry(e, t, mode) ==
    IF GrantedAtOnce(e, t, mode)
    THEN [e EXCEPT !.holders[t] = IF @ = Exclusive THEN @ ELSE mode]
    ELSE [e EXCEPT !.waiters = Enqueue(e, t, mode)]

------------------------------------------------------------------------------
(* promote_waiters.  The loop pops the front while it can be granted; it   *)
(* is given here by the number of requests it pops.  A transaction is at   *)
(* most once in a queue, so the holders after n pops are those of the      *)
(* entry overridden by the first n requests.                               *)

HoldersAfter(e, n) ==
    [t \in Txn |-> IF \E i \in 1..n : e.waiters[i].txn = t
                   THEN e.waiters[CHOOSE i \in 1..n : e.waiters[i].txn = t].mode
                   ELSE e.holders[t]]

CanGrant(h, w) == IF w.isUpgrade THEN SoleHolder(h, w.txn)
                                 ELSE CompatibleWithHolders(h, w.mode)

\* The i-th request is grantable once those before it have been granted.
Grantable(e, i) == CanGrant(HoldersAfter(e, i - 1), e.waiters[i])

PromotedCount(e) ==
    CHOOSE n \in 0..Len(e.waiters) :
        /\ \A i \in 1..n : Grantable(e, i)
        /\ n < Len(e.waiters) => ~ Grantable(e, n + 1)

\* Fault: one request promoted at a time.
PromoteOne(e) ==
    LET n == IF PromotedCount(e) = 0 THEN 0 ELSE 1
    IN  [holders |-> HoldersAfter(e, n),
         waiters |-> SubSeq(e.waiters, n + 1, Len(e.waiters))]

PromoteWaiters(e) ==
    LET n == PromotedCount(e)
    IN  [holders |-> HoldersAfter(e, n),
         waiters |-> SubSeq(e.waiters, n + 1, Len(e.waiters))]

------------------------------------------------------------------------------
(* Releasing.                                                              *)

DropHolder(h, t) == [h EXCEPT ![t] = NoLock]

\* waiters.retain(|w| w.txn != t), for a queue in which t occurs at most once.
DropWaiter(q, t) ==
    IF Waits(q, t)
    THEN LET i == CHOOSE i \in 1..Len(q) : q[i].txn = t
         IN  SubSeq(q, 1, i - 1) \o SubSeq(q, i + 1, Len(q))
    ELSE q

\* release_all on one key: t leaves both the holders and the queue.
ReleaseEntry(e, t) ==
    PromoteWaiters([holders |-> DropHolder(e.holders, t),
                    waiters |-> DropWaiter(e.waiters, t)])

\* release_keys on one key: t leaves the holders only, whatever its mode.
ReleaseHeldEntry(e, t) ==
    PromoteWaiters([holders |-> DropHolder(e.holders, t), waiters |-> e.waiters])

\* Fault: promote_waiters does not record its Shared grants.
NewlySharedAtOnce(old, new, t) ==
    {k \in Key : /\ old[k].holders[t] = NoLock /\ new[k].holders[t] = Shared
                 /\ ~ Waits(old[k].waiters, t)}

\* The keys on which t became a new Shared holder, which both acquire and
\* promote_waiters push on t's pending_shared_grants.
NewlyShared(old, new, t) ==
    {k \in Key : old[k].holders[t] = NoLock /\ new[k].holders[t] = Shared}

------------------------------------------------------------------------------
(* wait_for_edges: <<waiter, waited-for>> pairs.                           *)

ConflictEdges(e) ==
    {p \in Txn \X Txn :
        /\ p[1] # p[2]
        /\ e.holders[p[2]] # NoLock
        /\ \E i \in 1..Len(e.waiters) :
              /\ e.waiters[i].txn = p[1]
              /\ \/ e.waiters[i].isUpgrade
                 \/ ~ Compatible(e.holders[p[2]], e.waiters[i].mode)}

\* Fault: the wait-for graph ignores the queue.
NoQueueEdges(e) == {}

QueueEdges(e) ==
    {<<e.waiters[i + 1].txn, e.waiters[i].txn>> : i \in 1..(Len(e.waiters) - 1)}

WaitForEdges(es) == UNION {ConflictEdges(es[k]) \cup QueueEdges(es[k]) : k \in Key}

------------------------------------------------------------------------------
(* The calls.                                                              *)

Init ==
    /\ entries = [k \in Key |-> EmptyEntry]
    /\ pending = [t \in Txn |-> {}]

Acquire(t, k, mode) ==
    /\ entries' = [entries EXCEPT ![k] = AcquireEntry(@, t, mode)]
    /\ pending' = [pending EXCEPT ![t] = @ \cup NewlyShared(entries, entries', t)]

Touches(e, t) == e.holders[t] # NoLock \/ Waits(e.waiters, t)

ReleaseAll(t) ==
    /\ entries' = [k \in Key |-> IF Touches(entries[k], t)
                                 THEN ReleaseEntry(entries[k], t)
                                 ELSE entries[k]]
    /\ pending' = [u \in Txn |-> IF u = t THEN {}
                                 ELSE pending[u] \cup NewlyShared(entries, entries', u)]

\* take_pending_shared_grants followed by release_keys, the end of a READ
\* COMMITTED read.  release_keys expects keys that the statement acquired as
\* Shared and holds as such: OnlyReads is that expectation of its caller.
OnlyReads(t) ==
    \A k \in pending[t] : /\ entries[k].holders[t] = Shared
                          /\ ~ Waits(entries[k].waiters, t)

ReleasePendingReads(t) ==
    /\ entries' = [k \in Key |-> IF k \in pending[t]
                                 THEN ReleaseHeldEntry(entries[k], t)
                                 ELSE entries[k]]
    /\ pending' = [u \in Txn |-> IF u = t THEN {}
                                 ELSE pending[u] \cup NewlyShared(entries, entries', u)]

EndOfReads(t) == OnlyReads(t) /\ ReleasePendingReads(t)

Next ==
    \E t \in Txn :
        \/ \E k \in Key, mode \in Mode : Acquire(t, k, mode)
        \/ ReleaseAll(t)
        \/ EndOfReads(t)

Spec == Init /\ [][Next]_vars

------------------------------------------------------------------------------
(* Properties.                                                             *)

\* The lock table and the record of fresh Shared grants stay well typed.
TypeOK ==
    /\ entries \in [Key -> Entry]
    /\ pending \in [Txn -> SUBSET Key]

ModesCompatible(e) ==
    \A t, u \in HoldersOf(e.holders) :
        t # u => Compatible(e.holders[t], e.holders[u])

\* Two transactions hold one key only if both hold it Shared, whatever
\* interleaving of requests, in-place upgrades, promotions and releases led
\* there (the compatibility matrix of LockMode).
LockCompatibility == \A k \in Key : ModesCompatible(entries[k])

QueueWellFormed(e) ==
    LET q == e.waiters
    IN  \A i \in 1..Len(q) :
            /\ \A j \in 1..Len(q) : q[i].txn = q[j].txn => i = j
            /\ q[i].isUpgrade  => /\ q[i].mode = Exclusive
                                  /\ e.holders[q[i].txn] = Shared
                                  /\ \A j \in 1..i : q[j].isUpgrade
            /\ ~ q[i].isUpgrade => e.holders[q[i].txn] = NoLock

\* A queue holds one request per transaction, upgrades (of transactions that
\* still hold Shared) before new requests (of transactions that hold nothing).
QueueDiscipline == \A k \in Key : QueueWellFormed(entries[k])

HeadIsBlocked(e) ==
    e.waiters # <<>> =>
        \E t \in HoldersOf(e.holders) :
            /\ t # e.waiters[1].txn
            /\ ~ Compatible(e.holders[t], e.waiters[1].mode)

\* No lost wakeup: a request waits at the head of a queue only while another
\* transaction holds the key in a conflicting mode; every release promoted
\* whatever it made grantable.
NoLostWakeup == \A k \in Key : HeadIsBlocked(entries[k])

\* pending_shared_grants is exact: it names only keys its transaction still
\* holds, and misses no Shared lock, so the end of a READ COMMITTED read
\* leaves none behind even when the lock was granted while the statement slept.
PendingExact ==
    \A t \in Txn, k \in Key :
        /\ k \in pending[t] => entries[k].holders[t] # NoLock
        /\ entries[k].holders[t] = Shared => k \in pending[t]

\* Every blocked transaction has an edge to somebody else in the wait-for
\* graph, so a set of transactions that only wait for one another always
\* contains a cycle for the deadlock detector to find.
WaitersHaveEdges ==
    \A k \in Key : \A i \in 1..Len(entries[k].waiters) :
        \E u \in Txn \ {entries[k].waiters[i].txn} :
            <<entries[k].waiters[i].txn, u>> \in WaitForEdges(entries)

GrantedIn(e, f, t) == Waits(e.waiters, t) /\ ~ Waits(f.waiters, t) /\ f.holders[t] # NoLock

\* FIFO: a queued request is granted only when nobody queued before it is
\* left waiting, and a newcomer is granted only past an empty queue.
NoOvertaking ==
    [][\A k \in Key :
         LET e == entries[k]  f == entries'[k]  q == e.waiters
         IN  /\ \A j \in 1..Len(q) : GrantedIn(e, f, q[j].txn) =>
                    \A i \in 1..(j - 1) : ~ Waits(f.waiters, q[i].txn)
             /\ \A t \in Txn : (/\ e.holders[t] = NoLock
                                /\ f.holders[t] # NoLock
                                /\ ~ Waits(q, t)) => q = <<>>]_vars
=============================================================================
