----------------------------- MODULE ServerProofs -----------------------------
(***************************************************************************)
(* Proofs about Server for any number of clients, workers and waiting      *)
(* connections, and for clients that send whatever they like.              *)
(***************************************************************************)
EXTENDS Server, FiniteSetTheorems, TLAPS

------------------------------------------------------------------------------
(* The inductive invariant.                                                *)

Places   == Outside \cup {"queued"} \cup Served
Watching == {"off", "on", "fired"}

ConnType ==
    [at : Places, stmt : {"none"} \cup Control \cup Work, slot : Nat, ctx : Nat, handle : Nat,
     watch : Watching]

SockType == [open : BOOLEAN, unread : Frame \cup {"none"}, sent : Nat]

Typed ==
    /\ flag \in BOOLEAN /\ trigger \in {"none", "flagged", "connecting", "done"}
    /\ listener \in {"accepting", "joining", "flushed", "failed"}
    /\ queue \in Seq(Client) /\ idle \in Nat /\ exited \in Nat
    /\ conn \in [Client -> ConnType] /\ sock \in [Client -> SockType]
    /\ cancelled \in [Client -> SUBSET Nat]
    /\ tx \in [Client -> {"none", "active", "failed"}]
    /\ holder \in Client \cup {Nobody} /\ asleep \subseteq Client

(* Who waits for a worker is in the queue, once; a worker that has ended   *)
(* has left none there.                                                    *)
Queued(c) == \E i \in DOMAIN queue : queue[i] = c

QueueRight ==
    /\ Len(queue) <= QueueCapacity
    /\ \A i, j \in DOMAIN queue : queue[i] = queue[j] => i = j
    /\ \A c \in Client : conn[c].at = "queued" <=> Queued(c)
    /\ exited > 0 => queue = <<>> /\ listener # "accepting"
    /\ listener = "flushed" => exited = Workers

(* Every worker is somewhere. *)
Serving == {c \in Client : conn[c].at \in Served}

WorkersCounted ==
    IsFiniteSet(Serving) /\ idle + exited + Cardinality(Serving) = Workers

(* A connection has one slot at a time.  The flags of those before it may  *)
(* be set or not; the one of the statement that is being executed is set   *)
(* if and only if the statement's own watcher has fired.                   *)
SlotsRight(c) ==
    LET k == conn[c] IN
    /\ k.at \in Outside \cup {"queued"} => k.slot = 0 /\ k.watch = "off" /\ cancelled[c] = {}
    /\ k.at \in {"wait", "read", "spawn", "write"} =>
          k.watch = "off" /\ \A s \in cancelled[c] : s < k.slot
    /\ k.at = "take" =>
          /\ k.handle = k.slot /\ \A s \in cancelled[c] : s <= k.slot
          /\ k.slot \in cancelled[c] <=> k.watch = "fired"
    /\ k.at \in {"parsed", "run", "stop"} =>
          /\ k.slot = k.ctx + 1 /\ k.handle = k.ctx /\ \A s \in cancelled[c] : s <= k.ctx
          /\ k.ctx \in cancelled[c] <=> k.watch = "fired"
    /\ k.at = "read" => sock[c].unread # "none"

(* Transactions are those of connections that are being served, and the    *)
(* threads that sleep are in a statement.                                  *)
Owned(c) ==
    /\ tx[c] # "none" => conn[c].at \in Served
    /\ c \in asleep => conn[c].at = "run"

(* The lock is a transaction's. *)
LockOwned == holder # Nobody => tx[holder] # "none"

(* A commit that is on its way finds a transaction that has not failed, or *)
(* none.                                                                   *)
CommitsCareful(c) ==
    /\ sock[c].unread = "commit" => conn[c].at \in {"wait", "read"} /\ tx[c] # "failed"
    /\ conn[c].stmt = "commit" /\ conn[c].at \in {"spawn", "take", "parsed"} => tx[c] # "failed"

ServerInv ==
    /\ Typed /\ QueueRight /\ WorkersCounted
    /\ \A c \in Client : SlotsRight(c) /\ Owned(c)

CarefulInv == LockOwned /\ \A c \in Client : CommitsCareful(c)

------------------------------------------------------------------------------
(* Records.                                                                *)

(* A connection with another at. *)
LEMMA NewAt ==
  ASSUME NEW k \in ConnType, NEW v \in Places
  PROVE  LET m == [k EXCEPT !.at = v] IN
         /\ m \in ConnType /\ m.at = v
         /\ m.stmt = k.stmt /\ m.slot = k.slot /\ m.ctx = k.ctx
         /\ m.handle = k.handle /\ m.watch = k.watch
  BY DEF ConnType

(* A connection with another stmt. *)
LEMMA NewStmt ==
  ASSUME NEW k \in ConnType, NEW v \in {"none"} \cup Control \cup Work
  PROVE  LET m == [k EXCEPT !.stmt = v] IN
         /\ m \in ConnType /\ m.stmt = v
         /\ m.at = k.at /\ m.slot = k.slot /\ m.ctx = k.ctx
         /\ m.handle = k.handle /\ m.watch = k.watch
  BY DEF ConnType

(* A connection with another slot. *)
LEMMA NewSlot ==
  ASSUME NEW k \in ConnType, NEW v \in Nat
  PROVE  LET m == [k EXCEPT !.slot = v] IN
         /\ m \in ConnType /\ m.slot = v
         /\ m.at = k.at /\ m.stmt = k.stmt /\ m.ctx = k.ctx
         /\ m.handle = k.handle /\ m.watch = k.watch
  BY DEF ConnType

(* A connection with another ctx. *)
LEMMA NewCtx ==
  ASSUME NEW k \in ConnType, NEW v \in Nat
  PROVE  LET m == [k EXCEPT !.ctx = v] IN
         /\ m \in ConnType /\ m.ctx = v
         /\ m.at = k.at /\ m.stmt = k.stmt /\ m.slot = k.slot
         /\ m.handle = k.handle /\ m.watch = k.watch
  BY DEF ConnType

(* A connection with another handle. *)
LEMMA NewHandle ==
  ASSUME NEW k \in ConnType, NEW v \in Nat
  PROVE  LET m == [k EXCEPT !.handle = v] IN
         /\ m \in ConnType /\ m.handle = v
         /\ m.at = k.at /\ m.stmt = k.stmt /\ m.slot = k.slot
         /\ m.ctx = k.ctx /\ m.watch = k.watch
  BY DEF ConnType

(* A connection with another watch. *)
LEMMA NewWatch ==
  ASSUME NEW k \in ConnType, NEW v \in Watching
  PROVE  LET m == [k EXCEPT !.watch = v] IN
         /\ m \in ConnType /\ m.watch = v
         /\ m.at = k.at /\ m.stmt = k.stmt /\ m.slot = k.slot
         /\ m.ctx = k.ctx /\ m.handle = k.handle
  BY DEF ConnType

(* A connection before it is served or after it. *)
LEMMA NotServed ==
  ASSUME NEW place \in Places
  PROVE  LET m == Disconnected(place) IN
         /\ m \in ConnType /\ m.at = place /\ m.stmt = "none" /\ m.slot = 0 /\ m.watch = "off"
  BY DEF Disconnected, ConnType, Watching

------------------------------------------------------------------------------
(* Steps of one connection.                                                *)

(* Nothing of another connection is changed, and no other thread falls asleep. *)
Only(c) ==
    /\ \A d \in Client \ {c} :
          conn'[d] = conn[d] /\ sock'[d] = sock[d] /\ cancelled'[d] = cancelled[d] /\ tx'[d] = tx[d]
    /\ asleep' \subseteq asleep \cup {c}

(* What holds of the other connections. *)
LEMMA OthersKeep ==
  ASSUME NEW c \in Client, Only(c), NEW d \in Client \ {c}
  PROVE  /\ SlotsRight(d) => SlotsRight(d)'
         /\ Owned(d) => Owned(d)'
         /\ CommitsCareful(d) => CommitsCareful(d)'
  <1>1. conn'[d] = conn[d] /\ sock'[d] = sock[d] /\ cancelled'[d] = cancelled[d] /\ tx'[d] = tx[d]
        /\ (d \in asleep' => d \in asleep)
    BY DEF Only
  <1>2. SlotsRight(d) => SlotsRight(d)'
    BY <1>1 DEF SlotsRight
  <1>3. Owned(d) => Owned(d)'
    BY <1>1 DEF Owned
  <1>4. CommitsCareful(d) => CommitsCareful(d)'
    BY <1>1 DEF CommitsCareful
  <1>5. QED
    BY <1>2, <1>3, <1>4

(* Steps that neither put a connection into the queue or into service nor    *)
(* take one out.                                                             *)
LEMMA SamePool ==
  ASSUME QueueRight, WorkersCounted, UNCHANGED <<queue, idle, exited, listener>>,
         \A d \in Client : /\ conn'[d].at = "queued" <=> conn[d].at = "queued"
                           /\ conn'[d].at \in Served <=> conn[d].at \in Served
  PROVE  QueueRight' /\ WorkersCounted'
  <1>1. Serving' = Serving
    BY DEF Serving
  <1>2. \A d : Queued(d)' <=> Queued(d)
    BY DEF Queued
  <1>3. QueueRight'
    BY <1>2 DEF QueueRight
  <1>4. WorkersCounted'
    BY <1>1 DEF WorkersCounted
  <1>5. QED
    BY <1>3, <1>4

(* A connection that is served before and after a step of its own. *)
LEMMA Within ==
  ASSUME ServerInv, NEW c \in Client, Only(c), UNCHANGED <<queue, idle, exited, listener>>,
         conn[c].at \in Served, conn'[c].at \in Served,
         Typed', SlotsRight(c)', Owned(c)'
  PROVE  ServerInv'
  <1>1. "queued" \notin Served
    BY DEF Served
  <1>2. \A d \in Client : /\ conn'[d].at = "queued" <=> conn[d].at = "queued"
                          /\ conn'[d].at \in Served <=> conn[d].at \in Served
    BY <1>1 DEF Only
  <1>3. QueueRight' /\ WorkersCounted'
    BY <1>2, SamePool DEF ServerInv
  <1>4. \A d \in Client : SlotsRight(d)' /\ Owned(d)'
    BY OthersKeep DEF ServerInv
  <1>5. QED
    BY <1>3, <1>4 DEF ServerInv

(* What keeps the lock with a transaction. *)
LEMMA Careful ==
  ASSUME CarefulInv, NEW c \in Client, Only(c), CommitsCareful(c)', LockOwned'
  PROVE  CarefulInv'
  BY OthersKeep DEF CarefulInv

(* The initial states satisfy the invariants. *)
LEMMA ServerInvInit == Init => ServerInv /\ CarefulInv
  <1> SUFFICES ASSUME Init PROVE ServerInv /\ CarefulInv
    OBVIOUS
  <1>1. Typed
    <2>1. Disconnected("away") \in ConnType
      BY NotServed DEF Places, Outside
    <2>2. NewSocket \in SockType
      BY DEF NewSocket, SockType
    <2>3. conn \in [Client -> ConnType] /\ sock \in [Client -> SockType]
      BY <2>1, <2>2 DEF Init
    <2>4. queue \in Seq(Client) /\ idle \in Nat /\ exited \in Nat
      BY BoundsAssumption DEF Init
    <2>5. cancelled \in [Client -> SUBSET Nat] /\ tx \in [Client -> {"none", "active", "failed"}]
      BY DEF Init
    <2>6. holder \in Client \cup {Nobody} /\ asleep \subseteq Client
      BY DEF Init
    <2>7. QED
      BY <2>3, <2>4, <2>5, <2>6 DEF Init, Typed
  <1>2. \A c \in Client : conn[c] = Disconnected("away")
    BY DEF Init
  <1>3. \A c \in Client : conn[c].at = "away" /\ conn[c].slot = 0 /\ conn[c].watch = "off"
                          /\ conn[c].stmt = "none" /\ cancelled[c] = {} /\ tx[c] = "none"
                          /\ sock[c].unread = "none"
    BY <1>2 DEF Init, Disconnected, NewSocket
  <1>4. QueueRight
    BY <1>3, BoundsAssumption DEF Init, QueueRight, Queued
  <1>5. WorkersCounted
    <2>1. Serving = {}
      BY <1>3 DEF Serving, Served
    <2>2. QED
      BY <2>1, FS_EmptySet, BoundsAssumption DEF Init, WorkersCounted
  <1>6. \A c \in Client : SlotsRight(c) /\ Owned(c) /\ CommitsCareful(c)
    BY <1>3 DEF SlotsRight, Owned, CommitsCareful, Outside, Init
  <1>7. LockOwned
    BY DEF Init, LockOwned
  <1>8. QED
    BY <1>1, <1>4, <1>5, <1>6, <1>7 DEF ServerInv, CarefulInv

------------------------------------------------------------------------------
(* The accept loop and the shutdown.                                       *)

(* Steps that no connection notices. *)
LEMMA NobodyNotices ==
  ASSUME UNCHANGED <<sock, conn, cancelled, tx, holder, asleep>>
  PROVE  /\ (ServerInv /\ Typed' /\ QueueRight' /\ WorkersCounted') => ServerInv'
         /\ CarefulInv => CarefulInv'
  <1>1. \A c \in Client : (SlotsRight(c) => SlotsRight(c)') /\ (Owned(c) => Owned(c)')
                          /\ (CommitsCareful(c) => CommitsCareful(c)')
    BY DEF SlotsRight, Owned, CommitsCareful
  <1>2. LockOwned => LockOwned'
    BY DEF LockOwned
  <1>3. QED
    BY <1>1, <1>2 DEF ServerInv, CarefulInv

(* The same of steps that leave the queue and the workers alone. *)
LEMMA ListenerSteps ==
  ASSUME ServerInv, UNCHANGED <<queue, idle, exited, sock, conn, cancelled, tx, holder, asleep>>,
         flag' \in BOOLEAN, trigger' \in {"none", "flagged", "connecting", "done"},
         listener' = listener \/ (listener = "accepting" /\ listener' \in {"joining", "failed"})
         \/ (exited = Workers /\ listener' = "flushed")
  PROVE  ServerInv' /\ (CarefulInv => CarefulInv')
  <1>1. Typed'
    BY DEF ServerInv, Typed
  <1>2. WorkersCounted'
    BY DEF ServerInv, WorkersCounted, Serving
  <1>3. QueueRight'
    BY DEF ServerInv, QueueRight, Queued
  <1>4. QED
    BY <1>1, <1>2, <1>3, NobodyNotices

(* Raising the flag, the connection to oneself, the end of the loop and the  *)
(* last flush.                                                               *)
LEMMA LoopInv ==
  ASSUME ServerInv, Trigger \/ SelfConnect \/ AcceptSelf \/ AcceptFails \/ Flush
  PROVE  ServerInv' /\ (CarefulInv => CarefulInv')
  <1>1. flag \in BOOLEAN /\ trigger \in {"none", "flagged", "connecting", "done"}
    BY DEF ServerInv, Typed
  <1>2. CASE Trigger
    BY <1>1, <1>2, ListenerSteps DEF Trigger, database
  <1>3. CASE SelfConnect
    BY <1>1, <1>3, ListenerSteps DEF SelfConnect, database
  <1>4. CASE AcceptSelf
    BY <1>1, <1>4, ListenerSteps DEF AcceptSelf, database
  <1>5. CASE AcceptFails
    BY <1>1, <1>5, ListenerSteps DEF AcceptFails, database
  <1>6. CASE Flush
    BY <1>1, <1>6, ListenerSteps DEF Flush, database, AllJoined
  <1>7. QED
    BY <1>2, <1>3, <1>4, <1>5, <1>6

(* A worker ends when nobody can wait for one any more. *)
LEMMA ExitInv ==
  ASSUME ServerInv, Exit
  PROVE  ServerInv' /\ (CarefulInv => CarefulInv')
  <1>1. /\ listener = "joining" /\ idle > 0 /\ queue = <<>>
        /\ idle' = idle - 1 /\ exited' = exited + 1
        /\ UNCHANGED <<flag, trigger, listener, queue, sock, conn, cancelled, tx, holder, asleep>>
    BY DEF Exit, database
  <1>2. idle \in Nat /\ exited \in Nat
    BY DEF ServerInv, Typed
  <1>3. Typed'
    BY <1>1, <1>2 DEF ServerInv, Typed
  <1>4. WorkersCounted'
    <2>1. Serving' = Serving
      BY <1>1 DEF Serving
    <2>2. IsFiniteSet(Serving) /\ Cardinality(Serving) \in Nat
      BY FS_CardinalityType DEF ServerInv, WorkersCounted
    <2>3. QED
      BY <1>1, <1>2, <2>1, <2>2 DEF ServerInv, WorkersCounted
  <1>5. QueueRight'
    BY <1>1, <1>2 DEF ServerInv, QueueRight, Queued
  <1>6. QED
    BY <1>1, <1>3, <1>4, <1>5, NobodyNotices

(* A connection that ends before it is served. *)
LEMMA ClosesInv ==
  ASSUME ServerInv, NEW c \in Client, Closes(c), conn[c].at = "backlog",
         UNCHANGED <<flag, trigger, queue, idle, exited, tx, holder, asleep>>,
         listener' = listener \/ (listener = "accepting" /\ listener' = "joining")
  PROVE  ServerInv' /\ (CarefulInv => CarefulInv')
  <1>1. /\ conn' = [conn EXCEPT ![c] = Disconnected("closed")]
        /\ sock' = [sock EXCEPT ![c] = NewSocket]
        /\ cancelled' = [cancelled EXCEPT ![c] = {}]
    BY DEF Closes
  <1>2. LET k == Disconnected("closed") IN
        k \in ConnType /\ k.at = "closed" /\ k.slot = 0 /\ k.watch = "off" /\ k.stmt = "none"
    BY NotServed DEF Places, Outside
  <1>3. NewSocket \in SockType /\ NewSocket.unread = "none"
    BY DEF NewSocket, SockType
  <1>4. /\ conn' \in [Client -> ConnType] /\ sock' \in [Client -> SockType]
        /\ cancelled' \in [Client -> SUBSET Nat]
    BY <1>1, <1>2, <1>3 DEF ServerInv, Typed
  <1>5. Typed'
    BY <1>4 DEF ServerInv, Typed
  <1>6. /\ conn'[c] = Disconnected("closed") /\ sock'[c] = NewSocket /\ cancelled'[c] = {}
        /\ Only(c)
    BY <1>1 DEF ServerInv, Typed, Only
  <1>7. tx[c] = "none" /\ c \notin asleep
    BY DEF ServerInv, Owned, Served
  <1>8. QueueRight' /\ WorkersCounted'
    <2>1. \A d \in Client : /\ conn'[d].at = "queued" <=> conn[d].at = "queued"
                            /\ conn'[d].at \in Served <=> conn[d].at \in Served
      BY <1>2, <1>6 DEF Only, Served
    <2>2. Serving' = Serving
      BY <2>1 DEF Serving
    <2>3. WorkersCounted'
      BY <2>2 DEF ServerInv, WorkersCounted
    <2>4. \A d : Queued(d)' <=> Queued(d)
      BY DEF Queued
    <2>5. QueueRight'
      BY <2>1, <2>4 DEF ServerInv, QueueRight
    <2>6. QED
      BY <2>3, <2>5
  <1>9. SlotsRight(c)' /\ Owned(c)' /\ CommitsCareful(c)'
    BY <1>2, <1>3, <1>6, <1>7 DEF SlotsRight, Owned, CommitsCareful, Outside
  <1>10. LockOwned => LockOwned'
    BY DEF LockOwned
  <1>11. \A d \in Client : SlotsRight(d)' /\ Owned(d)'
    BY <1>6, <1>9, OthersKeep DEF ServerInv
  <1>12. QED
    BY <1>5, <1>6, <1>8, <1>9, <1>10, <1>11, Careful DEF ServerInv, CarefulInv

(* A connection that moves on without being served yet, or begins to be. *)
LEMMA Moves ==
  ASSUME ServerInv, NEW c \in Client, NEW place \in Places, Goes(c, place),
         conn[c].at \in {"away", "backlog", "queued"}, place \in {"backlog", "queued", "wait"},
         UNCHANGED <<sock, cancelled, tx, holder, asleep>>
  PROVE  /\ conn' \in [Client -> ConnType]
         /\ conn'[c].at = place /\ \A d \in Client \ {c} : conn'[d] = conn[d]
         /\ \A d \in Client : SlotsRight(d)' /\ Owned(d)'
         /\ CarefulInv => CarefulInv'
  <1>1. conn' = [conn EXCEPT ![c].at = place] /\ conn \in [Client -> ConnType]
    BY DEF Goes, ServerInv, Typed
  <1> DEFINE k == [conn[c] EXCEPT !.at = place]
  <1>2. k \in ConnType /\ k.at = place /\ k.slot = conn[c].slot /\ k.watch = conn[c].watch
        /\ k.stmt = conn[c].stmt
    BY <1>1, NewAt
  <1>3. conn' = [conn EXCEPT ![c] = k]
    BY <1>1
  <1> HIDE DEF k
  <1>4. conn' \in [Client -> ConnType] /\ conn'[c] = k /\ Only(c)
    BY <1>1, <1>2, <1>3 DEF Only
  <1>5. SlotsRight(c) /\ Owned(c) /\ conn[c].slot = 0 /\ conn[c].watch = "off" /\ cancelled[c] = {}
    BY DEF ServerInv, SlotsRight, Outside
  <1>6. tx[c] = "none" /\ c \notin asleep
    BY <1>5 DEF Owned, Served
  <1>7. SlotsRight(c)' /\ Owned(c)'
    BY <1>2, <1>4, <1>5, <1>6 DEF SlotsRight, Owned, Outside
  <1>8. CommitsCareful(c) => CommitsCareful(c)'
    BY <1>2, <1>4, <1>6 DEF CommitsCareful
  <1>9. LockOwned => LockOwned'
    BY DEF LockOwned
  <1>10. \A d \in Client : SlotsRight(d)' /\ Owned(d)'
    BY <1>4, <1>7, OthersKeep DEF ServerInv
  <1>11. CarefulInv => CarefulInv'
    BY <1>4, <1>8, <1>9, Careful DEF CarefulInv
  <1>12. QED
    BY <1>2, <1>4, <1>10, <1>11 DEF Only

(* A client connects. *)
LEMMA ConnectInv ==
  ASSUME ServerInv, NEW c \in Client, Connect(c)
  PROVE  ServerInv' /\ (CarefulInv => CarefulInv')
  <1>1. /\ conn[c].at = "away" /\ Goes(c, "backlog")
        /\ UNCHANGED <<flag, trigger, listener, queue, idle, exited, sock, cancelled, tx, holder, asleep>>
    BY DEF Connect, At, pool, database
  <1>2. "backlog" \in Places
    BY DEF Places, Outside
  <1>3. /\ conn' \in [Client -> ConnType]
        /\ conn'[c].at = "backlog" /\ \A d \in Client \ {c} : conn'[d] = conn[d]
        /\ \A d \in Client : SlotsRight(d)' /\ Owned(d)'
        /\ CarefulInv => CarefulInv'
    BY <1>1, <1>2, Moves
  <1>4. \A d \in Client : /\ conn'[d].at = "queued" <=> conn[d].at = "queued"
                          /\ conn'[d].at \in Served <=> conn[d].at \in Served
    BY <1>1, <1>3 DEF Served
  <1>5. QueueRight' /\ WorkersCounted'
    BY <1>1, <1>4, SamePool DEF ServerInv
  <1>6. Typed'
    BY <1>1, <1>3 DEF ServerInv, Typed
  <1>7. QED
    BY <1>3, <1>5, <1>6 DEF ServerInv

(* A connection is accepted, turned away or dropped. *)
LEMMA AcceptInv ==
  ASSUME ServerInv, NEW c \in Client, Accept(c)
  PROVE  ServerInv' /\ (CarefulInv => CarefulInv')
  <1>1. /\ listener = "accepting" /\ conn[c].at = "backlog"
        /\ UNCHANGED <<flag, trigger, idle, exited, tx, holder, asleep>>
    BY DEF Accept, database
  <1>2. CASE Closes(c) /\ UNCHANGED queue /\ (listener' = "joining" \/ UNCHANGED listener)
    BY <1>1, <1>2, ClosesInv
  <1>3. CASE /\ HasRoom /\ Goes(c, "queued") /\ queue' = Append(queue, c)
             /\ UNCHANGED <<sock, cancelled, listener>>
    <2>1. "queued" \in Places
      BY DEF Places
    <2>2. /\ conn' \in [Client -> ConnType]
          /\ conn'[c].at = "queued" /\ \A d \in Client \ {c} : conn'[d] = conn[d]
          /\ \A d \in Client : SlotsRight(d)' /\ Owned(d)'
          /\ CarefulInv => CarefulInv'
      BY <1>1, <1>3, <2>1, Moves
    <2>3. PICK n \in Nat : n = Len(queue) + 1
      BY DEF ServerInv, Typed
    <2>4. /\ queue' \in Seq(Client) /\ Len(queue') = n
          /\ DOMAIN queue = 1..(n - 1) /\ DOMAIN queue' = 1..n
          /\ queue'[n] = c /\ \A i \in 1..(n - 1) : queue'[i] = queue[i]
      BY <1>3, <2>3 DEF ServerInv, Typed
    <2>5. Typed'
      BY <1>1, <1>3, <2>2, <2>4 DEF ServerInv, Typed
    <2>6. ~ Queued(c)
      BY <1>1 DEF ServerInv, QueueRight
    <2>7. \A i \in 1..(n - 1) : queue[i] # c
      BY <2>4, <2>6 DEF Queued
    <2>8. QueueRight'
      <3>1. Len(queue') <= QueueCapacity
        BY <1>3, <2>3, <2>4, BoundsAssumption DEF HasRoom
      <3>2. ASSUME NEW i \in 1..n, NEW j \in 1..n, queue'[i] = queue'[j]
            PROVE  i = j
        <4>1. i \in Int /\ j \in Int /\ (i = n \/ i \in 1..(n - 1)) /\ (j = n \/ j \in 1..(n - 1))
          OBVIOUS
        <4>2. QED
          BY <2>4, <2>7, <3>2, <4>1 DEF ServerInv, QueueRight
      <3>3. ASSUME NEW d \in Client
            PROVE  conn'[d].at = "queued" <=> Queued(d)'
        <4>1. CASE d = c
          <5>1. n \in DOMAIN queue'
            BY <2>3, <2>4
          <5>2. QED
            BY <2>2, <2>4, <4>1, <5>1 DEF Queued
        <4>2. CASE d # c
          <5>1. Queued(d)' <=> Queued(d)
            BY <2>4, <4>2 DEF Queued
          <5>2. QED
            BY <2>2, <4>2, <5>1 DEF ServerInv, QueueRight
        <4>3. QED
          BY <4>1, <4>2
      <3>4. ~ (exited > 0) /\ listener' # "flushed"
        BY <1>1, <1>3 DEF ServerInv, QueueRight
      <3>5. QED
        BY <1>1, <2>4, <3>1, <3>2, <3>3, <3>4 DEF QueueRight
    <2>9. WorkersCounted'
      <3>1. Serving' = Serving
        BY <1>1, <2>2 DEF Serving, Served
      <3>2. QED
        BY <1>1, <3>1 DEF ServerInv, WorkersCounted
    <2>10. QED
      BY <2>2, <2>5, <2>8, <2>9 DEF ServerInv
  <1>4. QED
    BY <1>2, <1>3 DEF Accept

(* A worker takes the connection that has waited longest. *)
LEMMA TakeInv ==
  ASSUME ServerInv, Take
  PROVE  ServerInv' /\ (CarefulInv => CarefulInv')
  <1> DEFINE c == queue[1]
  <1>1. /\ idle > 0 /\ queue # <<>> /\ idle' = idle - 1 /\ queue' = Tail(queue)
        /\ Goes(c, "wait")
        /\ UNCHANGED <<flag, trigger, listener, exited, sock, cancelled, tx, holder, asleep>>
    BY DEF Take, database, ServerInv, Typed
  <1>2. queue \in Seq(Client) /\ Len(queue) \in Nat /\ Len(queue) > 0 /\ DOMAIN queue = 1..Len(queue)
    BY <1>1 DEF ServerInv, Typed
  <1>3. c \in Client /\ Queued(c)
    <2>1. 1 \in DOMAIN queue
      BY <1>2
    <2>2. QED
      BY <1>2, <2>1 DEF Queued
  <1>4. conn[c].at = "queued"
    BY <1>3 DEF ServerInv, QueueRight
  <1> HIDE DEF c
  <1>5. "wait" \in Places
    BY DEF Places, Served
  <1>6. /\ conn' \in [Client -> ConnType]
        /\ conn'[c].at = "wait" /\ \A d \in Client \ {c} : conn'[d] = conn[d]
        /\ \A d \in Client : SlotsRight(d)' /\ Owned(d)'
        /\ CarefulInv => CarefulInv'
    BY <1>1, <1>3, <1>4, <1>5, Moves
  <1>7. /\ queue' \in Seq(Client) /\ Len(queue') = Len(queue) - 1
        /\ DOMAIN queue' = 1..(Len(queue) - 1)
        /\ \A i \in 1..(Len(queue) - 1) : queue'[i] = queue[i + 1]
    BY <1>1, <1>2
  <1>8. idle \in Nat /\ exited \in Nat /\ idle' \in Nat
    BY <1>1 DEF ServerInv, Typed
  <1>9. Typed'
    BY <1>1, <1>6, <1>7, <1>8 DEF ServerInv, Typed
  <1>10. \A i, j \in 1..Len(queue) : queue[i] = queue[j] => i = j
    BY <1>2 DEF ServerInv, QueueRight
  <1>11. QueueRight'
    <2>1. Len(queue') <= QueueCapacity
      BY <1>2, <1>7, BoundsAssumption DEF ServerInv, QueueRight
    <2>2. ASSUME NEW i \in 1..(Len(queue) - 1), NEW j \in 1..(Len(queue) - 1), queue'[i] = queue'[j]
          PROVE  i = j
      <3>1. queue[i + 1] = queue[j + 1] /\ i + 1 \in 1..Len(queue) /\ j + 1 \in 1..Len(queue)
        BY <1>2, <1>7, <2>2
      <3>2. i + 1 = j + 1 /\ i \in Int /\ j \in Int
        BY <1>10, <3>1
      <3>3. QED
        BY <3>2
    <2>3. ASSUME NEW d \in Client
          PROVE  Queued(d)' <=> (Queued(d) /\ d # c)
      <3>1. ASSUME NEW i \in 1..(Len(queue) - 1), queue'[i] = d
            PROVE  Queued(d) /\ d # c
        <4>1. queue[i + 1] = d /\ i + 1 \in 1..Len(queue) /\ 1 \in 1..Len(queue) /\ i + 1 # 1
          BY <1>2, <1>7, <3>1
        <4>2. d # c
          BY <1>10, <4>1 DEF c
        <4>3. QED
          BY <1>2, <4>1, <4>2 DEF Queued
      <3>2. ASSUME NEW i \in 1..Len(queue), queue[i] = d, d # c
            PROVE  Queued(d)'
        <4>1. i # 1
          BY <3>2 DEF c
        <4>2. i - 1 \in 1..(Len(queue) - 1) /\ (i - 1) + 1 = i
          BY <1>2, <4>1
        <4>3. PICK j \in 1..(Len(queue) - 1) : j + 1 = i
          BY <4>2
        <4>4. queue'[j] = d
          BY <1>7, <3>2, <4>3
        <4>5. QED
          BY <1>7, <4>4 DEF Queued
      <3>3. QED
        BY <1>2, <1>7, <3>1, <3>2 DEF Queued
    <2>4. \A d \in Client : conn'[d].at = "queued" <=> Queued(d)'
      BY <1>6, <2>3 DEF ServerInv, QueueRight
    <2>5. ~ (exited > 0)
      BY <1>1 DEF ServerInv, QueueRight
    <2>6. (listener' = "flushed") => (exited' = Workers)
      BY <1>1 DEF ServerInv, QueueRight
    <2>7. QED
      BY <1>1, <1>7, <2>1, <2>2, <2>4, <2>5, <2>6 DEF QueueRight
  <1>12. WorkersCounted'
    <2>1. Serving' = Serving \cup {c} /\ c \notin Serving
      BY <1>3, <1>4, <1>6 DEF Serving, Served
    <2>2. /\ IsFiniteSet(Serving) /\ Cardinality(Serving) \in Nat
          /\ idle + exited + Cardinality(Serving) = Workers
      BY FS_CardinalityType DEF ServerInv, WorkersCounted
    <2>3. IsFiniteSet(Serving \cup {c}) /\ Cardinality(Serving \cup {c}) = Cardinality(Serving) + 1
      BY <2>1, <2>2, FS_AddElement
    <2>4. idle' + exited' + (Cardinality(Serving) + 1) = Workers
      BY <1>1, <1>8, <2>2
    <2>5. QED
      BY <2>1, <2>3, <2>4 DEF WorkersCounted
  <1>13. QED
    BY <1>6, <1>9, <1>11, <1>12 DEF ServerInv

------------------------------------------------------------------------------
(* Clients.                                                                *)

(* What a client does to its end of the connection. *)
LEMMA ClientSteps ==
  ASSUME ServerInv, NEW c \in Client, NEW k \in SockType, sock' = [sock EXCEPT ![c] = k],
         k.unread # "none" \/ k.unread = sock[c].unread,
         UNCHANGED <<flag, trigger, listener, queue, idle, exited, conn, cancelled, tx, holder, asleep>>
  PROVE  /\ ServerInv'
         /\ CarefulInv /\ (k.unread = "commit" => sock[c].unread = "commit"
                           \/ (conn[c].at = "wait" /\ tx[c] # "failed"))
               => CarefulInv'
  <1>1. sock'[c] = k /\ Only(c)
    BY DEF ServerInv, Typed, Only
  <1>2. Typed'
    BY DEF ServerInv, Typed
  <1>3. QueueRight' /\ WorkersCounted'
    BY SamePool DEF ServerInv
  <1>4. SlotsRight(c)' /\ Owned(c)'
    BY <1>1 DEF ServerInv, SlotsRight, Owned
  <1>5. \A d \in Client : SlotsRight(d)' /\ Owned(d)'
    BY <1>1, <1>4, OthersKeep DEF ServerInv
  <1>6. ASSUME CarefulInv, k.unread = "commit" => sock[c].unread = "commit"
                                                  \/ (conn[c].at = "wait" /\ tx[c] # "failed")
        PROVE  CarefulInv'
    <2>1. CommitsCareful(c)'
      BY <1>1, <1>6 DEF CarefulInv, CommitsCareful
    <2>2. LockOwned'
      BY <1>6 DEF CarefulInv, LockOwned
    <2>3. QED
      BY <1>1, <1>6, <2>1, <2>2, Careful
  <1>7. QED
    BY <1>2, <1>3, <1>5, <1>6 DEF ServerInv

(* A client sends, completes or closes; a careful one commits what has not   *)
(* failed.                                                                   *)
LEMMA ClientInv ==
  ASSUME ServerInv, NEW c \in Client, NEW frame \in Frame,
         Send(c, frame) \/ Complete(c, frame) \/ Close(c)
  PROVE  ServerInv' /\ (~ CarelessCommits /\ CarefulInv => CarefulInv')
  <1>1. sock[c] \in SockType
    BY DEF ServerInv, Typed
  <1>2. "none" \notin Frame
    BY DEF Frame, Control, Work
  <1>3. CASE Send(c, frame)
    <2> DEFINE j == [sock[c] EXCEPT !.unread = frame]
               k == [j EXCEPT !.sent = sock[c].sent + 1]
    <2>1. j \in SockType /\ j.unread = frame /\ sock[c].sent + 1 \in Nat
      BY <1>1 DEF SockType
    <2>2. k \in SockType /\ k.unread = frame
      <3> HIDE DEF j
      <3>1. QED
        BY <2>1 DEF SockType
    <2>3. sock' = [sock EXCEPT ![c] = k]
      <3>1. sock' = [sock EXCEPT ![c].unread = frame, ![c].sent = @ + 1] /\ c \in DOMAIN sock
        BY <1>3 DEF Send, ServerInv, Typed
      <3>2. [sock[c] EXCEPT !.unread = frame].sent = sock[c].sent
        BY <1>1 DEF SockType
      <3>3. QED
        BY <3>1, <3>2
    <2> HIDE DEF k
    <2>4. UNCHANGED <<flag, trigger, listener, queue, idle, exited, conn, cancelled, tx, holder, asleep>>
      BY <1>3 DEF Send, pool, database
    <2>5. ~ CarelessCommits /\ frame = "commit" => conn[c].at = "wait" /\ tx[c] # "failed"
      BY <1>3 DEF Send, MaySend
    <2>6. QED
      BY <1>2, <2>2, <2>3, <2>4, <2>5, ClientSteps
  <1>4. CASE Complete(c, frame)
    <2> DEFINE k == [sock[c] EXCEPT !.unread = frame]
    <2>1. k \in SockType /\ k.unread = frame
      BY <1>1 DEF SockType
    <2>2. sock' = [sock EXCEPT ![c] = k]
      BY <1>4 DEF Complete, ServerInv, Typed
    <2> HIDE DEF k
    <2>3. UNCHANGED <<flag, trigger, listener, queue, idle, exited, conn, cancelled, tx, holder, asleep>>
      BY <1>4 DEF Complete, pool, database
    <2>4. ~ CarelessCommits /\ frame = "commit" => conn[c].at = "wait" /\ tx[c] # "failed"
      BY <1>4 DEF Complete, MaySend
    <2>5. QED
      BY <1>2, <2>1, <2>2, <2>3, <2>4, ClientSteps
  <1>5. CASE Close(c)
    <2> DEFINE k == [sock[c] EXCEPT !.open = FALSE]
    <2>1. k \in SockType /\ k.unread = sock[c].unread
      BY <1>1 DEF SockType
    <2>2. sock' = [sock EXCEPT ![c] = k]
      BY <1>5 DEF Close, ServerInv, Typed
    <2> HIDE DEF k
    <2>3. UNCHANGED <<flag, trigger, listener, queue, idle, exited, conn, cancelled, tx, holder, asleep>>
      BY <1>5 DEF Close, pool, database
    <2>4. QED
      BY <2>1, <2>2, <2>3, ClientSteps
  <1>6. QED
    BY <1>3, <1>4, <1>5

------------------------------------------------------------------------------
(* Serving a connection.                                                   *)

(* The end of a connection that is served: its session goes, and with it     *)
(* what its transaction has locked.                                          *)
LEMMA LeaveInv ==
  ASSUME ServerInv, NEW c \in Client, Leave(c), conn[c].at \in {"wait", "read", "stop", "write"}
  PROVE  /\ ServerInv' /\ (CarefulInv => CarefulInv')
         /\ conn'[c].at = "closed" /\ \A d \in Client \ {c} : conn'[d] = conn[d]
  <1>1. /\ conn' = [conn EXCEPT ![c] = Disconnected("closed")]
        /\ sock' = [sock EXCEPT ![c] = NewSocket]
        /\ cancelled' = [cancelled EXCEPT ![c] = {}]
        /\ DropSession(c) /\ idle' = idle + 1
        /\ UNCHANGED <<flag, trigger, listener, queue, exited>>
    BY DEF Leave, Closes
  <1>2. LET k == Disconnected("closed") IN
        k \in ConnType /\ k.at = "closed" /\ k.slot = 0 /\ k.watch = "off" /\ k.stmt = "none"
    BY NotServed DEF Places, Outside
  <1>3. NewSocket \in SockType /\ NewSocket.unread = "none"
    BY DEF NewSocket, SockType
  <1>4. /\ conn' \in [Client -> ConnType] /\ sock' \in [Client -> SockType]
        /\ cancelled' \in [Client -> SUBSET Nat]
    BY <1>1, <1>2, <1>3 DEF ServerInv, Typed
  <1>5. c \notin asleep
    BY DEF ServerInv, Owned
  <1>6. /\ tx' \in [Client -> {"none", "active", "failed"}] /\ tx'[c] = "none"
        /\ \A d \in Client \ {c} : tx'[d] = tx[d]
        /\ asleep' \subseteq asleep
        /\ holder' = holder \/ (holder = c /\ holder' = Nobody)
        /\ tx[c] # "none" => holder' # c \/ holder' = Nobody
    BY <1>1 DEF DropSession, Ends, database, ServerInv, Typed
  <1>7. idle \in Nat /\ exited \in Nat
    BY DEF ServerInv, Typed
  <1>8. Typed'
    BY <1>1, <1>4, <1>6, <1>7 DEF ServerInv, Typed
  <1>9. /\ conn'[c] = Disconnected("closed") /\ sock'[c] = NewSocket /\ cancelled'[c] = {}
        /\ Only(c)
    BY <1>1, <1>6 DEF ServerInv, Typed, Only
  <1>10. QueueRight'
    <2>1. \A d : Queued(d)' <=> Queued(d)
      BY <1>1 DEF Queued
    <2>2. \A d \in Client : conn'[d].at = "queued" <=> conn[d].at = "queued"
      BY <1>2, <1>9 DEF Only
    <2>3. QED
      BY <1>1, <2>1, <2>2 DEF ServerInv, QueueRight
  <1>11. WorkersCounted'
    <2>1. Serving' = Serving \ {c} /\ c \in Serving
      BY <1>2, <1>9 DEF Serving, Served, Only
    <2>2. /\ IsFiniteSet(Serving) /\ Cardinality(Serving) \in Nat
          /\ idle + exited + Cardinality(Serving) = Workers
      BY FS_CardinalityType DEF ServerInv, WorkersCounted
    <2>3. IsFiniteSet(Serving \ {c}) /\ Cardinality(Serving \ {c}) = Cardinality(Serving) - 1
      BY <2>1, <2>2, FS_RemoveElement
    <2>4. idle' + exited' + (Cardinality(Serving) - 1) = Workers
      BY <1>1, <1>7, <2>2
    <2>5. QED
      BY <2>1, <2>3, <2>4 DEF WorkersCounted
  <1>12. SlotsRight(c)' /\ Owned(c)' /\ CommitsCareful(c)'
    BY <1>2, <1>3, <1>5, <1>6, <1>9 DEF SlotsRight, Owned, CommitsCareful, Outside
  <1>13. LockOwned => LockOwned'
    BY <1>6 DEF LockOwned, ServerInv, Typed
  <1>14. \A d \in Client : SlotsRight(d)' /\ Owned(d)'
    BY <1>9, <1>12, OthersKeep DEF ServerInv
  <1>15. ServerInv'
    BY <1>8, <1>10, <1>11, <1>14 DEF ServerInv
  <1>16. CarefulInv => CarefulInv'
    BY <1>9, <1>12, <1>13, Careful DEF CarefulInv
  <1>17. QED
    BY <1>2, <1>9, <1>15, <1>16 DEF Only

(* A connection of which only the place changes. *)
LEMMA GoesTo ==
  ASSUME Typed, NEW c \in Client, NEW place \in Places, Goes(c, place)
  PROVE  /\ conn' \in [Client -> ConnType]
         /\ conn'[c].at = place /\ conn'[c].stmt = conn[c].stmt /\ conn'[c].slot = conn[c].slot
         /\ conn'[c].ctx = conn[c].ctx /\ conn'[c].handle = conn[c].handle
         /\ conn'[c].watch = conn[c].watch
         /\ \A d \in Client \ {c} : conn'[d] = conn[d]
  <1> DEFINE k == [conn[c] EXCEPT !.at = place]
  <1>1. conn' = [conn EXCEPT ![c] = k] /\ conn \in [Client -> ConnType]
    BY DEF Goes, Typed
  <1>2. /\ k \in ConnType /\ k.at = place /\ k.stmt = conn[c].stmt /\ k.slot = conn[c].slot
        /\ k.ctx = conn[c].ctx /\ k.handle = conn[c].handle /\ k.watch = conn[c].watch
    BY <1>1, NewAt
  <1> HIDE DEF k
  <1>3. QED
    BY <1>1, <1>2

(* The session executes a statement: its transaction changes, its slot does  *)
(* not.                                                                      *)
LEMMA StatementSteps ==
  ASSUME ServerInv, NEW c \in Client, NEW place \in {"run", "stop"}, Goes(c, place),
         conn[c].at \in {"parsed", "run"}, UNCHANGED <<pool, sock, cancelled>>,
         NEW v \in {"none", "active", "failed"}, tx' = [tx EXCEPT ![c] = v],
         holder' \in Client \cup {Nobody}, asleep' \subseteq asleep, c \notin asleep'
  PROVE  ServerInv' /\ (CarefulInv /\ LockOwned' => CarefulInv')
  <1>1. place \in Places /\ place \in Served /\ conn[c].at \in Served
    BY DEF Places, Served
  <1>2. /\ conn' \in [Client -> ConnType]
        /\ conn'[c].at = place /\ conn'[c].stmt = conn[c].stmt /\ conn'[c].slot = conn[c].slot
        /\ conn'[c].ctx = conn[c].ctx /\ conn'[c].handle = conn[c].handle
        /\ conn'[c].watch = conn[c].watch
        /\ \A d \in Client \ {c} : conn'[d] = conn[d]
    BY <1>1, GoesTo DEF ServerInv
  <1>3. UNCHANGED <<flag, trigger, listener, queue, idle, exited>>
    BY DEF pool
  <1>4. Typed'
    BY <1>2, <1>3 DEF ServerInv, Typed
  <1>5. Only(c)
    BY <1>2 DEF Only, ServerInv, Typed
  <1>6. SlotsRight(c)' /\ Owned(c)'
    BY <1>1, <1>2 DEF ServerInv, SlotsRight, Owned, Outside
  <1>7. ServerInv'
    BY <1>1, <1>2, <1>3, <1>4, <1>5, <1>6, Within
  <1>8. CommitsCareful(c) => CommitsCareful(c)'
    BY <1>2 DEF CommitsCareful
  <1>9. QED
    BY <1>5, <1>7, <1>8, Careful DEF CarefulInv

(* BEGIN, COMMIT and ROLLBACK; a commit of a transaction that has not failed *)
(* gives up the lock.                                                        *)
LEMMA ControlInv ==
  ASSUME ServerInv, NEW c \in Client, Begin(c) \/ Commit(c) \/ Rollback(c)
  PROVE  ServerInv' /\ (CarefulInv => CarefulInv')
  <1>1. /\ conn[c].at = "parsed" /\ Goes(c, "stop") /\ UNCHANGED <<pool, sock, cancelled>>
        /\ c \notin asleep
    BY DEF Begin, Commit, Rollback, Parsed, At, ServerInv, Owned
  <1>2. tx \in [Client -> {"none", "active", "failed"}] /\ holder \in Client \cup {Nobody}
    BY DEF ServerInv, Typed
  <1>3. CASE Begin(c)
    <2> DEFINE v == IF tx[c] = "none" THEN "active" ELSE tx[c]
    <2>1. tx' = [tx EXCEPT ![c] = v] /\ v \in {"none", "active", "failed"}
          /\ UNCHANGED <<holder, asleep>>
      BY <1>2, <1>3 DEF Begin
    <2>2. LockOwned => LockOwned'
      BY <1>2, <2>1 DEF LockOwned
    <2> HIDE DEF v
    <2>3. QED
      BY <1>1, <1>2, <2>1, <2>2, StatementSteps DEF CarefulInv
  <1>4. CASE Ends(c)
    <2>1. tx' = [tx EXCEPT ![c] = "none"] /\ asleep' = {}
          /\ holder' = IF holder = c THEN Nobody ELSE holder
      BY <1>4 DEF Ends
    <2>2. LockOwned => LockOwned'
      BY <1>2, <2>1 DEF LockOwned
    <2>3. QED
      BY <1>1, <1>2, <2>1, <2>2, StatementSteps DEF CarefulInv
  <1>5. CASE UNCHANGED database
    <2>1. tx' = [tx EXCEPT ![c] = tx[c]] /\ UNCHANGED <<tx, holder, asleep>>
      BY <1>2, <1>5 DEF database
    <2>2. LockOwned => LockOwned'
      BY <2>1 DEF LockOwned
    <2>3. QED
      BY <1>1, <1>2, <2>1, <2>2, StatementSteps DEF CarefulInv
  <1>6. CASE Commit(c) /\ tx[c] = "failed"
    <2>1. tx' = [tx EXCEPT ![c] = "none"] /\ asleep' = {} /\ UNCHANGED holder
      BY <1>6 DEF Commit
    <2>2. ~ CarefulInv
      BY <1>6 DEF Commit, Parsed, At, CarefulInv, CommitsCareful
    <2>3. QED
      BY <1>1, <1>2, <2>1, <2>2, StatementSteps
  <1>7. QED
    BY <1>2, <1>3, <1>4, <1>5, <1>6 DEF Commit, Rollback

(* What is refused or cancelled does not change the transaction. *)
LEMMA CheckInv ==
  ASSUME ServerInv, NEW c \in Client, Refuse(c) \/ Check(c)
  PROVE  ServerInv' /\ (CarefulInv => CarefulInv')
  <1>1. PICK place \in {"run", "stop"} :
            /\ conn[c].at = "parsed" /\ Goes(c, place)
            /\ UNCHANGED <<pool, sock, cancelled, database>>
    BY DEF Refuse, Check, Parsed, At, Stays
  <1>2. tx \in [Client -> {"none", "active", "failed"}] /\ holder \in Client \cup {Nobody}
        /\ c \notin asleep
    BY <1>1 DEF ServerInv, Typed, Owned
  <1>3. tx' = [tx EXCEPT ![c] = tx[c]] /\ UNCHANGED <<tx, holder, asleep>>
    BY <1>1, <1>2 DEF database
  <1>4. LockOwned => LockOwned'
    BY <1>3 DEF LockOwned
  <1>5. QED
    BY <1>1, <1>2, <1>3, <1>4, StatementSteps DEF CarefulInv

(* A statement that runs takes the lock for its transaction, which has not   *)
(* ended when the statement fails.                                           *)
LEMMA RunStatementInv ==
  ASSUME ServerInv, NEW c \in Client, RunStatement(c)
  PROVE  ServerInv' /\ (CarefulInv => CarefulInv')
  <1> DEFINE v == IF tx[c] = "active" /\ Fails(c) THEN "failed" ELSE tx[c]
  <1>1. /\ conn[c].at = "run" /\ Goes(c, "stop") /\ UNCHANGED <<pool, sock, cancelled>>
        /\ tx' = [tx EXCEPT ![c] = v] /\ asleep' = {}
        /\ holder' = IF NeedsLock(c) /\ tx[c] = "active" THEN c ELSE holder
    BY DEF RunStatement, Attempts, At
  <1>2. tx \in [Client -> {"none", "active", "failed"}] /\ holder \in Client \cup {Nobody}
    BY DEF ServerInv, Typed
  <1>3. v \in {"none", "active", "failed"} /\ (v = "none" => tx[c] = "none")
    BY <1>2
  <1> HIDE DEF v
  <1>4. holder' \in Client \cup {Nobody}
    BY <1>1, <1>2
  <1>5. LockOwned => LockOwned'
    BY <1>1, <1>2, <1>3 DEF LockOwned
  <1>6. QED
    BY <1>1, <1>3, <1>4, <1>5, StatementSteps DEF CarefulInv

(* Who waits for the lock sleeps in its statement. *)
LEMMA SleepInv ==
  ASSUME ServerInv, NEW c \in Client, Sleep(c)
  PROVE  ServerInv' /\ (CarefulInv => CarefulInv')
  <1>1. /\ conn[c].at = "run" /\ asleep' = {c}
        /\ UNCHANGED <<flag, trigger, listener, queue, idle, exited, sock, conn, cancelled, tx, holder>>
    BY DEF Sleep, Attempts, At, pool
  <1>2. Typed'
    BY <1>1 DEF ServerInv, Typed
  <1>3. Only(c)
    BY <1>1 DEF Only
  <1>4. SlotsRight(c)' /\ Owned(c)'
    BY <1>1 DEF ServerInv, SlotsRight, Owned
  <1>5. "run" \in Served
    BY DEF Served
  <1>6. ServerInv'
    BY <1>1, <1>2, <1>3, <1>4, <1>5, Within
  <1>7. CarefulInv => CarefulInv'
    BY <1>1, <1>3, Careful DEF CarefulInv, CommitsCareful, LockOwned
  <1>8. QED
    BY <1>6, <1>7

(* Waiting for a request ends with a frame, a disconnect or the shutdown. *)
LEMMA WaitInv ==
  ASSUME ServerInv, NEW c \in Client, Wait(c)
  PROVE  ServerInv' /\ (CarefulInv => CarefulInv')
  <1>1. conn[c].at = "wait"
    BY DEF Wait, At
  <1>2. CASE Leave(c)
    BY <1>1, <1>2, LeaveInv
  <1>3. CASE sock[c].unread # "none" /\ Stays(c, "read")
    <2>1. Goes(c, "read") /\ UNCHANGED <<pool, sock, cancelled, database>>
      BY <1>3 DEF Stays
    <2>2. "read" \in Places /\ "read" \in Served /\ "wait" \in Served
      BY DEF Places, Served
    <2>3. /\ conn' \in [Client -> ConnType]
          /\ conn'[c].at = "read" /\ conn'[c].stmt = conn[c].stmt /\ conn'[c].slot = conn[c].slot
          /\ conn'[c].ctx = conn[c].ctx /\ conn'[c].handle = conn[c].handle
          /\ conn'[c].watch = conn[c].watch
          /\ \A d \in Client \ {c} : conn'[d] = conn[d]
      BY <2>1, <2>2, GoesTo DEF ServerInv
    <2>4. UNCHANGED <<flag, trigger, listener, queue, idle, exited, sock, cancelled, tx, holder, asleep>>
      BY <2>1 DEF pool, database
    <2>5. Typed'
      BY <2>3, <2>4 DEF ServerInv, Typed
    <2>6. Only(c)
      BY <2>3, <2>4 DEF Only
    <2>7. SlotsRight(c)' /\ Owned(c)'
      BY <1>1, <1>3, <2>3, <2>4 DEF ServerInv, SlotsRight, Owned, Outside, Served
    <2>8. ServerInv'
      BY <1>1, <2>2, <2>3, <2>4, <2>5, <2>6, <2>7, Within
    <2>9. CommitsCareful(c) => CommitsCareful(c)'
      BY <2>3, <2>4 DEF CommitsCareful
    <2>10. LockOwned => LockOwned'
      BY <2>4 DEF LockOwned
    <2>11. QED
      BY <2>6, <2>8, <2>9, <2>10, Careful DEF CarefulInv
  <1>4. QED
    BY <1>2, <1>3 DEF Wait

(* A connection that goes on with another record, on the way to a statement. *)
LEMMA OnTheWay ==
  ASSUME ServerInv, NEW c \in Client, NEW k \in ConnType, conn' = [conn EXCEPT ![c] = k],
         conn[c].at \in Served, k.at \in Served,
         UNCHANGED <<pool, database>>,
         sock' \in [Client -> SockType], cancelled' \in [Client -> SUBSET Nat],
         \A d \in Client \ {c} : sock'[d] = sock[d] /\ cancelled'[d] = cancelled[d],
         c \in asleep => k.at = "run",
         SlotsRight(c)'
  PROVE  /\ ServerInv'
         /\ CarefulInv /\ CommitsCareful(c)' => CarefulInv'
  <1>1. conn'[c] = k /\ \A d \in Client \ {c} : conn'[d] = conn[d]
    BY DEF ServerInv, Typed
  <1>2. UNCHANGED <<flag, trigger, listener, queue, idle, exited, tx, holder, asleep>>
    BY DEF pool, database
  <1>3. Typed'
    BY <1>2 DEF ServerInv, Typed
  <1>4. Only(c)
    BY <1>1, <1>2 DEF Only
  <1>5. Owned(c)'
    BY <1>1, <1>2 DEF Owned
  <1>6. ServerInv'
    BY <1>1, <1>2, <1>3, <1>4, <1>5, Within
  <1>7. LockOwned => LockOwned'
    BY <1>2 DEF LockOwned
  <1>8. QED
    BY <1>4, <1>6, <1>7, Careful DEF CarefulInv

(* A frame that is no request, or no whole one, ends the connection. *)
LEMMA ReadInv ==
  ASSUME ServerInv, NEW c \in Client, Read(c)
  PROVE  ServerInv' /\ (CarefulInv => CarefulInv')
  <1>1. conn[c].at = "read" /\ c \notin asleep
    BY DEF Read, At, ServerInv, Owned
  <1>2. sock[c].unread \in Frame
    BY <1>1 DEF ServerInv, SlotsRight, Typed, SockType
  <1>3. CASE Leave(c)
    BY <1>1, <1>3, LeaveInv
  <1>4. CASE sock[c].unread \in Control \cup Work
    <2> DEFINE w == sock[c].unread
               j == [conn[c] EXCEPT !.at = "spawn"]
               k == [j EXCEPT !.stmt = w]
               n == [sock[c] EXCEPT !.unread = "none"]
    <2>1. /\ conn' = [conn EXCEPT ![c].at = "spawn", ![c].stmt = w]
          /\ sock' = [sock EXCEPT ![c].unread = "none"]
          /\ UNCHANGED <<pool, cancelled, database>>
      BY <1>4 DEF Read, Control, Work
    <2>2. "spawn" \in Places /\ "spawn" \in Served /\ "read" \in Served
      BY DEF Places, Served
    <2>3. conn[c] \in ConnType /\ sock[c] \in SockType
      BY DEF ServerInv, Typed
    <2>4. j \in ConnType /\ j.at = "spawn" /\ j.slot = conn[c].slot /\ j.watch = conn[c].watch
      BY <2>2, <2>3, NewAt
    <2>5. conn' = [conn EXCEPT ![c] = k]
      BY <2>1 DEF ServerInv, Typed
    <2> HIDE DEF j
    <2>6. k \in ConnType /\ k.at = "spawn" /\ k.slot = conn[c].slot /\ k.watch = conn[c].watch
          /\ k.stmt = w
      BY <1>4, <2>4, NewStmt
    <2> HIDE DEF k
    <2>7. n \in SockType /\ n.unread = "none" /\ sock' = [sock EXCEPT ![c] = n]
      BY <2>1, <2>3 DEF SockType, ServerInv, Typed
    <2> HIDE DEF n
    <2>8. /\ sock' \in [Client -> SockType] /\ sock'[c] = n
          /\ \A d \in Client \ {c} : sock'[d] = sock[d]
          /\ cancelled' \in [Client -> SUBSET Nat] /\ cancelled' = cancelled
          /\ conn'[c] = k
      <3>1. /\ sock \in [Client -> SockType] /\ conn \in [Client -> ConnType]
            /\ cancelled \in [Client -> SUBSET Nat]
        BY DEF ServerInv, Typed
      <3>2. sock' \in [Client -> SockType] /\ sock'[c] = n
            /\ \A d \in Client \ {c} : sock'[d] = sock[d]
        BY <2>7, <3>1
      <3>3. cancelled' = cancelled /\ conn'[c] = k
        BY <2>1, <2>5, <3>1
      <3>4. QED
        BY <3>1, <3>2, <3>3
    <2>9. SlotsRight(c)'
      BY <1>1, <2>6, <2>8 DEF ServerInv, SlotsRight, Outside
    <2>10. CommitsCareful(c) => CommitsCareful(c)'
      BY <1>1, <2>1, <2>6, <2>7, <2>8 DEF CommitsCareful, database
    <2>11. UNCHANGED <<pool, database>> /\ (c \in asleep => k.at = "run")
      BY <1>1, <2>1
    <2>12. \A d \in Client \ {c} : sock'[d] = sock[d] /\ cancelled'[d] = cancelled[d]
      BY <2>8
    <2>13. conn[c].at \in Served /\ k.at \in Served
      BY <1>1, <2>2, <2>6
    <2> HIDE DEF w
    <2>14. ServerInv' /\ (CarefulInv /\ CommitsCareful(c)' => CarefulInv')
      BY <2>5, <2>6, <2>8, <2>9, <2>11, <2>12, <2>13, OnTheWay
    <2>15. QED
      BY <2>10, <2>14 DEF CarefulInv
  <1>5. QED
    BY <1>2, <1>3, <1>4 DEF Read, Frame

(* The watcher of a statement knows the slot that the statement will use. *)
LEMMA SpawnInv ==
  ASSUME ServerInv, NEW c \in Client, Spawn(c)
  PROVE  ServerInv' /\ (CarefulInv => CarefulInv')
  <1>1. /\ conn[c].at = "spawn" /\ c \notin asleep
        /\ UNCHANGED <<pool, sock, cancelled, database>>
    BY DEF Spawn, At, ServerInv, Owned
  <1>2. PICK watch \in {"on", "off"} :
           conn' = [conn EXCEPT ![c].at = "take", ![c].handle = conn[c].slot, ![c].watch = watch]
    BY DEF Spawn
  <1> DEFINE i == [conn[c] EXCEPT !.at = "take"]
             j == [i EXCEPT !.handle = conn[c].slot]
             k == [j EXCEPT !.watch = watch]
  <1>3. "take" \in Places /\ "take" \in Served /\ "spawn" \in Served /\ watch \in Watching
    BY DEF Places, Served, Watching
  <1>4. conn[c] \in ConnType /\ conn[c].slot \in Nat
    BY DEF ServerInv, Typed, ConnType
  <1>5. i \in ConnType /\ i.at = "take" /\ i.slot = conn[c].slot /\ i.stmt = conn[c].stmt
    BY <1>3, <1>4, NewAt
  <1>6. conn' = [conn EXCEPT ![c] = k]
    BY <1>2 DEF ServerInv, Typed
  <1> HIDE DEF i
  <1>7. /\ j \in ConnType /\ j.at = "take" /\ j.slot = conn[c].slot /\ j.stmt = conn[c].stmt
        /\ j.handle = conn[c].slot
    BY <1>4, <1>5, NewHandle
  <1> HIDE DEF j
  <1>8. /\ k \in ConnType /\ k.at = "take" /\ k.slot = conn[c].slot /\ k.stmt = conn[c].stmt
        /\ k.handle = conn[c].slot /\ k.watch # "fired"
    BY <1>3, <1>7, NewWatch
  <1> HIDE DEF k
  <1>9. conn'[c] = k /\ sock' \in [Client -> SockType] /\ cancelled' \in [Client -> SUBSET Nat]
        /\ sock' = sock /\ cancelled' = cancelled /\ tx' = tx
    BY <1>1, <1>6 DEF ServerInv, Typed, database
  <1>10. SlotsRight(c)'
    <2>1. \A s \in cancelled[c] : s \in Nat /\ s < conn[c].slot
      BY <1>1 DEF ServerInv, SlotsRight, Typed
    <2>2. conn[c].slot \notin cancelled[c] /\ \A s \in cancelled[c] : s <= conn[c].slot
      BY <1>4, <2>1
    <2>3. QED
      BY <1>8, <1>9, <2>2 DEF SlotsRight, Outside
  <1>11. CommitsCareful(c) => CommitsCareful(c)'
    BY <1>1, <1>8, <1>9 DEF CommitsCareful
  <1>12. QED
    BY <1>1, <1>3, <1>6, <1>8, <1>9, <1>10, <1>11, OnTheWay DEF CarefulInv

(* The slot that a statement has taken is not the connection's any more. *)
LEMMA TakeSlotInv ==
  ASSUME ServerInv, NEW c \in Client, TakeSlot(c)
  PROVE  ServerInv' /\ (CarefulInv => CarefulInv')
  <1>1. /\ conn[c].at = "take" /\ c \notin asleep
        /\ conn' = [conn EXCEPT ![c].at = "parsed", ![c].ctx = conn[c].slot, ![c].slot = @ + 1]
        /\ UNCHANGED <<pool, sock, cancelled, database>>
    BY DEF TakeSlot, UseSlot, At, ServerInv, Owned
  <1> DEFINE i == [conn[c] EXCEPT !.at = "parsed"]
             j == [i EXCEPT !.ctx = conn[c].slot]
             k == [j EXCEPT !.slot = conn[c].slot + 1]
  <1>2. "take" \in Served /\ "parsed" \in Served /\ "parsed" \in Places
    BY DEF Places, Served
  <1>3. conn[c] \in ConnType /\ conn[c].slot \in Nat /\ conn[c].slot + 1 \in Nat
    BY DEF ServerInv, Typed, ConnType
  <1>4. /\ i \in ConnType /\ i.at = "parsed" /\ i.slot = conn[c].slot /\ i.stmt = conn[c].stmt
        /\ i.handle = conn[c].handle /\ i.watch = conn[c].watch
    BY <1>2, <1>3, NewAt
  <1>5. /\ j \in ConnType /\ j.at = "parsed" /\ j.slot = conn[c].slot /\ j.stmt = conn[c].stmt
        /\ j.handle = conn[c].handle /\ j.watch = conn[c].watch /\ j.ctx = conn[c].slot
    <2> HIDE DEF i
    <2>1. QED
      BY <1>3, <1>4, NewCtx
  <1>6. conn' = [conn EXCEPT ![c] = k]
    <2>1. conn' = [conn EXCEPT ![c] = [j EXCEPT !.slot = @ + 1]]
      BY <1>1 DEF ServerInv, Typed
    <2>2. [j EXCEPT !.slot = @ + 1] = k
      BY <1>5
    <2>3. QED
      BY <2>1, <2>2
  <1> HIDE DEF i, j
  <1>7. /\ k \in ConnType /\ k.at = "parsed" /\ k.slot = conn[c].slot + 1 /\ k.stmt = conn[c].stmt
        /\ k.handle = conn[c].handle /\ k.watch = conn[c].watch /\ k.ctx = conn[c].slot
    BY <1>3, <1>5, NewSlot
  <1> HIDE DEF k
  <1>8. conn'[c] = k /\ sock' \in [Client -> SockType] /\ cancelled' \in [Client -> SUBSET Nat]
        /\ sock' = sock /\ cancelled' = cancelled /\ tx' = tx
    BY <1>1, <1>6 DEF ServerInv, Typed, database
  <1>9. SlotsRight(c)'
    BY <1>1, <1>7, <1>8 DEF ServerInv, SlotsRight, Outside
  <1>10. CommitsCareful(c) => CommitsCareful(c)'
    BY <1>1, <1>7, <1>8 DEF CommitsCareful
  <1>11. QED
    BY <1>1, <1>2, <1>6, <1>7, <1>8, <1>9, <1>10, OnTheWay DEF CarefulInv

(* An answer that is written, or has been, leaves the slot that has been put *)
(* in place.                                                                 *)
LEMMA AnsweredInv ==
  ASSUME ServerInv, NEW c \in Client, NEW place \in {"wait", "write"}, Answered(c, place),
         conn[c].at \in {"stop", "write"}
  PROVE  ServerInv' /\ (CarefulInv => CarefulInv')
  <1> DEFINE j == Disconnected(place)
             k == [j EXCEPT !.slot = conn[c].slot]
  <1>1. place \in Places /\ place \in Served /\ conn[c].at \in Served /\ c \notin asleep
    BY DEF Places, Served, ServerInv, Owned
  <1>2. j \in ConnType /\ j.at = place /\ j.stmt = "none" /\ j.watch = "off"
    BY <1>1, NotServed
  <1>3. conn[c].slot \in Nat /\ conn[c].ctx \in Nat
    BY DEF ServerInv, Typed, ConnType
  <1>4. conn' = [conn EXCEPT ![c] = k] /\ UNCHANGED <<pool, sock, cancelled, database>>
    BY DEF Answered
  <1> HIDE DEF j
  <1>5. k \in ConnType /\ k.at = place /\ k.slot = conn[c].slot /\ k.stmt = "none" /\ k.watch = "off"
    BY <1>2, <1>3, NewSlot
  <1> HIDE DEF k
  <1>6. conn'[c] = k /\ sock' \in [Client -> SockType] /\ cancelled' \in [Client -> SUBSET Nat]
        /\ sock' = sock /\ cancelled' = cancelled /\ tx' = tx
    BY <1>4 DEF ServerInv, Typed, database
  <1>7. \A s \in cancelled[c] : s < conn[c].slot
    <2>1. CASE conn[c].at = "write"
      BY <2>1 DEF ServerInv, SlotsRight
    <2>2. CASE conn[c].at = "stop"
      <3>1. \A s \in cancelled[c] : s \in Nat /\ s <= conn[c].ctx
        BY <2>2 DEF ServerInv, SlotsRight, Typed
      <3>2. conn[c].slot = conn[c].ctx + 1
        BY <2>2 DEF ServerInv, SlotsRight
      <3>3. QED
        BY <1>3, <3>1, <3>2
    <2>3. QED
      BY <2>1, <2>2
  <1>8. SlotsRight(c)'
    BY <1>5, <1>6, <1>7 DEF SlotsRight, Outside
  <1>9. CommitsCareful(c) => CommitsCareful(c)'
    BY <1>5, <1>6 DEF CommitsCareful
  <1>10. UNCHANGED <<pool, database>>
    BY <1>4
  <1>11. ServerInv' /\ (CarefulInv /\ CommitsCareful(c)' => CarefulInv')
    BY <1>1, <1>4, <1>5, <1>6, <1>8, <1>10, OnTheWay
  <1>12. QED
    BY <1>9, <1>11 DEF CarefulInv

(* After the answer, or while it is written, the connection stays or is gone. *)
LEMMA AnswerInv ==
  ASSUME ServerInv, NEW c \in Client, Answer(c) \/ ReadAnswer(c) \/ WriteFails(c)
  PROVE  ServerInv' /\ (CarefulInv => CarefulInv')
  <1>1. conn[c].at \in {"stop", "write"} /\ c \notin asleep
    BY DEF Answer, ReadAnswer, WriteFails, At, ServerInv, Owned
  <1>2. CASE Leave(c)
    BY <1>1, <1>2, LeaveInv
  <1>3. ASSUME NEW place \in {"wait", "write"}, Answered(c, place)
        PROVE  ServerInv' /\ (CarefulInv => CarefulInv')
    BY <1>1, <1>3, AnsweredInv
  <1>4. QED
    BY <1>2, <1>3 DEF Answer, ReadAnswer, WriteFails

(* A watcher sets the flag of its own statement's slot, once. *)
LEMMA WatcherInv ==
  ASSUME ServerInv, NEW c \in Client, Watcher(c)
  PROVE  ServerInv' /\ (CarefulInv => CarefulInv')
  <1>1. conn[c].watch = "on"
    BY DEF Watcher, WatcherFires, WatcherStops
  <1>2. conn[c] \in ConnType /\ conn[c].handle \in Nat /\ conn[c].slot \in Nat /\ conn[c].ctx \in Nat
    BY DEF ServerInv, Typed, ConnType
  <1>3. conn[c].at \in {"take", "parsed", "run", "stop"}
    BY <1>1, <1>2 DEF ServerInv, SlotsRight, ConnType, Places, Outside, Served
  <1>4. conn[c].at \in Served
    BY <1>3 DEF Served
  <1>5. PICK w \in {"off", "fired"} :
           /\ conn' = [conn EXCEPT ![c].watch = w]
           /\ w = "fired" => cancelled' = [cancelled EXCEPT ![c] = @ \cup {conn[c].handle}]
           /\ w = "off" => cancelled' = cancelled
    BY DEF Watcher, WatcherFires, WatcherStops
  <1>6. UNCHANGED <<pool, sock, database>>
    BY DEF Watcher, WatcherFires, WatcherStops
  <1> DEFINE k == [conn[c] EXCEPT !.watch = w]
  <1>7. conn' = [conn EXCEPT ![c] = k]
    BY <1>5 DEF ServerInv, Typed
  <1>8. /\ k \in ConnType /\ k.at = conn[c].at /\ k.slot = conn[c].slot /\ k.stmt = conn[c].stmt
        /\ k.ctx = conn[c].ctx /\ k.handle = conn[c].handle /\ k.watch = w
    <2>1. w \in Watching
      BY <1>5 DEF Watching
    <2>2. QED
      BY <1>2, <2>1, NewWatch
  <1> HIDE DEF k
  <1>9. /\ cancelled' \in [Client -> SUBSET Nat]
        /\ \A d \in Client \ {c} : cancelled'[d] = cancelled[d]
        /\ w = "fired" => cancelled'[c] = cancelled[c] \cup {conn[c].handle}
        /\ w = "off" => cancelled'[c] = cancelled[c]
    BY <1>2, <1>5 DEF ServerInv, Typed
  <1>10. conn'[c] = k /\ sock' \in [Client -> SockType] /\ sock' = sock /\ tx' = tx
    BY <1>6, <1>7 DEF ServerInv, Typed, database
  <1>11. SlotsRight(c)'
    <2>1. CASE conn[c].at = "take"
      BY <1>1, <1>2, <1>5, <1>8, <1>9, <1>10, <2>1 DEF ServerInv, SlotsRight, Outside
    <2>2. CASE conn[c].at \in {"parsed", "run", "stop"}
      BY <1>1, <1>2, <1>5, <1>8, <1>9, <1>10, <2>2 DEF ServerInv, SlotsRight, Outside
    <2>3. QED
      BY <1>3, <2>1, <2>2
  <1>12. CommitsCareful(c) => CommitsCareful(c)'
    BY <1>8, <1>10 DEF CommitsCareful
  <1>13. c \in asleep => k.at = "run"
    BY <1>8 DEF ServerInv, Owned
  <1>14. UNCHANGED <<pool, database>>
    BY <1>6
  <1>15. ServerInv' /\ (CarefulInv /\ CommitsCareful(c)' => CarefulInv')
    BY <1>4, <1>7, <1>8, <1>9, <1>10, <1>11, <1>13, <1>14, OnTheWay
  <1>16. QED
    BY <1>12, <1>15 DEF CarefulInv

------------------------------------------------------------------------------
(* The theorems.                                                           *)

(* Every step of a connection's worker. *)
LEMMA ServeInv ==
  ASSUME ServerInv, NEW c \in Client, Serve(c)
  PROVE  ServerInv' /\ (CarefulInv => CarefulInv')
  <1>1. CASE Wait(c)
    BY <1>1, WaitInv
  <1>2. CASE Read(c)
    BY <1>2, ReadInv
  <1>3. CASE Spawn(c)
    BY <1>3, SpawnInv
  <1>4. CASE TakeSlot(c)
    BY <1>4, TakeSlotInv
  <1>5. CASE Begin(c) \/ Commit(c) \/ Rollback(c)
    BY <1>5, ControlInv
  <1>6. CASE Refuse(c) \/ Check(c)
    BY <1>6, CheckInv
  <1>7. CASE RunStatement(c)
    BY <1>7, RunStatementInv
  <1>8. CASE Sleep(c)
    BY <1>8, SleepInv
  <1>9. CASE Answer(c) \/ WriteFails(c)
    BY <1>9, AnswerInv
  <1>10. QED
    BY <1>1, <1>2, <1>3, <1>4, <1>5, <1>6, <1>7, <1>8, <1>9 DEF Serve

(* Every step keeps ServerInv; where clients are careful, CarefulInv too. *)
LEMMA ServerInvNext ==
  ASSUME ServerInv, [Next]_vars
  PROVE  ServerInv' /\ (~ CarelessCommits /\ CarefulInv => CarefulInv')
  <1>1. CASE UNCHANGED vars
    <2>1. Typed' /\ QueueRight' /\ WorkersCounted'
      BY <1>1 DEF vars, ServerInv, Typed, QueueRight, Queued, WorkersCounted, Serving
    <2>2. QED
      BY <1>1, <2>1, NobodyNotices DEF vars
  <1>2. ASSUME NEW c \in Client, Connect(c) PROVE ServerInv' /\ (CarefulInv => CarefulInv')
    BY <1>2, ConnectInv
  <1>3. ASSUME NEW c \in Client, Close(c)
        PROVE  ServerInv' /\ (~ CarelessCommits /\ CarefulInv => CarefulInv')
    <2>1. "begin" \in Frame
      BY DEF Frame, Control
    <2>2. QED
      BY <1>3, <2>1, ClientInv
  <1>4. ASSUME NEW c \in Client, NEW frame \in Frame, Send(c, frame) \/ Complete(c, frame)
        PROVE  ServerInv' /\ (~ CarelessCommits /\ CarefulInv => CarefulInv')
    BY <1>4, ClientInv
  <1>5. ASSUME NEW c \in Client, Serve(c) PROVE ServerInv' /\ (CarefulInv => CarefulInv')
    BY <1>5, ServeInv
  <1>6. ASSUME NEW c \in Client, Watcher(c) PROVE ServerInv' /\ (CarefulInv => CarefulInv')
    BY <1>6, WatcherInv
  <1>7. ASSUME NEW c \in Client, Accept(c) PROVE ServerInv' /\ (CarefulInv => CarefulInv')
    BY <1>7, AcceptInv
  <1>8. CASE Trigger \/ SelfConnect \/ AcceptSelf \/ AcceptFails \/ Flush
    BY <1>8, LoopInv
  <1>9. CASE Take
    BY <1>9, TakeInv
  <1>10. CASE Exit
    BY <1>10, ExitInv
  <1>11. CASE Finished
    BY <1>1, <1>11 DEF Finished
  <1>12. ASSUME NEW c \in Client, ReadAnswer(c) PROVE ServerInv' /\ (CarefulInv => CarefulInv')
    BY <1>12, AnswerInv
  <1>13. QED
    BY <1>1, <1>2, <1>3, <1>4, <1>5, <1>6, <1>7, <1>8, <1>9, <1>10, <1>11, <1>12
    DEF Next, AcceptLoop

(* In every reachable state, whatever clients send. *)
THEOREM ServerIsSound == Spec => []ServerInv
  BY ServerInvInit, ServerInvNext, PTL DEF Spec

(* The same of clients that do not commit before the answers have come. *)
THEOREM CarefulClientsKeepLocksOwned ==
  ASSUME ~ CarelessCommits
  PROVE  Spec => [](ServerInv /\ CarefulInv)
  <1>1. Init => ServerInv /\ CarefulInv
    BY ServerInvInit
  <1>2. (ServerInv /\ CarefulInv) /\ [Next]_vars => (ServerInv /\ CarefulInv)'
    BY ServerInvNext
  <1>3. QED
    BY <1>1, <1>2, PTL DEF Spec

(* Every variable of the server has its type, and every worker of the pool   *)
(* is accounted for: worker_loop never loses one and serves no two           *)
(* connections at once.                                                      *)
THEOREM EveryWorkerIsSomewhere == Spec => []TypeOK
  <1>1. ServerInv => TypeOK
    <2> SUFFICES ASSUME ServerInv PROVE TypeOK
      OBVIOUS
    <2>1. IsFiniteSet(Serving) /\ Cardinality(Serving) \in Nat
      BY FS_CardinalityType DEF ServerInv, WorkersCounted
    <2>2. idle + exited + Cardinality(Serving) = Workers /\ idle \in Nat /\ exited \in Nat
      BY DEF ServerInv, WorkersCounted, Typed
    <2>3. Workers \in Nat
      BY BoundsAssumption
    <2>4. idle \in 0..Workers /\ exited \in 0..Workers
      BY <2>1, <2>2, <2>3
    <2>5. idle + exited + Cardinality({c \in Client : conn[c].at \in Served}) = Workers
      BY <2>2 DEF Serving
    <2>6. \A c \in Client : /\ conn[c].at \in Outside \cup {"queued"} \cup Served
                            /\ conn[c].at = "queued" <=> \E i \in DOMAIN queue : queue[i] = c
      BY DEF ServerInv, Typed, ConnType, Places, QueueRight, Queued
    <2>7. Len(queue) <= QueueCapacity /\ queue \in Seq(Client)
      BY DEF ServerInv, Typed, QueueRight
    <2>8. /\ tx \in [Client -> {"none", "active", "failed"}]
          /\ holder \in Client \cup {Nobody} /\ asleep \subseteq Client
      BY DEF ServerInv, Typed
    <2>9. QED
      BY <2>4, <2>5, <2>6, <2>7, <2>8 DEF TypeOK
  <1>2. QED
    BY <1>1, ServerIsSound, PTL

(* Where clients wait for answers before they commit, Session::drop, commit  *)
(* and rollback leave no lock to a transaction that nobody can end.          *)
THEOREM LocksAlwaysHaveOwners ==
  ASSUME ~ CarelessCommits
  PROVE  Spec => []LocksHaveOwners
  <1>1. ServerInv /\ CarefulInv => LocksHaveOwners
    BY DEF ServerInv, CarefulInv, LockOwned, Owned, Typed, LocksHaveOwners
  <1>2. QED
    BY <1>1, CarefulClientsKeepLocksOwned, PTL

(* Server::run flushes the database after the last thread that could change  *)
(* anything has gone, and after the last transaction.                        *)
THEOREM NobodyAfterTheFlush ==
  ASSUME ~ CarelessCommits
  PROVE  Spec => []FlushedLast
  <1>1. ServerInv /\ CarefulInv => FlushedLast
    <2> SUFFICES ASSUME ServerInv, CarefulInv, listener = "flushed" PROVE FlushedLast
      BY DEF FlushedLast
    <2>1. exited = Workers /\ exited \in Nat /\ idle \in Nat /\ Workers \in Nat /\ Workers > 0
      BY BoundsAssumption DEF ServerInv, QueueRight, Typed
    <2>2. queue = <<>>
      BY <2>1 DEF ServerInv, QueueRight
    <2>3. IsFiniteSet(Serving) /\ Cardinality(Serving) \in Nat
      BY FS_CardinalityType DEF ServerInv, WorkersCounted
    <2>4. idle + exited + Cardinality(Serving) = Workers
      BY DEF ServerInv, WorkersCounted
    <2>5. Cardinality(Serving) = 0
      BY <2>1, <2>3, <2>4
    <2>6. Serving = {}
      BY <2>3, <2>5, FS_EmptySet
    <2>7. \A c \in Client : conn[c].at \notin Served
      BY <2>6 DEF Serving
    <2>8. \A c \in Client : tx[c] = "none" /\ c \notin asleep
      <3>1. "run" \in Served
        BY DEF Served
      <3>2. QED
        BY <2>7, <3>1 DEF ServerInv, Owned
    <2>9. holder = Nobody /\ asleep = {}
      BY <2>8 DEF CarefulInv, LockOwned, ServerInv, Typed
    <2>10. QED
      BY <2>2, <2>7, <2>8, <2>9 DEF FlushedLast
  <1>2. QED
    BY <1>1, CarefulClientsKeepLocksOwned, PTL

(* A statement that selects or changes leaves the place where it has been    *)
(* parsed by the check of its cancel flag and by nothing else.               *)
LEMMA OnlyCheckMoves ==
  ASSUME ServerInv, Next, NEW c \in Client,
         conn[c].at = "parsed", conn[c].stmt \in Work, conn'[c].at # "parsed"
  PROVE  Check(c)
  <1>1. conn \in [Client -> ConnType]
    BY DEF ServerInv, Typed
  <1>2. ASSUME NEW d \in Client, Connect(d) PROVE FALSE
    BY <1>1, <1>2 DEF Connect, At, Goes
  <1>3. ASSUME NEW d \in Client, Close(d) PROVE FALSE
    BY <1>3 DEF Close
  <1>4. ASSUME NEW d \in Client, NEW frame \in Frame, Send(d, frame) \/ Complete(d, frame)
        PROVE  FALSE
    BY <1>4 DEF Send, Complete
  <1>5. ASSUME NEW d \in Client, Wait(d) \/ Read(d) PROVE FALSE
    <2>1. CASE Wait(d)
      BY <1>1, <2>1 DEF Wait, At, Leave, Closes, Stays, Goes
    <2>2. CASE Read(d)
      <3>1. conn[d].at = "read" /\ sock[d].unread \in Frame
        BY <2>2 DEF Read, At, ServerInv, SlotsRight, Typed, SockType
      <3>2. conn'[c] = conn[c]
        BY <1>1, <2>2, <3>1 DEF Read, Leave, Closes, Frame
      <3>3. QED
        BY <3>2
    <2>3. QED
      BY <1>5, <2>1, <2>2
  <1>6. ASSUME NEW d \in Client, Spawn(d) \/ TakeSlot(d) PROVE FALSE
    BY <1>1, <1>6 DEF Spawn, TakeSlot, UseSlot, At
  <1>7. ASSUME NEW d \in Client, Begin(d) \/ Commit(d) \/ Rollback(d) \/ Refuse(d) PROVE FALSE
    BY <1>1, <1>7 DEF Begin, Commit, Rollback, Refuse, Parsed, At, Goes, Stays, Work
  <1>8. ASSUME NEW d \in Client, Check(d) PROVE d = c
    BY <1>1, <1>8 DEF Check, Stays, Goes
  <1>9. ASSUME NEW d \in Client,
               RunStatement(d) \/ Sleep(d) \/ Answer(d) \/ ReadAnswer(d) \/ WriteFails(d)
        PROVE  FALSE
    BY <1>1, <1>9 DEF RunStatement, Sleep, Answer, ReadAnswer, WriteFails, Answered, Attempts, At,
                      Goes, Leave, Closes
  <1>10. ASSUME NEW d \in Client, Watcher(d) PROVE FALSE
    BY <1>1, <1>10 DEF Watcher, WatcherFires, WatcherStops, ConnType
  <1>11. ASSUME NEW d \in Client, Accept(d) PROVE FALSE
    BY <1>1, <1>11 DEF Accept, Closes, Goes
  <1>12. CASE Trigger \/ SelfConnect \/ AcceptSelf \/ AcceptFails \/ Flush \/ Exit \/ Finished
    BY <1>12 DEF Trigger, SelfConnect, AcceptSelf, AcceptFails, Flush, Exit, Finished, vars
  <1>13. CASE Take
    <2>1. queue \in Seq(Client) /\ queue # <<>> /\ Goes(Head(queue), "wait")
      BY <1>13 DEF Take, ServerInv, Typed
    <2>2. Head(queue) = queue[1] /\ 1 \in DOMAIN queue /\ queue[1] \in Client
      BY <2>1
    <2>3. conn[queue[1]].at = "queued"
      BY <2>2 DEF ServerInv, QueueRight, Queued
    <2>4. QED
      BY <1>1, <2>1, <2>2, <2>3 DEF Goes
  <1>14. QED
    BY <1>2, <1>3, <1>4, <1>5, <1>6, <1>7, <1>8, <1>9, <1>10, <1>11, <1>12, <1>13
    DEF Next, AcceptLoop, Serve

(* cancellation_handle and new_execution_context keep the flags of a         *)
(* connection's statements apart: a statement is stopped by its own watcher, *)
(* and whenever that has fired in time.                                      *)
THEOREM WatchersCancelTheirStatements == Spec => CancelsItsStatement
  <1>1. ServerInv /\ [Next]_vars =>
           [\A c \in Client :
               (conn[c].at = "parsed" /\ conn[c].stmt \in Work /\ conn'[c].at # "parsed") =>
                   (conn'[c].at = "stop" <=> conn[c].watch = "fired")]_vars
    <2> SUFFICES ASSUME ServerInv, Next, NEW c \in Client,
                        conn[c].at = "parsed", conn[c].stmt \in Work, conn'[c].at # "parsed"
                 PROVE  conn'[c].at = "stop" <=> conn[c].watch = "fired"
      OBVIOUS
    <2>1. Check(c)
      BY OnlyCheckMoves
    <2>2. conn'[c].at = IF Cancelled(c) THEN "stop" ELSE "run"
      BY <2>1 DEF Check, Stays, Goes, ServerInv, Typed, ConnType
    <2>3. Cancelled(c) <=> conn[c].watch = "fired"
      BY DEF Cancelled, ServerInv, SlotsRight
    <2>4. QED
      BY <2>2, <2>3
  <1>2. QED
    BY <1>1, ServerIsSound, PTL DEF Spec, CancelsItsStatement
=============================================================================
