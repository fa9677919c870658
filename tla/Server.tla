-------------------------------- MODULE Server --------------------------------
(***************************************************************************)
(* The TCP server: server.rs, thread_pool.rs, the control of session.rs,   *)
(* cancellation.rs and SharedDatabase (directory src/src).                 *)
(*                                                                         *)
(* The accept loop hands connections to a bounded queue, workers take them *)
(* from it and serve each to its end: wait for a frame, read it, execute   *)
(* it in the connection's session while a watcher looks for a disconnect,  *)
(* answer.  Shutdown raises a flag, wakes the accept loop by a connection  *)
(* of its own, waits for the workers and flushes the database.             *)
(*                                                                         *)
(* The database is one lock that updates need (what statements lock is the *)
(* subject of module Transactions).  Clients do whatever they like.        *)
(***************************************************************************)
EXTENDS Naturals, FiniteSets, Sequences

CONSTANTS
    Client,          \* clients; each connects once
    Workers,         \* number of worker threads, which are not told apart
    QueueCapacity,   \* connections that wait for a worker
    Sends,           \* <<client, n, frame>> triples: a client's possible n-th frames
    CarelessCommits  \* TRUE: clients send COMMIT without waiting for answers

ASSUME BoundsAssumption == {Workers, QueueCapacity} \subseteq Nat \ {0}
ASSUME ClientsAssumption == CarelessCommits \in BOOLEAN

VARIABLES
    flag,      \* Server::shutdown
    trigger,   \* the self-connection: "none", "flagged", "connecting", "done"
    listener,  \* Server::run: "accepting", "joining", "flushed" or "failed"
    queue,     \* the channel of the WorkerPool
    idle,      \* workers in recv
    exited,    \* workers whose thread has ended
    sock,      \* the client's end of each connection
    conn,      \* the server's end
    cancelled, \* the ExecutionSlots whose cancel_flag is set
    tx,        \* Session::tx: "none", "active" or "failed"
    holder,    \* whose transaction holds the lock
    asleep     \* connections whose worker is in Condvar::wait

vars == <<flag, trigger, listener, queue, idle, exited, sock, conn, cancelled, tx, holder, asleep>>

Nobody == "nobody"

Control == {"begin", "commit", "rollback", "refused"}
Work    == {"select", "update", "fail"}
Frame   == Control \cup Work \cup {"partial", "garbage"}

Outside == {"away", "backlog", "closed"}
Served  == {"wait", "read", "spawn", "take", "parsed", "run", "stop", "write"}

NewSocket == [open |-> TRUE, unread |-> "none", sent |-> 0]

Disconnected(place) ==
    [at |-> place, stmt |-> "none", slot |-> 0, ctx |-> 0, handle |-> 0, watch |-> "off"]

Init ==
    /\ flag = FALSE
    /\ trigger = "none"
    /\ listener = "accepting"
    /\ queue = <<>>
    /\ idle = Workers /\ exited = 0
    /\ sock = [c \in Client |-> NewSocket]
    /\ conn = [c \in Client |-> Disconnected("away")]
    /\ cancelled = [c \in Client |-> {}]
    /\ tx = [c \in Client |-> "none"]
    /\ holder = Nobody
    /\ asleep = {}

Running == listener \in {"accepting", "joining"}

At(c, place) == Running /\ conn[c].at = place

Goes(c, place) == conn' = [conn EXCEPT ![c].at = place]

\* What a connection was is forgotten with it, which only merges states.
Closes(c) ==
    /\ conn' = [conn EXCEPT ![c] = Disconnected("closed")]
    /\ sock' = [sock EXCEPT ![c] = NewSocket]
    /\ cancelled' = [cancelled EXCEPT ![c] = {}]

------------------------------------------------------------------------------
(* Clients.                                                                *)

database == <<tx, holder, asleep>>
pool     == <<flag, trigger, listener, queue, idle, exited>>

Connect(c) ==
    /\ At(c, "away")
    /\ Goes(c, "backlog")
    /\ UNCHANGED <<pool, sock, cancelled, database>>

\* A careful client commits what was answered without an error.
MaySend(c, n, frame) ==
    /\ <<c, n, frame>> \in Sends
    /\ frame = "commit" => \/ CarelessCommits
                           \/ conn[c].at = "wait" /\ tx[c] # "failed"

\* One unread frame at a time; the next may come before the answer.
Send(c, frame) ==
    /\ Running /\ conn[c].at \notin {"away", "closed"} /\ sock[c].open
    /\ sock[c].unread = "none"
    /\ MaySend(c, sock[c].sent + 1, frame)
    /\ sock' = [sock EXCEPT ![c].unread = frame, ![c].sent = @ + 1]
    /\ UNCHANGED <<pool, conn, cancelled, database>>

\* The rest of a frame of which only a part had come.
Complete(c, frame) ==
    /\ Running /\ sock[c].open /\ sock[c].unread = "partial"
    /\ frame # "partial" /\ MaySend(c, sock[c].sent, frame)
    /\ sock' = [sock EXCEPT ![c].unread = frame]
    /\ UNCHANGED <<pool, conn, cancelled, database>>

Close(c) ==
    /\ Running /\ conn[c].at \notin {"away", "closed"} /\ sock[c].open
    /\ sock' = [sock EXCEPT ![c].open = FALSE]
    /\ UNCHANGED <<pool, conn, cancelled, database>>

------------------------------------------------------------------------------
(* Server::run and ShutdownHandle::trigger.                                *)

Trigger ==
    /\ Running /\ trigger = "none"
    /\ flag' = TRUE /\ trigger' = "flagged"
    /\ UNCHANGED <<listener, queue, idle, exited, sock, conn, cancelled, database>>

SelfConnect ==
    /\ Running /\ trigger = "flagged"
    /\ trigger' = "connecting"
    /\ UNCHANGED <<flag, listener, queue, idle, exited, sock, conn, cancelled, database>>

AcceptSelf ==
    /\ listener = "accepting" /\ trigger = "connecting"
    /\ trigger' = "done" /\ listener' = "joining"
    /\ UNCHANGED <<flag, queue, idle, exited, sock, conn, cancelled, database>>

HasRoom == Len(queue) < QueueCapacity

\* A connection that slips in once the flag is up is dropped and ends the
\* loop; one that finds the queue full is answered with an error and closed.
Accept(c) ==
    /\ listener = "accepting" /\ conn[c].at = "backlog"
    /\ IF flag
       THEN Closes(c) /\ listener' = "joining" /\ UNCHANGED queue
       ELSE /\ IF HasRoom
               THEN Goes(c, "queued") /\ queue' = Append(queue, c) /\ UNCHANGED <<sock, cancelled>>
               ELSE Closes(c) /\ UNCHANGED queue
            /\ UNCHANGED listener
    /\ UNCHANGED <<flag, trigger, idle, exited, database>>

\* An error of accept leaves run without joining or flushing.
AcceptFails ==
    /\ listener = "accepting"
    /\ listener' = IF flag THEN "joining" ELSE "failed"
    /\ UNCHANGED <<flag, trigger, queue, idle, exited, sock, conn, cancelled, database>>

\* Fault: the server does not wait for its workers.
DoesNotWait == TRUE

AllJoined == exited = Workers

\* WorkerPool::join has returned: flush, and run returns.
Flush ==
    /\ listener = "joining" /\ AllJoined
    /\ listener' = "flushed"
    /\ UNCHANGED <<flag, trigger, queue, idle, exited, sock, conn, cancelled, database>>

------------------------------------------------------------------------------
(* worker_loop and handle_connection.                                      *)

Take ==
    /\ Running /\ idle > 0 /\ queue # <<>>
    /\ idle' = idle - 1
    /\ queue' = Tail(queue)
    /\ Goes(Head(queue), "wait")
    /\ UNCHANGED <<flag, trigger, listener, exited, sock, cancelled, database>>

\* The sender is dropped once the accept loop has ended.
Exit ==
    /\ listener = "joining" /\ idle > 0 /\ queue = <<>>
    /\ idle' = idle - 1 /\ exited' = exited + 1
    /\ UNCHANGED <<flag, trigger, listener, queue, sock, conn, cancelled, database>>

\* rollback_tx and commit_tx of an active transaction: its locks go, and
\* every sleeping thread is notified.
Ends(c) ==
    /\ tx' = [tx EXCEPT ![c] = "none"]
    /\ holder' = IF holder = c THEN Nobody ELSE holder
    /\ asleep' = {}

\* Fault: a session that goes away leaves its transaction alone.
ForgetSession(c) == tx' = [tx EXCEPT ![c] = "none"] /\ UNCHANGED <<holder, asleep>>

\* Session::drop
DropSession(c) == IF tx[c] = "none" THEN UNCHANGED database ELSE Ends(c)

\* The connection ends: its session is dropped, the worker takes another.
Leave(c) ==
    /\ Closes(c)
    /\ DropSession(c)
    /\ idle' = idle + 1
    /\ UNCHANGED <<flag, trigger, listener, queue, exited>>

Stays(c, place) == Goes(c, place) /\ UNCHANGED <<pool, sock, cancelled, database>>

\* wait_for_request_or_shutdown: a look at the flag, then a peek of at most
\* POLL_INTERVAL; the flag may go up in between.
Wait(c) ==
    /\ At(c, "wait")
    /\ \/ flag /\ Leave(c)
       \/ sock[c].unread # "none" /\ Stays(c, "read")
       \/ sock[c].unread = "none" /\ ~ sock[c].open /\ Leave(c)

\* Fault: the reader retries without a look at the flag.
NeverGivesUp(c) == ~ sock[c].open

GivesUp(c) == ~ sock[c].open \/ flag

\* Request::read through a ShutdownAwareReader.
Read(c) ==
    /\ At(c, "read")
    /\ CASE sock[c].unread = "garbage" -> Leave(c)
         [] sock[c].unread = "partial" -> GivesUp(c) /\ Leave(c)
         [] sock[c].unread \in Control \cup Work ->
               /\ conn' = [conn EXCEPT ![c].at = "spawn", ![c].stmt = sock[c].unread]
               /\ sock' = [sock EXCEPT ![c].unread = "none"]
               /\ UNCHANGED <<pool, cancelled, database>>

\* cancellation_handle and DisconnectWatcher::spawn, which may fail to
\* duplicate the socket.
Spawn(c) ==
    /\ At(c, "spawn")
    /\ \E watch \in {"on", "off"} :
          conn' = [conn EXCEPT ![c].at = "take", ![c].handle = conn[c].slot, ![c].watch = watch]
    /\ UNCHANGED <<pool, sock, cancelled, database>>

\* Fault: the flag is reset at the start of a statement.
ResetSlot(c) ==
    /\ conn' = [conn EXCEPT ![c].at = "parsed", ![c].ctx = conn[c].slot]
    /\ cancelled' = [cancelled EXCEPT ![c] = @ \ {conn[c].slot}]

\* new_execution_context: the slot that is there now is used for this
\* statement, a fresh one is put in its place.
UseSlot(c) ==
    /\ conn' = [conn EXCEPT ![c].at = "parsed", ![c].ctx = conn[c].slot, ![c].slot = @ + 1]
    /\ UNCHANGED cancelled

TakeSlot(c) ==
    /\ At(c, "take")
    /\ UseSlot(c)
    /\ UNCHANGED <<pool, sock, database>>

------------------------------------------------------------------------------
(* Session::execute.                                                       *)

Parsed(c, stmt) == At(c, "parsed") /\ conn[c].stmt = stmt

Begin(c) ==
    /\ Parsed(c, "begin")
    /\ Goes(c, "stop")
    /\ tx' = [tx EXCEPT ![c] = IF @ = "none" THEN "active" ELSE @]
    /\ UNCHANGED <<pool, sock, cancelled, holder, asleep>>

\* The handle is taken out of the session before commit_tx refuses a failed
\* transaction: what that holds, it keeps.
Commit(c) ==
    /\ Parsed(c, "commit")
    /\ Goes(c, "stop")
    /\ CASE tx[c] = "none"   -> UNCHANGED database
         [] tx[c] = "active" -> Ends(c)
         [] tx[c] = "failed" -> /\ tx' = [tx EXCEPT ![c] = "none"]
                                /\ asleep' = {}
                                /\ UNCHANGED holder
    /\ UNCHANGED <<pool, sock, cancelled>>

Rollback(c) ==
    /\ Parsed(c, "rollback")
    /\ Goes(c, "stop")
    /\ IF tx[c] = "none" THEN UNCHANGED database ELSE Ends(c)
    /\ UNCHANGED <<pool, sock, cancelled>>

\* What does not parse or bind, and PREPARE and DEALLOCATE: the transaction
\* does not notice.
Refuse(c) == Parsed(c, "refused") /\ Stays(c, "stop")

Cancelled(c) == conn[c].ctx \in cancelled[c]

\* ctx.cancel.check() before anything is run: the transaction stays active.
Check(c) ==
    /\ \E stmt \in Work : Parsed(c, stmt)
    /\ Stays(c, IF Cancelled(c) THEN "stop" ELSE "run")

\* One attempt of execute_in_tx_bound under the mutex, outside a transaction
\* between a begin_tx and a commit_tx or rollback_tx of its own.  Queries find
\* out that they were cancelled; statements that write do not look.
Attempts(c) == At(c, "run") /\ c \notin asleep

Fails(c) == conn[c].stmt = "fail" \/ (conn[c].stmt = "select" /\ Cancelled(c))

NeedsLock(c) == tx[c] # "failed" /\ conn[c].stmt # "select"

RunStatement(c) ==
    /\ Attempts(c)
    /\ NeedsLock(c) => holder \in {Nobody, c}
    /\ Goes(c, "stop")
    /\ tx' = [tx EXCEPT ![c] = IF @ = "active" /\ Fails(c) THEN "failed" ELSE @]
    /\ holder' = IF NeedsLock(c) /\ tx[c] = "active" THEN c ELSE holder
    /\ asleep' = {}
    /\ UNCHANGED <<pool, sock, cancelled>>

\* WouldBlock: the others are notified, this thread sleeps.
Sleep(c) ==
    /\ Attempts(c)
    /\ NeedsLock(c) /\ holder \notin {Nobody, c}
    /\ asleep' = {c}
    /\ UNCHANGED <<pool, sock, conn, cancelled, tx, holder>>

\* What is left of a statement once its answer is on its way: the slot that
\* was put in place for the next one.
Answered(c, place) ==
    /\ conn' = [conn EXCEPT ![c] = [Disconnected(place) EXCEPT !.slot = conn[c].slot]]
    /\ UNCHANGED <<pool, sock, cancelled, database>>

\* DisconnectWatcher::stop has joined the watcher; the answer is written.  It
\* fits into what the sockets buffer or it does not: writes have no timeout.
\* To a connection that its client has closed the write may fail.
Answer(c) ==
    /\ At(c, "stop") /\ conn[c].watch # "on"
    /\ \/ \E place \in {"wait", "write"} : Answered(c, place)
       \/ ~ sock[c].open /\ Leave(c)

\* A client reads what the server is writing to it.
ReadAnswer(c) == At(c, "write") /\ sock[c].open /\ Answered(c, "wait")

\* A write to a client that has gone.
WriteFails(c) == At(c, "write") /\ ~ sock[c].open /\ Leave(c)

\* watch_for_disconnect: a peek that finds data is not a disconnect.
WatcherFires(c) ==
    /\ Running /\ conn[c].watch = "on"
    /\ ~ sock[c].open /\ sock[c].unread = "none"
    /\ conn' = [conn EXCEPT ![c].watch = "fired"]
    /\ cancelled' = [cancelled EXCEPT ![c] = @ \cup {conn[c].handle}]
    /\ UNCHANGED <<pool, sock, database>>

WatcherStops(c) ==
    /\ Running /\ conn[c].watch = "on" /\ conn[c].at = "stop"
    /\ conn' = [conn EXCEPT ![c].watch = "off"]
    /\ UNCHANGED <<pool, sock, cancelled, database>>

------------------------------------------------------------------------------

AcceptLoop == AcceptSelf \/ (\E c \in Client : Accept(c)) \/ Flush

Serve(c) ==
    \/ Wait(c) \/ Read(c) \/ Spawn(c) \/ TakeSlot(c)
    \/ Begin(c) \/ Commit(c) \/ Rollback(c) \/ Refuse(c) \/ Check(c) \/ RunStatement(c) \/ Sleep(c)
    \/ Answer(c) \/ WriteFails(c)

Watcher(c) == WatcherFires(c) \/ WatcherStops(c)

Finished == ~ Running /\ UNCHANGED vars

Next ==
    \/ \E c \in Client :
          \/ Connect(c) \/ Close(c) \/ ReadAnswer(c) \/ Serve(c) \/ Watcher(c)
          \/ \E frame \in Frame : Send(c, frame) \/ Complete(c, frame)
    \/ Trigger \/ SelfConnect \/ AcceptLoop \/ AcceptFails \/ Take \/ Exit
    \/ Finished

\* Threads that can run do run some day, which a thread that writes to a full
\* socket cannot.  Clients owe nothing, accept may never fail.
Fairness ==
    /\ WF_vars(SelfConnect) /\ WF_vars(AcceptLoop) /\ WF_vars(Take) /\ WF_vars(Exit)
    /\ \A c \in Client : WF_vars(Serve(c)) /\ WF_vars(Watcher(c))

Spec     == Init /\ [][Next]_vars
FairSpec == Spec /\ Fairness

------------------------------------------------------------------------------
(* Properties.                                                             *)

\* Every variable has its type, and every worker is somewhere: the server
\* never serves more connections than it has workers.
TypeOK ==
    /\ Len(queue) <= QueueCapacity
    /\ queue \in Seq(Client) /\ {idle, exited} \subseteq 0..Workers
    /\ idle + exited + Cardinality({c \in Client : conn[c].at \in Served}) = Workers
    /\ tx \in [Client -> {"none", "active", "failed"}]
    /\ holder \in Client \cup {Nobody} /\ asleep \subseteq Client
    /\ \A c \in Client :
          /\ conn[c].at \in Outside \cup {"queued"} \cup Served
          /\ conn[c].at = "queued" <=> \E i \in DOMAIN queue : queue[i] = c

\* Whoever holds the lock is a transaction of a connection that is being
\* served: no end of a connection, of a statement or of a transaction leaves
\* locks behind that nobody can release any more.
LocksHaveOwners == holder # Nobody => tx[holder] # "none" /\ conn[holder].at \in Served

\* When the database is flushed for the last time no transaction is open and
\* no thread is left that could change anything.
FlushedLast ==
    listener = "flushed" => /\ queue = <<>> /\ holder = Nobody /\ asleep = {}
                            /\ \A c \in Client : tx[c] = "none" /\ conn[c].at \notin Served

\* A disconnect that the watcher saw before the statement's first check keeps
\* that statement from running, and no statement is cancelled for another's
\* sake.
CancelsItsStatement ==
    [][\A c \in Client :
          (conn[c].at = "parsed" /\ conn[c].stmt \in Work /\ conn'[c].at # "parsed") =>
              (conn'[c].at = "stop" <=> conn[c].watch = "fired")]_vars

\* Once shutdown is triggered run returns, past idle clients, frames that never
\* end and statements that wait for another's lock, provided that no client
\* leaves an answer unread for ever and that none commits before it has read
\* that its transaction failed.
ShutdownCompletes == (\A c \in Client : []<>(conn[c].at # "write")) => (flag ~> ~ Running)

\* The same without the first proviso, which the code does not keep.
ShutdownAlwaysCompletes == flag ~> ~ Running
=============================================================================
