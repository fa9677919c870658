----------------------------- MODULE WalRecovery -----------------------------
(***************************************************************************)
(* The write-ahead log, the pages of one table, ROLLBACK, CHECKPOINT and   *)
(* crash recovery: wal.rs, recovery.rs, transaction.rs and the parts of    *)
(* storage.rs, buffer_pool.rs and database.rs that keep the log and the    *)
(* pages in step (directory src/src).                                      *)
(*                                                                         *)
(* A page is read and written in the buffer pool, written back to the      *)
(* operating system when it is evicted or flushed, and is on the disk for  *)
(* certain once it is synced.  A crash keeps a prefix of the log that was  *)
(* handed to the system, with all of what was synced, and for every page   *)
(* the synced version or the one last written back.                        *)
(*                                                                         *)
(* A row is an image, a number of its own for every write.  Images have    *)
(* one size: NSlots of them fit on a page.  Which pages the free space map *)
(* believes to have room is left open.  Indexes are rebuilt from the heap  *)
(* by recovery and left out.                                               *)
(***************************************************************************)
EXTENDS Naturals, FiniteSets, SequencesExt

CONSTANTS
    NTx,          \* transactions begun in a behaviour
    NPages,       \* data pages of the table
    NSlots,       \* images that fit on a page
    Seeded,       \* rows of page 1 that a CHECKPOINT made durable earlier
    MaxWrites,    \* rows written by one transaction
    MaxImages,    \* images made in a behaviour
    MaxCrashes,   \* crashes in a behaviour
    MaxCheckpoints, \* records of CHECKPOINT in the log, the first one included
    Statements,   \* what clients do: a subset of Writes
    Rollbacks,    \* "never", "instead of crashes" or "before crashes"
    LateCrashes,  \* TRUE: a crash may hit the last phase of recovery
    AfterRestart  \* what clients do after a restart: "nothing", "anything",
                  \* "checkpoint" first, or that if every page with rows is
                  \* "stamped" with an LSN

ASSUME SizesAssumption ==
    /\ {NTx, NPages, NSlots, MaxWrites, MaxImages, MaxCheckpoints} \subseteq Nat \ {0}
    /\ Seeded \in 0..NSlots /\ Seeded <= MaxImages
    /\ MaxCrashes \in Nat
ASSUME ChoicesAssumption ==
    /\ Statements \subseteq {"insert", "update", "delete"}
    /\ LateCrashes \in BOOLEAN
    /\ Rollbacks \in {"never", "instead of crashes", "before crashes"}
    /\ AfterRestart \in {"nothing", "anything", "checkpoint", "stamped"}

VARIABLES
    log,       \* WalWriter::records; an LSN is a position of the log
    flushed,   \* records handed to the operating system
    durable,   \* WalWriter::durable_lsn
    cache,     \* the pages as the buffer pool shows them
    os,        \* the pages as last written back
    disk,      \* the pages as last synced
    tx,        \* the TransactionContexts, by order of BEGIN
    nextId,    \* Database::next_txn_id
    phase,     \* "up", "down", "recovered" or "hung"
    crashes,   \* crashes so far (a bound)
    made       \* images made so far

walVars == <<log, flushed, durable>>
vars    == <<log, flushed, durable, cache, os, disk, tx, nextId, phase, crashes, made>>

Tx    == 1..NTx
Page  == 1..NPages
Slot  == 1..NSlots
Rid   == Page \X Slot
Image == 1..MaxImages
None  == 0                     \* no image, no LSN, a tombstone

------------------------------------------------------------------------------
(* Slotted pages.                                                          *)

\* SlottedPage::insert takes the first tombstone, or else a new slot.
FreeSlot(slots) == Min({i \in 1..(Len(slots) + 1) : i = Len(slots) + 1 \/ slots[i] = None})

Room(slots) == FreeSlot(slots) \in Slot

Put(slots, i, image) ==
    IF i = Len(slots) + 1 THEN Append(slots, image) ELSE [slots EXCEPT ![i] = image]

AddTo(slots, image) == IF Room(slots) THEN Put(slots, FreeSlot(slots), image) ELSE slots

At(pages, rid) ==
    LET slots == pages[rid[1]].slots
    IN  IF rid[2] \in DOMAIN slots THEN slots[rid[2]] ELSE None

\* SlottedPage::update and ::delete leave a tombstone alone.
Overwrite(pages, rid, image) ==
    IF At(pages, rid) = None THEN pages ELSE [pages EXCEPT ![rid[1]].slots[rid[2]] = image]

InsertOn(pages, p, image) == [pages EXCEPT ![p].slots = AddTo(@, image)]

\* A page of the table has slots; one that has none is fresh.
Used(pages)  == {p \in Page : pages[p].slots # <<>>}
Fresh(pages) == Page \ Used(pages)

\* Storage::insert: a page that is believed to have room, or a fresh one.
Targets(pages) ==
    {p \in Used(pages) : Room(pages[p].slots)}
    \cup (IF Fresh(pages) = {} THEN {} ELSE {Min(Fresh(pages))})

\* The page it takes when the free space map offers the pages in believed:
\* the first of them, else a fresh one (or, the model's table being full,
\* any page with room).
TargetOf(pages, believed) ==
    LET offered == {p \in Used(pages) \cap believed : Room(pages[p].slots)}
    IN  IF offered # {} THEN Min(offered)
        ELSE IF Fresh(pages) # {} THEN Min(Fresh(pages)) ELSE Min(Targets(pages))

Stamped(pages, changed, lsn) ==
    [p \in Page |-> IF p \in changed /\ pages[p].lsn < lsn
                    THEN [pages[p] EXCEPT !.lsn = lsn] ELSE pages[p]]

------------------------------------------------------------------------------
(* Log records.                                                            *)

NoRid  == <<0, 0>>
Writes == {"insert", "update", "delete"}

Record(kind, id, serial, prev) ==
    [kind |-> kind, id |-> id, serial |-> serial, prev |-> prev, old |-> NoRid,
     rid |-> NoRid, before |-> None, after |-> None, active |-> {}]

CheckpointRecord(active) ==
    [Record("checkpoint", None, 0, None) EXCEPT !.active = active]

\* WalCursor: the first record of a transaction is preceded by its Begin.
Begun(t) ==
    IF tx[t].last # None THEN log
    ELSE Append(log, Record("begin", tx[t].id, t, None))

LogWrite(t, kind, old, rid, before, after) ==
    LET begun == Begun(t)
        prev  == IF tx[t].last = None THEN Len(begun) ELSE tx[t].last
    IN  /\ log' = Append(begun, [Record(kind, tx[t].id, t, prev) EXCEPT
                                 !.old = old, !.rid = rid, !.before = before, !.after = after])
        /\ tx' = [tx EXCEPT ![t].last = Len(log'), ![t].writes = @ + 1]

\* Commit and Abort are written only for a transaction that wrote something.
LogEnd(t, kind) ==
    log' = IF tx[t].last = None THEN log
           ELSE Append(log, Record(kind, tx[t].id, t, tx[t].last))

------------------------------------------------------------------------------
(* Undo: apply_wal_undo_disk follows prev_lsn back to the Begin record and *)
(* applies the inverse operations, none of which is logged.                *)

\* resolve follows the moves of rows without end if they form a cycle.
Followed(moves, rid) ==
    LET hop[n \in 0..Cardinality(Rid)] == IF n = 0 THEN rid ELSE moves[hop[n - 1]]
    IN  hop[Cardinality(Rid)]

Resolves(moves, rid) == moves[Followed(moves, rid)] = Followed(moves, rid)

\* An accumulator: the record that comes next, the pages, remap (a row that
\* did not move maps to itself), whether resolve has returned so far, and
\* whether the model's pages were enough (a bound).
UndoStart(pages, last) ==
    [lsn |-> last, pages |-> pages, moves |-> [rid \in Rid |-> rid],
     returns |-> TRUE, fits |-> TRUE]

\* Fault: rows that moved are not followed.
NeverMoved(moves, from, to) == moves

\* A row put back where it was leaves remap alone.
Moved(moves, from, to) == IF from = to THEN moves ELSE [moves EXCEPT ![from] = to]

UndoDelete(acc, r, believed) ==
    LET p   == TargetOf(acc.pages, believed)
        rid == <<p, FreeSlot(acc.pages[p].slots)>>
    IN  IF Targets(acc.pages) = {} THEN [acc EXCEPT !.fits = FALSE]
        ELSE [acc EXCEPT !.pages = InsertOn(@, p, r.before), !.moves = Moved(@, r.rid, rid)]

UndoUpdate(acc, r) ==
    LET rid == Followed(acc.moves, r.rid)
    IN  [acc EXCEPT !.pages = Overwrite(@, rid, r.before), !.moves = Moved(@, r.old, rid)]

UndoInsert(acc, r) == [acc EXCEPT !.pages = Overwrite(@, Followed(acc.moves, r.rid), None)]

UndoOne(acc, r, believed) ==
    CASE ~ acc.returns -> acc
      [] acc.returns /\ r.kind = "delete" -> UndoDelete(acc, r, believed)
      [] acc.returns /\ r.kind # "delete" /\ ~ Resolves(acc.moves, r.rid) ->
            [acc EXCEPT !.returns = FALSE]
      [] acc.returns /\ r.kind = "update" /\ Resolves(acc.moves, r.rid) -> UndoUpdate(acc, r)
      [] acc.returns /\ r.kind = "insert" /\ Resolves(acc.moves, r.rid) -> UndoInsert(acc, r)

\* Back along prev_lsn, up to the Begin record.
UndoNext(acc, believed) ==
    IF acc.lsn = None \/ log[acc.lsn].kind = "begin" THEN acc
    ELSE [UndoOne(acc, log[acc.lsn], believed) EXCEPT !.lsn = log[acc.lsn].prev]

\* No chain is longer than the log.
Undo(pages, last, believed) ==
    LET undone[n \in 0..Len(log)] ==
            IF n = 0 THEN UndoStart(pages, last) ELSE UndoNext(undone[n - 1], believed)
    IN  undone[Len(log)]

------------------------------------------------------------------------------
(* Recovery: analysis and redo from the last Checkpoint record, then undo. *)

LastCheckpoint == Max({0} \cup {i \in DOMAIN log : log[i].kind = "checkpoint"})

Scanned == (LastCheckpoint + 1)..Len(log)

Seeds == IF LastCheckpoint = 0 THEN {} ELSE log[LastCheckpoint].active

\* The transaction table is keyed by TransactionId.
KnownIds == {s.id : s \in Seeds} \cup {log[i].id : i \in Scanned}

Resolved(id) == \E i \in Scanned : log[i].id = id /\ log[i].kind \in {"commit", "abort"}

LastLsn(id) == Max({s.last : s \in {x \in Seeds : x.id = id}}
                   \cup {i \in Scanned : log[i].id = id})

Losers == {id \in KnownIds : ~ Resolved(id)}

\* Fault: redo repeats the record that stamped the page.
RedoInsertAgain(acc, r, lsn) ==
    LET page == acc.pages[r.rid[1]]
        base == IF page.lsn = 0 THEN <<>> ELSE page.slots
    IN  IF page.lsn > lsn THEN acc
        ELSE [pages |-> [acc.pages EXCEPT ![r.rid[1]] =
                            [lsn |-> lsn, slots |-> AddTo(base, r.after)]],
              exact |-> acc.exact /\ FreeSlot(base) = r.rid[2]]

\* Redo tests the LSN of the page.  An accumulator: the pages, and whether
\* every row went to the slot its record names.
RedoInsert(acc, r, lsn) ==
    LET page == acc.pages[r.rid[1]]
        base == IF page.lsn = 0 THEN <<>> ELSE page.slots
    IN  IF page.lsn >= lsn THEN acc
        ELSE [pages |-> [acc.pages EXCEPT ![r.rid[1]] =
                            [lsn |-> lsn, slots |-> AddTo(base, r.after)]],
              exact |-> acc.exact /\ FreeSlot(base) = r.rid[2]]

RedoOverwrite(acc, rid, image, lsn) ==
    IF acc.pages[rid[1]].lsn >= lsn THEN acc
    ELSE [acc EXCEPT !.pages = Stamped(Overwrite(@, rid, image), {rid[1]}, lsn)]

RedoOne(acc, lsn) ==
    LET r == log[lsn]
    IN  CASE r.kind = "insert" -> RedoInsert(acc, r, lsn)
          [] r.kind = "delete" -> RedoOverwrite(acc, r.rid, None, lsn)
          [] r.kind = "update" /\ r.old = r.rid -> RedoOverwrite(acc, r.rid, r.after, lsn)
          [] r.kind = "update" /\ r.old # r.rid ->
                RedoOverwrite(RedoInsert(acc, r, lsn), r.old, None, lsn)
          [] r.kind \notin Writes -> acc

Redo(pages) ==
    LET redone[n \in 0..Len(log)] ==
            IF n <= LastCheckpoint THEN [pages |-> pages, exact |-> TRUE]
            ELSE RedoOne(redone[n - 1], n)
    IN  redone[Len(log)]

\* One loser after the other, in the order of a hash table.
UndoLoser(acc, id, believed) ==
    LET u == Undo(acc.pages, LastLsn(id), believed)
    IN  [pages |-> u.pages, returns |-> acc.returns /\ u.returns, fits |-> acc.fits /\ u.fits]

UndoLosers(pages, order, believed) ==
    LET undone[n \in 0..Len(order)] ==
            IF n = 0 THEN [pages |-> pages, returns |-> TRUE, fits |-> TRUE]
            ELSE UndoLoser(undone[n - 1], order[n], believed)
    IN  undone[Len(order)]

SerialOf(last) == IF last = None THEN 0 ELSE log[last].serial

LogAborts(order) ==
    log \o [i \in 1..Len(order) |->
               Record("abort", order[i], SerialOf(LastLsn(order[i])), LastLsn(order[i]))]

------------------------------------------------------------------------------
(* Transactions.                                                           *)

Up == phase = "up"

Live == {t \in Tx : tx[t].state = "live"}

Init ==
    LET start == [p \in Page |-> IF p = 1 /\ Seeded > 0
                                 THEN [lsn |-> 1, slots |-> [i \in 1..Seeded |-> i]]
                                 ELSE [lsn |-> 0, slots |-> <<>>]]
    IN  /\ log = <<CheckpointRecord({})>>
        /\ flushed = 1 /\ durable = 1
        /\ cache = start /\ os = start /\ disk = start
        /\ tx = [t \in Tx |-> [state |-> "unborn", id |-> 0, last |-> None, writes |-> 0]]
        /\ nextId = 0
        /\ phase = "up"
        /\ crashes = 0
        /\ made = Seeded

CheckpointFirst == nextId = 0 => log[Len(log)].kind = "checkpoint"

\* A page that undo put rows on during recovery may have no LSN yet.
PagesStamped == \A p \in Used(cache) : cache[p].lsn # 0

MayBegin ==
    \/ crashes = 0
    \/ AfterRestart = "anything"
    \/ AfterRestart = "checkpoint" /\ CheckpointFirst
    \/ AfterRestart = "stamped" /\ CheckpointFirst /\ PagesStamped

\* begin_tx, or the transaction of an autocommitted statement.
Begin(t) ==
    /\ Up /\ MayBegin
    /\ tx[t].state = "unborn"
    /\ \A u \in Tx : u < t => tx[u].state # "unborn"
    /\ tx' = [tx EXCEPT ![t].state = "live", ![t].id = nextId]
    /\ nextId' = nextId + 1
    /\ UNCHANGED <<walVars, cache, os, disk, phase, crashes, made>>

MayWrite(t, kind) == Up /\ kind \in Statements /\ t \in Live /\ tx[t].writes < MaxWrites

NewImage == made' = made + 1 /\ made' \in Image

\* Row locks keep a transaction away from what another one wrote: the image
\* was made by t itself or by a transaction that has ended.
Unlocked(t, rid) ==
    \A i \in DOMAIN log : log[i].kind \in Writes /\ log[i].after = At(cache, rid)
                          => log[i].serial \in (Tx \ Live) \cup {t}

Row(t, rid) == At(cache, rid) # None /\ Unlocked(t, rid)

Insert(t, p) ==
    /\ MayWrite(t, "insert") /\ p \in Targets(cache)
    /\ NewImage
    /\ LogWrite(t, "insert", NoRid, <<p, FreeSlot(cache[p].slots)>>, None, made')
    /\ cache' = Stamped(InsertOn(cache, p, made'), {p}, Len(log'))
    /\ UNCHANGED <<flushed, durable, os, disk, nextId, phase, crashes>>

Update(t, rid) ==
    /\ MayWrite(t, "update") /\ Row(t, rid)
    /\ NewImage
    /\ LogWrite(t, "update", rid, rid, At(cache, rid), made')
    /\ cache' = Stamped(Overwrite(cache, rid, made'), {rid[1]}, Len(log'))
    /\ UNCHANGED <<flushed, durable, os, disk, nextId, phase, crashes>>

\* An update whose new image does not fit: inserted elsewhere, then deleted.
UpdateMoves(t, rid, p) ==
    /\ MayWrite(t, "update") /\ Row(t, rid) /\ p \in Targets(cache) \ {rid[1]}
    /\ NewImage
    /\ LogWrite(t, "update", rid, <<p, FreeSlot(cache[p].slots)>>, At(cache, rid), made')
    /\ cache' = Stamped(Overwrite(InsertOn(cache, p, made'), rid, None),
                        {p, rid[1]}, Len(log'))
    /\ UNCHANGED <<flushed, durable, os, disk, nextId, phase, crashes>>

Delete(t, rid) ==
    /\ MayWrite(t, "delete") /\ Row(t, rid)
    /\ LogWrite(t, "delete", NoRid, rid, At(cache, rid), None)
    /\ cache' = Stamped(Overwrite(cache, rid, None), {rid[1]}, Len(log'))
    /\ UNCHANGED <<flushed, durable, os, disk, nextId, phase, crashes, made>>

Gone == [state |-> "ended", id |-> 0, last |-> None, writes |-> 0]

Ends(t) == tx' = [tx EXCEPT ![t] = Gone]

\* WalWriter::sync
Sync == flushed' = Len(log') /\ durable' = Len(log')

\* COMMIT answers when its record is synced.
Commit(t) ==
    /\ Up /\ t \in Live
    /\ LogEnd(t, "commit")
    /\ IF tx[t].last = None THEN UNCHANGED <<flushed, durable>> ELSE Sync
    /\ Ends(t)
    /\ UNCHANGED <<cache, os, disk, nextId, phase, crashes, made>>

MayRollBack == Rollbacks # "never" /\ (Rollbacks = "instead of crashes" => crashes = 0)

\* ROLLBACK undoes, logs Abort and does not wait for a sync; if resolve
\* never returns, nothing else in the database ever runs.
Rollback(t) ==
    \E believed \in SUBSET Page :
        LET u == Undo(cache, tx[t].last, believed)
        IN  /\ Up /\ t \in Live /\ MayRollBack /\ u.fits
            /\ cache' = u.pages
            /\ IF u.returns
               THEN /\ LogEnd(t, "abort")
                    /\ flushed' = (IF tx[t].last = None THEN flushed ELSE Len(log'))
                    /\ Ends(t)
                    /\ UNCHANGED phase
               ELSE phase' = "hung" /\ UNCHANGED <<log, flushed, tx>>
            /\ UNCHANGED <<durable, os, disk, nextId, crashes, made>>

------------------------------------------------------------------------------
(* Pages reach the disk.                                                   *)

\* Fault: a page is written back ahead of the log.
NoSyncUpTo(lsn) == UNCHANGED <<flushed, durable>>

\* WalWriter::sync_up_to
SyncUpTo(lsn) == IF lsn <= durable THEN UNCHANGED <<flushed, durable>> ELSE Sync

\* flush_frame: eviction, or one page of flush_all.
FlushPage(p) ==
    /\ phase \in {"up", "recovered"}
    /\ os[p] # cache[p]
    /\ UNCHANGED log
    /\ SyncUpTo(cache[p].lsn)
    /\ os' = [os EXCEPT ![p] = cache[p]]
    /\ UNCHANGED <<cache, disk, tx, nextId, phase, crashes, made>>

\* Fault: the transactions of the sessions are left out of the record.
NoActiveTransactions == {}

ActiveTransactions == {[id |-> tx[t].id, last |-> tx[t].last] : t \in Live}

\* CHECKPOINT: flush and sync the pages, then log who is running.
Checkpoint ==
    /\ Up
    /\ Cardinality({i \in DOMAIN log : log[i].kind = "checkpoint"}) < MaxCheckpoints
    /\ os' = cache /\ disk' = cache
    /\ log' = Append(log, CheckpointRecord(ActiveTransactions))
    /\ Sync
    /\ UNCHANGED <<cache, tx, nextId, phase, crashes, made>>

------------------------------------------------------------------------------
(* Crashes and restarts.                                                   *)

\* WalWriter::open takes what it can read for durable.
Crash ==
    /\ phase \in {"up", "recovered"} /\ (phase = "recovered" => LateCrashes)
    /\ Rollbacks = "instead of crashes" =>
          crashes > 0 \/ \A i \in DOMAIN log : log[i].kind # "abort"
    /\ crashes < MaxCrashes /\ crashes' = crashes + 1
    /\ \E n \in durable..flushed, synced \in SUBSET Page :
          /\ log' = SubSeq(log, 1, n)
          /\ flushed' = n /\ durable' = n
          /\ cache' = [p \in Page |-> IF p \in synced THEN disk[p] ELSE os[p]]
    /\ os' = cache' /\ disk' = cache'
    /\ tx' = [t \in Tx |-> IF t \in Live THEN Gone ELSE tx[t]]
    /\ nextId' = 0
    /\ phase' = "down"
    /\ UNCHANGED made

\* recover up to its first write to a file.  A crash before that changes
\* nothing that lasts.
Recover ==
    \E order \in SetToSeqs(Losers), believed \in SUBSET Page :
        LET u == UndoLosers(Redo(cache).pages, order, believed)
        IN  /\ phase = "down" /\ u.fits
            /\ cache' = u.pages
            /\ IF u.returns THEN log' = LogAborts(order) /\ phase' = "recovered"
                            ELSE phase' = "hung" /\ UNCHANGED log
            /\ UNCHANGED <<flushed, durable, os, disk, tx, nextId, crashes, made>>

\* The end of recover: all pages flushed and synced, and then the log.
Restart ==
    /\ phase = "recovered" /\ os = cache
    /\ disk' = os
    /\ UNCHANGED log
    /\ Sync
    /\ phase' = "up"
    /\ UNCHANGED <<cache, os, tx, nextId, crashes, made>>

Next ==
    \/ \E t \in Tx :
          \/ Begin(t) \/ Commit(t) \/ Rollback(t)
          \/ \E p \in Page : Insert(t, p)
          \/ \E rid \in Rid : \/ Update(t, rid) \/ Delete(t, rid)
                             \/ \E p \in Page : UpdateMoves(t, rid, p)
    \/ \E p \in Page : FlushPage(p)
    \/ Checkpoint \/ Crash \/ Recover \/ Restart

Spec == Init /\ [][Next]_vars

------------------------------------------------------------------------------
(* What must hold.                                                         *)

\* The images of a set of transactions, as the log tells it.
RecordsOf(S) == {i \in DOMAIN log : log[i].kind \in Writes /\ log[i].serial \in S}

AddedBy(S)   == {log[i].after : i \in RecordsOf(S)} \ {None}
RemovedBy(S) == {log[i].before : i \in RecordsOf(S)} \ {None}

Committed == {log[i].serial : i \in {j \in DOMAIN log : log[j].kind = "commit"}}

Stable == ((1..Seeded) \cup AddedBy(Committed)) \ RemovedBy(Committed)

Copies(pages) == [image \in Image |-> Cardinality({rid \in Rid : At(pages, rid) = image})]

Answering == phase \in {"up", "hung"}

Store == INSTANCE TransactionStore WITH
    up       <- Answering,
    stable   <- Stable,
    change   <- [t \in Tx |-> [added |-> AddedBy({t} \cap Live),
                               removed |-> RemovedBy({t} \cap Live)]],
    contents <- IF Answering THEN Copies(cache) ELSE [image \in Image |-> 0]

PageType == [lsn : 0..Len(log), slots : UNION {[1..n -> Image \cup {None}] : n \in 0..NSlots}]

\* Every variable has its type: what is synced was handed over, what was
\* handed over was appended, no page is ahead of the log.
TypeOK ==
    /\ durable \in 0..flushed /\ flushed \in 0..Len(log)
    /\ cache \in [Page -> PageType] /\ os \in [Page -> PageType] /\ disk \in [Page -> PageType]
    /\ tx \in [Tx -> [state : {"unborn", "live", "ended"}, id : 0..NTx,
                      last : 0..Len(log), writes : 0..MaxWrites]]
    /\ phase \in {"up", "down", "recovered", "hung"}

\* The log, the pages and recovery together are a transactional store: a scan
\* sees every committed and running change once and nothing else, COMMIT is
\* for good, ROLLBACK and a crash leave nothing behind.
Implements == Store!StoreSpec

\* The write-ahead rule that flush_frame enforces: no page is written back
\* before the records of the changes on it are synced.
WalFirst == \A p \in Page : os[p].lsn <= durable

\* Redo puts every row back into the slot its record names, the precondition
\* that redo_insert asserts, for whatever mix of page versions a crash left.
RedoIsExact == phase = "down" => Redo(cache).exact

\* Undo ends: resolve never chases a row around a cycle of moves.
UndoReturns == phase # "hung"

\* A scan never returns a row of a transaction that was rolled back or was
\* running when the database crashed.
OnlyCommitted == Up => \A rid \in Rid : At(cache, rid) \in {None} \cup Stable \cup AddedBy(Live)

\* A committed row that no running transaction removed is in the table.
CommittedSurvive ==
    Up => \A image \in Stable \ RemovedBy(Live) : \E rid \in Rid : At(cache, rid) = image

\* No row is there twice: recovery interrupted and repeated undoes a
\* transaction once.
EachRowOnce == Up => \A image \in Image : Copies(cache)[image] <= 1
=============================================================================
