------------------------------ MODULE BufferPool ------------------------------
(***************************************************************************)
(* The buffer pool: buffer_pool.rs of directory src/src.                   *)
(*                                                                         *)
(* Frames cache pages of the disk.  The table of pages, pins, dirty flags  *)
(* and the clock are under one mutex, the page in a frame is under a latch *)
(* of its own.  A thread finds or loads a page and pins its frame under    *)
(* the mutex, then latches the frame; a guard that is dropped gives up the *)
(* latch first and the pin afterwards.                                     *)
(*                                                                         *)
(* A page is the number of its latest change.  What write-backs have to do *)
(* with the log is in WalRecovery.                                         *)
(***************************************************************************)
EXTENDS Integers, FiniteSets, SequencesExt

CONSTANTS
    Thread,
    NPages,       \* pages of the file
    NFrames,      \* BufferPool::capacity
    MaxGuards,    \* guards that a thread has at once
    MaxWrites,    \* changes in a behaviour
    FlushesAlone  \* TRUE: nobody writes while a thread flushes

ASSUME SizesAssumption ==
    {NPages, NFrames, MaxGuards} \subseteq Nat \ {0} /\ MaxWrites \in Nat
ASSUME FlagsAssumption == FlushesAlone \in BOOLEAN
ASSUME ThreadsAssumption == IsFiniteSet(Thread)

Page   == 1..NPages
Frame  == 0..(NFrames - 1)
Mode   == {"read", "write"}
Nil    == -1   \* no page, no frame

VARIABLES
    disk,    \* the pages on the disk
    frames,  \* [page, value]: what a frame holds
    meta,    \* FrameMeta: occupant, pins, dirty, referenced
    table,   \* Inner::page_table
    hand,    \* Inner::clock_hand
    guards,  \* each thread's guards, the oldest one first
    step,    \* what a thread is about to do
    answer,  \* what its latest call has returned, "ok" before it returns
    written  \* changes so far

inner == <<meta, table, hand>>
vars  == <<disk, frames, meta, table, hand, guards, step, answer, written>>

EmptyFrame == [page |-> Nil, value |-> 0]
EmptyMeta  == [occupant |-> Nil, pins |-> 0, dirty |-> FALSE, referenced |-> FALSE]

Idle              == [at |-> "idle"]
Sweeping(p, mode, left) == [at |-> "evict", page |-> p, mode |-> mode, left |-> left]
Latching(f, mode) == [at |-> "latch", frame |-> f, mode |-> mode]
Unpinning(f, dty) == [at |-> "unpin", frame |-> f, dirty |-> dty]
Flushing(at, fs)  == [at |-> at, todo |-> fs]   \* the lowest frame first

Init ==
    /\ disk = [p \in Page |-> 0]
    /\ frames = [f \in Frame |-> EmptyFrame]
    /\ meta = [f \in Frame |-> EmptyMeta]
    /\ table = [p \in Page |-> Nil]
    /\ hand = 0
    /\ guards = [t \in Thread |-> <<>>]
    /\ step = [t \in Thread |-> Idle]
    /\ answer = [t \in Thread |-> "ok"]
    /\ written = 0

Goes(t, place) == step' = [step EXCEPT ![t] = place]

Answers(t, value) == answer' = [answer EXCEPT ![t] = value]

------------------------------------------------------------------------------
(* Finding pages, under the mutex.                                         *)

\* Nobody is in the clock's loop, which keeps the mutex.
MutexFree == \A t \in Thread : step[t].at # "evict"

Free == {f \in Frame : meta[f].occupant = Nil}

\* Fault: whoever comes next counts as the first.
PinnedOnce(m, f) == [m EXCEPT ![f].pins = 1, ![f].referenced = TRUE]

Pinned(m, f) == [m EXCEPT ![f].pins = @ + 1, ![f].referenced = TRUE]

\* locate_or_load: the page is read into the frame.
Load(t, p, f, mode, tab, dsk) ==
    /\ frames' = [frames EXCEPT ![f] = [page |-> p, value |-> dsk[p]]]
    /\ meta' = Pinned([meta EXCEPT ![f] = [EmptyMeta EXCEPT !.occupant = p]], f)
    /\ table' = [tab EXCEPT ![p] = f]
    /\ Goes(t, Latching(f, mode))
    /\ Answers(t, "ok")

\* Fault: nothing is written back.
DiskAsItIs(f) == disk

\* What is on the disk when the frame has been given up.
WrittenBack(f) ==
    IF meta[f].dirty THEN [disk EXCEPT ![frames[f].page] = frames[f].value] ELSE disk

Forgotten(f) == [table EXCEPT ![meta[f].occupant] = Nil]

Flusher(t) == step[t].at \in {"flush", "clear"}

Writer(t) ==
    \/ \E i \in DOMAIN guards[t] : guards[t][i].mode = "write"
    \/ step[t].at \in {"evict", "latch"} /\ step[t].mode = "write"
    \/ step[t].at = "unpin" /\ step[t].dirty

\* read_page and write_page.  Callers latch pages in one order, and after an
\* error they give up what they have.
Calls(t, p, mode) ==
    /\ MutexFree /\ step[t] = Idle /\ (answer[t] = "ok" \/ guards[t] = <<>>)
    /\ Len(guards[t]) < MaxGuards
    /\ \A i \in DOMAIN guards[t] : frames[guards[t][i].frame].page < p
    /\ FlushesAlone /\ mode = "write" => \A u \in Thread : ~ Flusher(u)

Hit(t, p, mode) ==
    /\ Calls(t, p, mode) /\ table[p] # Nil
    /\ meta' = Pinned(meta, table[p])
    /\ Goes(t, Latching(table[p], mode))
    /\ Answers(t, "ok")
    /\ UNCHANGED <<disk, frames, table, hand, guards, written>>

LoadFree(t, p, mode) ==
    /\ Calls(t, p, mode) /\ table[p] = Nil /\ Free # {}
    /\ Load(t, p, Min(Free), mode, table, disk)
    /\ UNCHANGED <<disk, hand, guards, written>>

------------------------------------------------------------------------------
(* The clock: evict, which holds the mutex until it returns.               *)

\* Fault: the hand goes round only once.
OneRound == NFrames

\* In the first round the hand clears reference bits, in the second one none
\* is left.
Rounds == 2 * NFrames

Evict(t, p, mode) ==
    /\ Calls(t, p, mode) /\ table[p] = Nil /\ Free = {}
    /\ Goes(t, Sweeping(p, mode, Rounds))
    /\ Answers(t, "ok")
    /\ UNCHANGED <<disk, frames, inner, guards, written>>

\* One turn of the loop looks at the frame under the hand.
Turns(t) ==
    /\ step[t].at = "evict" /\ step[t].left > 0
    /\ hand' = (hand + 1) % NFrames
    /\ UNCHANGED <<guards, written>>

GoesOn(t) ==
    /\ Goes(t, Sweeping(step[t].page, step[t].mode, step[t].left - 1))
    /\ UNCHANGED <<disk, frames, table, answer>>

InUse(f) == meta[f].occupant = Nil \/ meta[f].pins > 0

PassOver(t) == Turns(t) /\ InUse(hand) /\ GoesOn(t) /\ UNCHANGED meta

\* A page that was used since the hand was here last gets a second chance.
Spare(t) ==
    /\ Turns(t) /\ ~ InUse(hand) /\ meta[hand].referenced
    /\ meta' = [meta EXCEPT ![hand].referenced = FALSE]
    /\ GoesOn(t)

Victim(t) == Turns(t) /\ ~ InUse(hand) /\ ~ meta[hand].referenced

Take(t) ==
    /\ Victim(t)
    /\ disk' = WrittenBack(hand)
    /\ Load(t, step[t].page, hand, step[t].mode, Forgotten(hand), WrittenBack(hand))

\* The disk refuses the page: its occupant is already gone.
EvictFails(t) ==
    /\ Victim(t) /\ meta[hand].dirty
    /\ meta' = [meta EXCEPT ![hand].occupant = Nil]
    /\ Goes(t, Idle)
    /\ Answers(t, "I/O error")
    /\ UNCHANGED <<disk, frames, table>>

PoolFull(t) ==
    /\ step[t].at = "evict" /\ step[t].left = 0
    /\ Goes(t, Idle)
    /\ Answers(t, "full")
    /\ UNCHANGED <<disk, frames, inner, guards, written>>

------------------------------------------------------------------------------
(* Guards.                                                                 *)

Excludes(g, f, mode) == g.frame = f /\ "write" \in {g.mode, mode}

Latch(t) ==
    /\ step[t].at = "latch"
    /\ \A u \in Thread : \A i \in DOMAIN guards[u] :
          ~ Excludes(guards[u][i], step[t].frame, step[t].mode)
    /\ guards' = [guards EXCEPT ![t] = Append(@, [frame |-> step[t].frame, mode |-> step[t].mode])]
    /\ Goes(t, Idle)
    /\ UNCHANGED <<disk, frames, inner, answer, written>>

\* data_mut
Change(t, i) ==
    /\ step[t] = Idle /\ answer[t] = "ok"
    /\ guards[t][i].mode = "write" /\ written < MaxWrites
    /\ written' = written + 1
    /\ frames' = [frames EXCEPT ![guards[t][i].frame].value = written']
    /\ UNCHANGED <<disk, inner, guards, step, answer>>

\* The first half of drop.
Drop(t, i) ==
    /\ step[t] = Idle
    /\ guards' = [guards EXCEPT ![t] = RemoveAt(@, i)]
    /\ Goes(t, Unpinning(guards[t][i].frame, guards[t][i].mode = "write"))
    /\ UNCHANGED <<disk, frames, inner, answer, written>>

Marked(dirty, mark) == dirty \/ mark

\* The second half of drop: unpin.
Unpin(t) ==
    LET f == step[t].frame IN
    /\ MutexFree /\ step[t].at = "unpin"
    /\ meta' = [meta EXCEPT ![f].pins = Max({0, @ - 1}),
                            ![f].dirty = Marked(@, step[t].dirty)]
    /\ Goes(t, Idle)
    /\ UNCHANGED <<disk, frames, table, hand, guards, answer, written>>

------------------------------------------------------------------------------
(* Flushing: flush_page, flush_all and flush_frame.                        *)

Dirty == {f \in Frame : meta[f].dirty}

\* The dirty frames are listed under the mutex, and no longer under it when
\* they are written.
Flush(t) ==
    /\ MutexFree /\ step[t] = Idle /\ guards[t] = <<>> /\ Dirty # {}
    /\ FlushesAlone => \A u \in Thread : ~ Writer(u)
    /\ \E fs \in {Dirty} \cup {{f} : f \in Dirty} :
          Goes(t, Flushing("flush", fs))
    /\ UNCHANGED <<disk, frames, inner, guards, answer, written>>

FlushFrame(t) ==
    LET f == Min(step[t].todo) IN
    /\ step[t].at = "flush"
    /\ \A u \in Thread : \A i \in DOMAIN guards[u] : guards[u][i].frame # f
    /\ disk' = IF frames[f].page = Nil THEN disk
               ELSE [disk EXCEPT ![frames[f].page] = frames[f].value]
    /\ Goes(t, Flushing("clear", step[t].todo))
    /\ UNCHANGED <<frames, inner, guards, answer, written>>

ClearDirty(t) ==
    LET f    == Min(step[t].todo)
        rest == step[t].todo \ {f}
    IN
    /\ MutexFree /\ step[t].at = "clear"
    /\ meta' = [meta EXCEPT ![f].dirty = FALSE]
    /\ Goes(t, IF rest = {} THEN Idle ELSE Flushing("flush", rest))
    /\ UNCHANGED <<disk, frames, table, hand, guards, answer, written>>

------------------------------------------------------------------------------

Next ==
    \E t \in Thread :
        \/ \E p \in Page, mode \in Mode :
              Hit(t, p, mode) \/ LoadFree(t, p, mode) \/ Evict(t, p, mode)
        \/ PassOver(t) \/ Spare(t) \/ Take(t) \/ PoolFull(t)
        \/ \E i \in DOMAIN guards[t] : Change(t, i) \/ Drop(t, i)
        \/ Latch(t) \/ Unpin(t)
        \/ Flush(t) \/ FlushFrame(t) \/ ClearDirty(t)

Spec == Init /\ [][Next]_vars

\* With a disk that may refuse to write.
FailingSpec ==
    Init /\ [][Next \/ \E t \in Thread : EvictFails(t)]_vars

------------------------------------------------------------------------------
(* Properties.                                                             *)

\* The table, the occupants and the frames agree on where pages are: no page
\* is in two frames, and no frame is taken for another page's.
TypeOK ==
    /\ disk \in [Page -> Nat] /\ hand \in Frame
    /\ table \in [Page -> Frame \cup {Nil}]
    /\ \A p \in Page : table[p] # Nil => meta[table[p]].occupant = p
    /\ \A f \in Frame : meta[f].occupant # Nil =>
          table[meta[f].occupant] = f /\ frames[f].page = meta[f].occupant

Guards(t) == {guards[t][i].frame : i \in DOMAIN guards[t]}

\* Threads with a guard of a frame, and threads that have its pin but not its
\* latch: those that wait for it and those that have just given it up.
Holding(f) == {t \in Thread : f \in Guards(t)}
Passing(f) == {t \in Thread : step[t].at \in {"latch", "unpin"} /\ step[t].frame = f}

\* A frame has one pin for every guard, for every thread that waits for its
\* latch, and for every one that has given the latch up but not yet the pin.
PinsExact ==
    \A f \in Frame : meta[f].pins = Cardinality(Holding(f)) + Cardinality(Passing(f))

Unpinned == {f \in Frame : meta[f].pins = 0}

\* A call fails for want of a frame only if every frame is in use: two rounds
\* of the clock are enough to find any other, wherever the hand stands, in
\* whatever order the frames were used, and with calls, latches and flushes
\* before and during the sweep.
FullMeansPinned ==
    [][\A t \in Thread : answer[t] = "ok" /\ answer'[t] = "full" => Unpinned = {}]_vars

\* What a reader of the page would find.
Content(p) == IF table[p] = Nil THEN disk[p] ELSE frames[table[p]].value

\* Readers and writers see pages that keep what was written last, whatever is
\* loaded, evicted and flushed meanwhile.
Held(t, i) ==
    [thread |-> t, page |-> frames[guards[t][i].frame].page, mode |-> guards[t][i].mode]

Store == INSTANCE PageStore WITH
    value  <- [p \in Page |-> Content(p)],
    guards <- UNION {{Held(t, i) : i \in DOMAIN guards[t]} : t \in Thread}

Implements == Store!Spec
=============================================================================
