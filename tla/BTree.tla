--------------------------------- MODULE BTree ---------------------------------
(***************************************************************************)
(* The B+Tree: btree.rs and btree_page.rs of directory src/src.            *)
(*                                                                         *)
(* Threads share the tree and latch its pages, read or write.  An insert   *)
(* couples write latches from the root down, keeping those of pages that a *)
(* split below may reach, and splits pages upwards; the root splits in its *)
(* place.  Readers couple read latches down to a leaf, then follow the     *)
(* links between leaves with no latch in between.  A delete reads a leaf   *)
(* under one latch and writes it under another.                            *)
(*                                                                         *)
(* A key is a number with a length in bytes, which decides how many fit    *)
(* into a page.  A step of a thread ends where it waits for a latch.       *)
(***************************************************************************)
EXTENDS Naturals, FiniteSets, Functions, SequencesExt

CONSTANTS
    Thread,
    Calls,         \* <<thread, n, call>> triples: a thread's possible n-th calls
    KeyLen,        \* the bytes of each key
    PayloadSize,   \* PAGE_PAYLOAD_SIZE
    Unique,        \* BTree::unique
    DeletesAlone   \* TRUE: deletes keep apart from inserts and from each other

ASSUME FlagsAssumption == {Unique, DeletesAlone} \subseteq BOOLEAN

\* A Bound, which range takes for its lower and its upper end.
Bounds == [kind : {"unbounded", "included", "excluded"}, key : Nat, rid : Nat]

ASSUME CallsAssumption ==
    \A triple \in Calls :
        \/ /\ triple[3].op = "scan"
           /\ triple[3].lower \in Bounds /\ triple[3].upper \in Bounds
        \/ /\ triple[3].op \in {"insert", "delete"}
           /\ triple[3].entry \in [key : DOMAIN KeyLen, rid : Nat]

VARIABLES
    pages,   \* the pages of the tree, the root first
    call, answer, got, owed,  \* as in OrderedIndex
    made,    \* how many calls a thread has made
    at,      \* what a thread does next
    held,    \* the pages it has write latches on, from the top down
    latch,   \* the page it has a read latch on
    cursor,  \* where it reads: a leaf and a ScanPosition
    pending, \* a split that its parent does not know of: separator and page
    stale    \* the leaf as delete has read it

vars == <<pages, call, answer, got, owed, made, at, held, latch, cursor, pending, stale>>

Root    == 1
NoPage  == 0   \* NO_NEXT_LEAF
NoSplit == [key |-> 0, child |-> NoPage]

Leaf(entries, next)      == [kind |-> "leaf", entries |-> entries, next |-> next]
Internal(first, entries) == [kind |-> "internal", entries |-> entries, first |-> first]

IsLeaf(p) == pages[p].kind = "leaf"

------------------------------------------------------------------------------
(* Pages: btree_page.rs.                                                   *)

HeaderSize == 10

ASSUME PayloadAssumption ==
    /\ PayloadSize \in Nat /\ HeaderSize <= PayloadSize
    /\ \A k \in DOMAIN KeyLen : k \in Nat /\ KeyLen[k] \in Nat

\* An entry with its place in the directory, and a RecordId or a child.
EntrySize(kind, e) == 4 + KeyLen[e.key] + (IF kind = "leaf" THEN 10 ELSE 8)

\* The bytes of a page with the first n of the entries.
LenUpTo(kind, entries) ==
    LET len[n \in 0..Len(entries)] ==
            IF n = 0 THEN HeaderSize ELSE len[n - 1] + EntrySize(kind, entries[n])
    IN  len

RequiredLen(kind, entries) == LenUpTo(kind, entries)[Len(entries)]

Fits(kind, entries) == RequiredLen(kind, entries) <= PayloadSize

\* Fault: two entries' places in the directory are forgotten.
KeysAlone == (PayloadSize - (HeaderSize + 2 * 10)) \div 2

\* The keys that an empty page has room for two of; leaves have the larger
\* entries.
MaxKeyLen == (PayloadSize - (HeaderSize + 2 * (4 + 10))) \div 2

\* capacity_split_point: as many as fit, but at least one.
SplitPoint(kind, entries) ==
    Max({1} \cup {n \in DOMAIN entries : Fits(kind, SubSeq(entries, 1, n))})

\* Binary searches of sorted entries; equal keys are kept in the order of
\* their insertion.
InsertSorted(entries, e) ==
    InsertAt(entries, Cardinality({i \in DOMAIN entries : entries[i].key <= e.key}) + 1, e)

\* Is what the position asks for to the right of the separator?
Passed(separator, position) ==
    CASE position.kind = "unbounded"             -> FALSE
      [] position.kind \in {"included", "after"} -> separator < position.key
      [] position.kind = "excluded"              -> separator <= position.key

\* leftmost_child, child_for_lower_bound and child_for.
ChildFor(page, position) ==
    LET n == Cardinality({i \in DOMAIN page.entries : Passed(page.entries[i].key, position)})
    IN  IF n = 0 THEN page.first ELSE page.entries[n].child

Towards(key) == [kind |-> "excluded", key |-> key, rid |-> 0]
From(key)    == [kind |-> "included", key |-> key, rid |-> 0]

------------------------------------------------------------------------------
(* Splits, as functions of the pages.                                      *)

\* split_leaf
SplitLeaf(p, entries) ==
    LET mid == SplitPoint("leaf", entries)
        new == Len(pages) + 1
    IN  [pages |-> Append([pages EXCEPT ![p] = Leaf(SubSeq(entries, 1, mid), new)],
                          Leaf(SubSeq(entries, mid + 1, Len(entries)), pages[p].next)),
         split |-> [key |-> entries[mid + 1].key, child |-> new]]

\* split_internal: the key in the middle moves up.
SplitInternal(p, entries) ==
    LET mid == SplitPoint("internal", entries)
        up  == entries[mid + 1]
        new == Len(pages) + 1
    IN  [pages |-> Append([pages EXCEPT ![p] = Internal(@.first, SubSeq(entries, 1, mid))],
                          Internal(up.child, SubSeq(entries, mid + 2, Len(entries)))),
         split |-> [key |-> up.key, child |-> new]]

\* grow_new_root: the page moves, and becomes the parent of both halves.
GrowNewRoot(pgs, p, split) ==
    Append([pgs EXCEPT ![p] = Internal(Len(pgs) + 1, <<split>>)], pgs[p])

\* Fault: a page that fits is safe, though one more entry may split it.
FitsNow(page, key) == Fits(page.kind, page.entries)

\* leaf_is_safe_for_insert, internal_is_safe_for_insert
IsSafe(page, key) ==
    IF page.kind = "leaf"
    THEN Fits("leaf", InsertSorted(page.entries, [key |-> key]))
    ELSE RequiredLen("internal", page.entries) + 4 + MaxKeyLen + 8 <= PayloadSize

------------------------------------------------------------------------------
(* Latches, and the ends of calls.                                         *)

Readable(p) == \A u \in Thread : p \notin ToSet(held[u])

Writable(p) == Readable(p) /\ \A u \in Thread : latch[u] # p

Nowhere == [leaf |-> NoPage, position |-> [kind |-> "unbounded", key |-> 0, rid |-> 0]]

Idle == [op |-> "none"]

Init ==
    /\ pages = <<Leaf(<<>>, NoPage)>>
    /\ call = [t \in Thread |-> Idle]
    /\ answer = [t \in Thread |-> "idle"]
    /\ got = [t \in Thread |-> <<>>]
    /\ owed = [t \in Thread |-> {}]
    /\ made = [t \in Thread |-> 0]
    /\ at = [t \in Thread |-> "idle"]
    /\ held = [t \in Thread |-> <<>>]
    /\ latch = [t \in Thread |-> NoPage]
    /\ cursor = [t \in Thread |-> Nowhere]
    /\ pending = [t \in Thread |-> NoSplit]
    /\ stale = [t \in Thread |-> <<>>]

Contents == UNION {ToSet(pages[p].entries) : p \in {q \in DOMAIN pages : IsLeaf(q)}}

Goes(t, place) == at' = [at EXCEPT ![t] = place]

\* The call returns; its guards are dropped.
Returns(t, value) ==
    /\ Goes(t, "idle")
    /\ answer' = [answer EXCEPT ![t] = value]
    /\ got' = [got EXCEPT ![t] = IF value = "end" THEN @ ELSE <<>>]
    /\ held' = [held EXCEPT ![t] = <<>>]
    /\ latch' = [latch EXCEPT ![t] = NoPage]
    /\ cursor' = [cursor EXCEPT ![t] = Nowhere]
    /\ pending' = [pending EXCEPT ![t] = NoSplit]
    /\ stale' = [stale EXCEPT ![t] = <<>>]
    /\ UNCHANGED <<call, made>>

Writing(u, ops) == at[u] # "idle" /\ call[u].op \in ops

\* What callers have to see to themselves: a delete next to another writer is
\* not safe.
MayCall(c) ==
    DeletesAlone => \A u \in Thread : /\ c.op = "delete" => ~ Writing(u, {"insert", "delete"})
                                      /\ c.op = "insert" => ~ Writing(u, {"delete"})

LowerOf(c) == IF c.op = "scan" THEN c.lower ELSE From(c.entry.key)
UpperOf(c) == IF c.op = "scan" THEN c.upper ELSE From(c.entry.key)

Beyond(key, upper) ==
    CASE upper.kind = "unbounded" -> FALSE
      [] upper.kind = "included"  -> key > upper.key
      [] upper.kind = "excluded"  -> key >= upper.key

Qualifies(e, position) ==
    CASE position.kind = "unbounded" -> TRUE
      [] position.kind = "included"  -> e.key >= position.key
      [] position.kind = "excluded"  -> e.key > position.key
      [] position.kind = "after"     -> \/ e.key > position.key
                                        \/ e.key = position.key /\ e.rid > position.rid

InRange(c) == {e \in Contents : Qualifies(e, LowerOf(c)) /\ ~ Beyond(e.key, UpperOf(c))}

\* insert, delete, range and lookup: a tree with unique keys looks the key of
\* an insert up before anything else.
Call(t, c) ==
    /\ at[t] = "idle"
    /\ <<t, made[t] + 1, c>> \in Calls /\ MayCall(c)
    /\ call' = [call EXCEPT ![t] = c]
    /\ answer' = [answer EXCEPT ![t] = "none"]
    /\ got' = [got EXCEPT ![t] = <<>>]
    /\ owed' = [owed EXCEPT ![t] = IF c.op = "scan" THEN InRange(c) ELSE {}]
    /\ made' = [made EXCEPT ![t] = @ + 1]
    /\ Goes(t, IF c.op = "insert" /\ ~ Unique THEN "descend" ELSE "seek")
    /\ cursor' = [cursor EXCEPT ![t].position = LowerOf(c)]
    /\ UNCHANGED <<pages, held, latch, pending, stale>>

------------------------------------------------------------------------------
(* Reading: find_leaf, find_leaf_for_lower_bound, leftmost_leaf, RangeScan *)
(* and the first half of delete.                                           *)

\* Fault: a delete ends at a leaf that deletes have emptied.
NonEmptyMayContinue(page, key) == page.entries # <<>> /\ Last(page.entries).key <= key

MightContinue(page, key) == page.entries = <<>> \/ Last(page.entries).key <= key

\* Fault: the leaf's guard is still there when it is to be latched again.
StillHeld(latches, t, p) == [latches EXCEPT ![t] = p]

Dropped(latches, t, p) == [latches EXCEPT ![t] = NoPage]

\* delete at a leaf: the entry is here, or may be further right, or nowhere.
Examine(t, p) ==
    LET e == call[t].entry IN
    /\ CASE e \in ToSet(pages[p].entries) ->
              /\ Goes(t, "erase")
              /\ stale' = [stale EXCEPT ![t] = RemoveFirst(pages[p].entries, e)]
              /\ cursor' = [cursor EXCEPT ![t].leaf = p]
              /\ latch' = Dropped(latch, t, p)
              /\ UNCHANGED <<call, answer, got, made, held, pending>>
         [] e \notin ToSet(pages[p].entries) /\ MightContinue(pages[p], e.key) /\ pages[p].next # NoPage ->
              /\ Goes(t, "walk")
              /\ cursor' = [cursor EXCEPT ![t].leaf = pages[p].next]
              /\ latch' = Dropped(latch, t, p)
              /\ UNCHANGED <<call, answer, got, made, held, pending, stale>>
         [] OTHER -> Returns(t, "absent")
    /\ UNCHANGED <<pages, owed>>

\* One page down with the latch of its parent.
Seek(t) ==
    LET p == IF latch[t] = NoPage THEN Root ELSE ChildFor(pages[latch[t]], cursor[t].position) IN
    /\ at[t] = "seek" /\ Readable(p)
    /\ IF IsLeaf(p) /\ call[t].op = "delete"
       THEN Examine(t, p)
       ELSE /\ IF IsLeaf(p)
               THEN /\ Goes(t, "next")
                    /\ latch' = [latch EXCEPT ![t] = NoPage]
                    /\ cursor' = [cursor EXCEPT ![t].leaf = p]
               ELSE latch' = [latch EXCEPT ![t] = p] /\ UNCHANGED <<at, cursor>>
            /\ UNCHANGED <<pages, call, answer, got, owed, made, held, pending, stale>>

Walk(t) ==
    /\ at[t] = "walk" /\ Readable(cursor[t].leaf)
    /\ Examine(t, cursor[t].leaf)

\* The leaf has become the root of a higher tree: start again.
Restart(t) ==
    /\ at[t] = "next" /\ Readable(cursor[t].leaf) /\ ~ IsLeaf(cursor[t].leaf)
    /\ Goes(t, "seek")
    /\ UNCHANGED <<pages, call, answer, got, owed, made, held, latch, cursor, pending, stale>>

\* RangeScan::next has come to its end; for an insert that was the lookup.
Exhausted(t) ==
    CASE call[t].op = "scan" -> Returns(t, "end")
      [] call[t].op = "insert" /\ got[t] # <<>> -> Returns(t, "refused")
      [] call[t].op = "insert" /\ got[t] = <<>> ->
            /\ Goes(t, "descend")
            /\ cursor' = [cursor EXCEPT ![t] = Nowhere]
            /\ UNCHANGED <<call, answer, got, made, held, latch, pending, stale>>

\* What is asked of the next leaf.
Carried(position) == IF position.kind = "after" THEN From(position.key) ELSE position

\* One look at a leaf, which finds its place by value.
NextEntry(t) ==
    LET page    == pages[cursor[t].leaf]
        ahead   == {e \in ToSet(page.entries) : Qualifies(e, cursor[t].position)}
        nearest == CHOOSE e \in ahead : \A f \in ahead :
                      e.key < f.key \/ (e.key = f.key /\ e.rid <= f.rid)
    IN
    /\ at[t] = "next" /\ Readable(cursor[t].leaf) /\ IsLeaf(cursor[t].leaf)
    /\ IF ahead # {}
       THEN IF Beyond(nearest.key, UpperOf(call[t]))
            THEN Exhausted(t)
            ELSE /\ got' = [got EXCEPT ![t] = Append(@, nearest)]
                 /\ cursor' = [cursor EXCEPT ![t].position =
                                  [kind |-> "after", key |-> nearest.key, rid |-> nearest.rid]]
                 /\ UNCHANGED <<call, answer, made, at, held, latch, pending, stale>>
       ELSE IF page.next = NoPage
            THEN Exhausted(t)
            ELSE /\ cursor' = [cursor EXCEPT ![t] =
                                  [leaf |-> page.next, position |-> Carried(@.position)]]
                 /\ UNCHANGED <<call, answer, got, made, at, held, latch, pending, stale>>
    /\ UNCHANGED <<pages, owed>>

------------------------------------------------------------------------------
(* Writing.                                                                *)

TooLarge(t) ==
    /\ at[t] = "descend" /\ KeyLen[call[t].entry.key] > MaxKeyLen
    /\ Returns(t, "too large")
    /\ UNCHANGED <<pages, owed>>

\* A page was split.  Its parent is the last of the latches above it; when
\* there is none, the page was the root.
Lift(t, p, above, result) ==
    IF above = <<>>
    THEN pages' = GrowNewRoot(result.pages, p, result.split) /\ Returns(t, "inserted")
    ELSE /\ pages' = result.pages
         /\ pending' = [pending EXCEPT ![t] = result.split]
         /\ held' = [held EXCEPT ![t] = above]
         /\ Goes(t, "propagate")
         /\ answer' = [answer EXCEPT ![t] = "applied"]
         /\ UNCHANGED <<call, got, made, latch, cursor, stale>>

\* insert_into_leaf
InsertIntoLeaf(t, p, above) ==
    LET entries == InsertSorted(pages[p].entries, call[t].entry) IN
    IF Fits("leaf", entries)
    THEN pages' = [pages EXCEPT ![p].entries = entries] /\ Returns(t, "inserted")
    ELSE Lift(t, p, above, SplitLeaf(p, entries))

\* One page down, with the latches above it that a split may need.
Descend(t) ==
    LET key   == call[t].entry.key
        p     == IF held[t] = <<>> THEN Root ELSE ChildFor(pages[Last(held[t])], Towards(key))
        above == IF IsSafe(pages[p], key) THEN <<>> ELSE held[t]
    IN
    /\ at[t] = "descend" /\ KeyLen[key] <= MaxKeyLen
    /\ Writable(p)
    /\ IF IsLeaf(p)
       THEN InsertIntoLeaf(t, p, above)
       ELSE /\ held' = [held EXCEPT ![t] = Append(above, p)]
            /\ UNCHANGED <<pages, call, answer, got, made, at, latch, cursor, pending, stale>>
    /\ UNCHANGED owed

\* insert_into_internal, under the latch of the parent only
Propagate(t) ==
    LET p       == Last(held[t])
        entries == InsertSorted(pages[p].entries, pending[t])
    IN
    /\ at[t] = "propagate"
    /\ IF Fits("internal", entries)
       THEN pages' = [pages EXCEPT ![p].entries = entries] /\ Returns(t, "inserted")
       ELSE Lift(t, p, Front(held[t]), SplitInternal(p, entries))
    /\ UNCHANGED owed

\* The second half of delete writes what it has read.  A root that has grown
\* is taken for a leaf if that is how its bytes look: with one separator.
Erase(t) ==
    LET p == cursor[t].leaf
        e == call[t].entry
    IN
    /\ at[t] = "erase" /\ Writable(p)
    /\ IF IsLeaf(p) \/ Len(pages[p].entries) = 1
       THEN /\ pages' = [pages EXCEPT ![p].entries =
                           IF IsLeaf(p) THEN stale[t]
                           ELSE [i \in DOMAIN stale[t] |-> [key |-> stale[t][i].key, child |-> NoPage]]]
            /\ Returns(t, "deleted")
            /\ owed' = [u \in Thread |-> owed[u] \ {e}]
       ELSE Returns(t, "corrupt page") /\ UNCHANGED <<pages, owed>>

------------------------------------------------------------------------------

Step(t) ==
    \/ Seek(t) \/ Walk(t) \/ Restart(t) \/ NextEntry(t)
    \/ TooLarge(t) \/ Descend(t) \/ Propagate(t) \/ Erase(t)

Finished ==
    /\ \A t \in Thread : at[t] = "idle" /\ \A c \in Calls : c[1] = t => c[2] <= made[t]
    /\ UNCHANGED vars

Next ==
    \/ \E t \in Thread : Step(t) \/ \E c \in {triple[3] : triple \in Calls} : Call(t, c)
    \/ Finished

Spec == Init /\ [][Next]_vars

------------------------------------------------------------------------------
(* Properties.                                                             *)

\* Latches exclude writers, nobody keeps one after a call, and a thread with
\* a split to report holds the latch of the parent.
TypeOK ==
    \A t \in Thread :
        /\ at[t] \in {"idle", "seek", "next", "walk", "descend", "propagate", "erase"}
        /\ ToSet(held[t]) \subseteq DOMAIN pages /\ latch[t] \in {NoPage} \cup DOMAIN pages
        /\ at[t] = "propagate" => held[t] # <<>> /\ pending[t] # NoSplit
        /\ at[t] = "idle" => held[t] = <<>> /\ latch[t] = NoPage
        /\ \A u \in Thread \ {t} : ToSet(held[t]) \cap (ToSet(held[u]) \cup {latch[u]}) = {}

\* Every page fits into its bytes: a key that was accepted never makes a
\* split fail halfway up, whatever the lengths of the keys on its way.
PagesFit == \A p \in DOMAIN pages : Fits(pages[p].kind, pages[p].entries)

Leaves == {p \in DOMAIN pages : IsLeaf(p)}

LeafFor(position) ==
    LET down[p \in DOMAIN pages] ==
            IF IsLeaf(p) THEN p ELSE down[ChildFor(pages[p], position)]
    IN  down[Root]

\* At every moment, splits that are not finished included: the links lead
\* through all leaves in the order of their keys, and whoever goes down for a
\* key comes out at or to the left of its first entry.
Searchable ==
    LET from[p \in DOMAIN pages] ==
            IF ~ IsLeaf(p) \/ pages[p].next = NoPage
            THEN <<p>>
            ELSE <<p>> \o from[pages[p].next]
        chain == from[LeafFor(Nowhere.position)]
    IN
    /\ ToSet(chain) = Leaves
    /\ \A n \in DOMAIN chain : \A i \in DOMAIN pages[chain[n]].entries :
          LET key == pages[chain[n]].entries[i].key IN
          /\ \A j \in 1..(i - 1) : pages[chain[n]].entries[j].key <= key
          /\ \A m \in 1..(n - 1) : \A e \in ToSet(pages[chain[m]].entries) : e.key <= key
          /\ LeafFor(From(key)) \in ToSet(SubSeq(chain, 1, n))

\* The tree is an ordered index: nothing is lost by splits, scans skip nothing
\* that stays and repeat nothing, a key is refused only if it is there.
Index == INSTANCE OrderedIndex WITH
    Calls <- {triple[3] : triple \in Calls},
    index <- Contents,
    got   <- [t \in Thread |-> IF call[t].op = "scan" THEN got[t] ELSE <<>>]

Implements == Index!Spec

\* The page that a thread's next step latches.
Wanted(t) ==
    CASE at[t] = "seek" ->
            IF latch[t] = NoPage THEN Root ELSE ChildFor(pages[latch[t]], cursor[t].position)
      [] at[t] = "descend" ->
            IF held[t] = <<>> THEN Root
            ELSE ChildFor(pages[Last(held[t])], Towards(call[t].entry.key))
      [] at[t] \in {"next", "walk", "erase"} -> cursor[t].leaf
      [] at[t] \in {"idle", "propagate"} -> NoPage

WaitsFor(t) ==
    {u \in Thread : \/ Wanted(t) \in ToSet(held[u])
                    \/ at[t] \in {"descend", "erase"} /\ latch[u] = Wanted(t)}

\* Whichever threads wait for latches, one of them waits for none of them: no
\* thread waits for itself, and none for each other.
NoDeadlock ==
    \A waiting \in SUBSET Thread :
        waiting # {} => \E t \in waiting : WaitsFor(t) \cap waiting = {}

\* lookup and range: whatever is there for as long as a scan runs is yielded,
\* on however many leaves it is.
MissesNothing ==
    \A t \in Thread : call[t].op = "scan" /\ answer[t] = "end" => owed[t] \subseteq ToSet(got[t])

\* next: what a scan yields after it has followed a link to another leaf, it has
\* not yielded before.
YieldsOnce ==
    \A t \in Thread : call[t].op = "scan" => IsInjective(got[t])
=============================================================================
