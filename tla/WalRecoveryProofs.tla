-------------------------- MODULE WalRecoveryProofs --------------------------
(***************************************************************************)
(* Proofs about WalRecovery, for any number of transactions, pages, slots, *)
(* crashes and checkpoints.                                                *)
(***************************************************************************)
EXTENDS WalRecovery, InductionLemmas

------------------------------------------------------------------------------
(* Pages.                                                                  *)

AnyImage == Image \cup {None}
Slots    == UNION {[1..n -> AnyImage] : n \in 0..NSlots}
OnePage  == [lsn : Nat, slots : Slots]
Pages    == [Page -> OnePage]

(* The constants, in numbers. *)
LEMMA Sizes ==
  /\ NTx \in Nat /\ NSlots \in Nat /\ NPages \in Nat /\ MaxImages \in Nat /\ MaxWrites \in Nat
  /\ Seeded \in Nat /\ Seeded <= NSlots /\ Seeded <= MaxImages
  /\ Page \in SUBSET Nat /\ Slot \in SUBSET Nat /\ Image \in SUBSET Nat
  /\ 0 \notin Image /\ 0 \notin Page /\ 0 \notin Slot /\ None \in AnyImage /\ None = 0
  BY SizesAssumption DEF Page, Slot, Image, None, AnyImage

(* What a page's slots are. *)
LEMMA SlotsRight ==
  ASSUME NEW s
  PROVE  s \in Slots <=> s \in Seq(AnyImage) /\ Len(s) <= NSlots
  <1>1. ASSUME s \in Slots PROVE s \in Seq(AnyImage) /\ Len(s) <= NSlots
    <2>1. PICK n \in 0..NSlots : s \in [1..n -> AnyImage]
      BY <1>1 DEF Slots
    <2>2. n \in Nat /\ n <= NSlots
      BY <2>1, Sizes
    <2>3. s \in Seq(AnyImage) /\ Len(s) = n
      BY <2>1, <2>2
    <2>4. QED
      BY <2>2, <2>3
  <1>2. ASSUME s \in Seq(AnyImage), Len(s) <= NSlots PROVE s \in Slots
    <2>1. s \in [1..Len(s) -> AnyImage] /\ Len(s) \in 0..NSlots
      BY <1>2, Sizes
    <2>2. QED
      BY <2>1 DEF Slots
  <1>3. QED
    BY <1>1, <1>2

(* The parts of a page. *)
LEMMA PagesRight ==
  ASSUME NEW pages \in Pages, NEW p \in Page
  PROVE  /\ pages[p] \in OnePage /\ pages[p].lsn \in Nat /\ pages[p].slots \in Slots
         /\ pages[p] = [lsn |-> pages[p].lsn, slots |-> pages[p].slots]
  BY DEF Pages, OnePage

(* The free slot is a tombstone or behind the last one. *)
LEMMA FreeSlotRight ==
  ASSUME NEW s \in Slots
  PROVE  /\ FreeSlot(s) \in 1..(Len(s) + 1)
         /\ FreeSlot(s) = Len(s) + 1 \/ s[FreeSlot(s)] = None
  <1> DEFINE S == {i \in 1..(Len(s) + 1) : i = Len(s) + 1 \/ s[i] = None}
  <1>1. Len(s) \in Nat
    BY SlotsRight
  <1>2. S \in SUBSET Nat /\ Len(s) + 1 \in S
    BY <1>1
  <1>3. Min(S) \in S
    BY <1>2, MinRight
  <1>4. QED
    BY <1>3 DEF FreeSlot

(* A row is added to a page. *)
LEMMA AddToRight ==
  ASSUME NEW s \in Slots, NEW image \in AnyImage
  PROVE  AddTo(s, image) \in Slots
  <1>1. s \in Seq(AnyImage) /\ Len(s) \in Nat /\ Len(s) <= NSlots
    BY SlotsRight
  <1>2. CASE ~ Room(s)
    BY <1>2 DEF AddTo
  <1>3. CASE Room(s) /\ FreeSlot(s) = Len(s) + 1
    <2>1. AddTo(s, image) = Append(s, image)
      BY <1>3 DEF AddTo, Put
    <2>2. Len(s) + 1 <= NSlots
      BY <1>1, <1>3, Sizes DEF Room, Slot
    <2>3. Append(s, image) \in Seq(AnyImage) /\ Len(Append(s, image)) = Len(s) + 1
      BY <1>1
    <2>4. QED
      BY <2>1, <2>2, <2>3, SlotsRight
  <1>4. CASE Room(s) /\ FreeSlot(s) # Len(s) + 1
    <2>1. AddTo(s, image) = [s EXCEPT ![FreeSlot(s)] = image]
      BY <1>4 DEF AddTo, Put
    <2>2. [s EXCEPT ![FreeSlot(s)] = image] \in Seq(AnyImage)
          /\ Len([s EXCEPT ![FreeSlot(s)] = image]) = Len(s)
      <3>1. FreeSlot(s) \in 1..Len(s)
        BY <1>1, <1>4, FreeSlotRight
      <3>2. QED
        BY <1>1, <3>1
    <2>3. QED
      BY <1>1, <2>1, <2>2, SlotsRight
  <1>5. QED
    BY <1>2, <1>3, <1>4

(* What a slot holds. *)
LEMMA AtRight ==
  ASSUME NEW pages \in Pages, NEW rid \in Rid
  PROVE  /\ At(pages, rid) \in AnyImage
         /\ At(pages, rid) # None => rid[2] \in DOMAIN pages[rid[1]].slots
  <1>1. rid[1] \in Page
    BY DEF Rid
  <1>2. pages[rid[1]].slots \in Seq(AnyImage)
    BY <1>1, PagesRight, SlotsRight
  <1>3. QED
    BY <1>2, Sizes DEF At

\* The slots of a page, with the row in slot i overwritten.
Written(s, i, image) ==
    IF i \in DOMAIN s /\ s[i] # None THEN [s EXCEPT ![i] = image] ELSE s

(* A slot is overwritten. *)
LEMMA WrittenRight ==
  ASSUME NEW s \in Slots, NEW i, NEW image \in AnyImage
  PROVE  Written(s, i, image) \in Slots
  <1>1. s \in Seq(AnyImage) /\ Len(s) <= NSlots
    BY SlotsRight
  <1>2. CASE i \in DOMAIN s
    <2>1. [s EXCEPT ![i] = image] \in Seq(AnyImage) /\ Len([s EXCEPT ![i] = image]) = Len(s)
      BY <1>1, <1>2
    <2>2. QED
      BY <1>1, <2>1, SlotsRight DEF Written
  <1>3. CASE i \notin DOMAIN s
    BY <1>3 DEF Written
  <1>4. QED
    BY <1>2, <1>3

(* Overwriting changes one page and no LSN. *)
LEMMA OverwriteRight ==
  ASSUME NEW pages \in Pages, NEW rid \in Rid, NEW image \in AnyImage
  PROVE  LET new == Overwrite(pages, rid, image) IN
         /\ new \in Pages
         /\ \A p \in Page : /\ new[p].lsn = pages[p].lsn
                            /\ new[p].slots = IF p = rid[1] THEN Written(pages[p].slots, rid[2], image)
                                              ELSE pages[p].slots
  <1> DEFINE q == rid[1]
             k == [pages[q] EXCEPT !.slots = Written(@, rid[2], image)]
             new == [pages EXCEPT ![q] = k]
  <1>1. q \in Page
    BY DEF Rid
  <1>2. k \in OnePage /\ k.lsn = pages[q].lsn /\ k.slots = Written(pages[q].slots, rid[2], image)
    BY <1>1, PagesRight, WrittenRight DEF OnePage
  <1>3. Overwrite(pages, rid, image) = new
    <2>1. CASE At(pages, rid) = None
      <3>1. Written(pages[q].slots, rid[2], image) = pages[q].slots
        BY <2>1 DEF At, Written
      <3>2. pages[q] \in OnePage
        BY <1>1, PagesRight
      <3> HIDE DEF k
      <3>3. k = pages[q]
        BY <1>2, <3>1, <3>2 DEF OnePage
      <3>4. QED
        BY <1>1, <2>1, <3>3 DEF Overwrite, Pages
    <2>2. CASE At(pages, rid) # None
      <3>1. Written(pages[q].slots, rid[2], image) = [pages[q].slots EXCEPT ![rid[2]] = image]
        BY <2>2 DEF At, Written
      <3>2. k = [pages[q] EXCEPT !.slots = [pages[q].slots EXCEPT ![rid[2]] = image]]
        BY <3>1
      <3>3. QED
        BY <1>1, <2>2, <3>2 DEF Overwrite, Pages
    <2>3. QED
      BY <2>1, <2>2
  <1> HIDE DEF k
  <1>4. new \in Pages /\ \A p \in Page : new[p] = IF p = q THEN k ELSE pages[p]
    BY <1>1, <1>2 DEF Pages
  <1>5. QED
    BY <1>2, <1>3, <1>4

(* Inserting changes one page and no LSN. *)
LEMMA InsertOnRight ==
  ASSUME NEW pages \in Pages, NEW q \in Page, NEW image \in AnyImage
  PROVE  LET new == InsertOn(pages, q, image) IN
         /\ new \in Pages
         /\ \A p \in Page : /\ new[p].lsn = pages[p].lsn
                            /\ new[p].slots = IF p = q THEN AddTo(pages[p].slots, image)
                                              ELSE pages[p].slots
  <1> DEFINE k == [pages[q] EXCEPT !.slots = AddTo(@, image)]
             new == [pages EXCEPT ![q] = k]
  <1>1. k \in OnePage /\ k.lsn = pages[q].lsn /\ k.slots = AddTo(pages[q].slots, image)
    BY PagesRight, AddToRight DEF OnePage
  <1>2. InsertOn(pages, q, image) = new
    BY DEF InsertOn, Pages
  <1> HIDE DEF k
  <1>3. new \in Pages /\ \A p \in Page : new[p] = IF p = q THEN k ELSE pages[p]
    BY <1>1 DEF Pages
  <1>4. QED
    BY <1>1, <1>2, <1>3

(* Stamping changes LSNs alone, and only upwards. *)
LEMMA StampedRight ==
  ASSUME NEW pages \in Pages, NEW changed, NEW lsn \in Nat
  PROVE  LET new == Stamped(pages, changed, lsn) IN
         /\ new \in Pages
         /\ \A p \in Page : /\ new[p].lsn = IF p \in changed /\ pages[p].lsn < lsn THEN lsn
                                            ELSE pages[p].lsn
                            /\ new[p].slots = pages[p].slots
  <1> DEFINE new == Stamped(pages, changed, lsn)
             k(p) == [pages[p] EXCEPT !.lsn = lsn]
  <1>1. \A p \in Page : /\ pages[p] \in OnePage
                        /\ k(p) \in OnePage /\ k(p).lsn = lsn /\ k(p).slots = pages[p].slots
    BY PagesRight DEF OnePage
  <1>2. new = [p \in Page |-> IF p \in changed /\ pages[p].lsn < lsn THEN k(p) ELSE pages[p]]
    BY DEF Stamped
  <1> HIDE DEF k, new
  <1>3. new \in Pages
    BY <1>1, <1>2 DEF Pages
  <1>4. QED
    BY <1>1, <1>2, <1>3 DEF new

(* A row may go where there is room for it. *)
LEMMA TargetRoom ==
  ASSUME NEW pages \in Pages, NEW p \in Targets(pages)
  PROVE  p \in Page /\ Room(pages[p].slots) /\ <<p, FreeSlot(pages[p].slots)>> \in Rid
  <1>1. Fresh(pages) \in SUBSET Nat
    BY Sizes DEF Fresh
  <1>2. Fresh(pages) # {} => Min(Fresh(pages)) \in Fresh(pages)
    BY <1>1, MinRight
  <1>3. p \in Page /\ (p \in Fresh(pages) \/ Room(pages[p].slots))
    BY <1>2 DEF Targets, Used, Fresh
  <1>4. ASSUME p \in Fresh(pages) PROVE Room(pages[p].slots)
    <2>1. pages[p].slots = <<>> /\ pages[p].slots \in Slots
      BY <1>3, <1>4, PagesRight DEF Fresh, Used
    <2>2. FreeSlot(pages[p].slots) \in 1..1
      BY <2>1, FreeSlotRight
    <2>3. 1 \in Slot
      BY SizesAssumption DEF Slot
    <2>4. QED
      BY <2>2, <2>3 DEF Room
  <1>5. QED
    BY <1>3, <1>4 DEF Room, Rid

(* A page with room is found as long as there is one. *)
LEMMA TargetRight ==
  ASSUME NEW pages \in Pages, NEW believed, Targets(pages) # {}
  PROVE  TargetOf(pages, believed) \in Targets(pages) /\ Targets(pages) \subseteq Page
  <1> DEFINE offered == {p \in Used(pages) \cap believed : Room(pages[p].slots)}
  <1>1. /\ Used(pages) \in SUBSET Nat /\ Fresh(pages) \in SUBSET Nat
        /\ Used(pages) \subseteq Page /\ Fresh(pages) \subseteq Page
    BY Sizes DEF Used, Fresh
  <1>2. Fresh(pages) # {} => Min(Fresh(pages)) \in Fresh(pages)
    BY <1>1, MinRight
  <1>3. Targets(pages) \subseteq Page
    BY <1>1, <1>2 DEF Targets
  <1>4. CASE offered # {}
    <2>1. Min(offered) \in offered
      BY <1>1, <1>4, MinRight
    <2>2. QED
      BY <1>3, <1>4, <2>1 DEF TargetOf, Targets
  <1>5. CASE offered = {} /\ Fresh(pages) # {}
    BY <1>3, <1>5 DEF TargetOf, Targets
  <1>6. CASE offered = {} /\ Fresh(pages) = {}
    <2>1. Targets(pages) \in SUBSET Nat
      BY <1>3, Sizes
    <2>2. Min(Targets(pages)) \in Targets(pages)
      BY <2>1, MinRight
    <2>3. QED
      BY <1>3, <1>6, <2>2 DEF TargetOf
  <1>7. QED
    BY <1>4, <1>5, <1>6

------------------------------------------------------------------------------
(* The log.                                                                *)

Kinds == {"begin", "insert", "update", "delete", "commit", "abort", "checkpoint"}

Records == [kind : Kinds, id : 0..NTx, serial : Nat, prev : Nat, old : Nat \X Nat,
            rid : Nat \X Nat, before : AnyImage, after : AnyImage,
            active : SUBSET [id : 0..NTx, last : Nat]]

\* Where undo may start or go on.
Resumes(l, lsn) == lsn = None \/ (lsn \in 1..Len(l) /\ l[lsn].kind \in Writes \cup {"begin"})

\* A record names rows of the table and earlier records of a transaction.
Sound(l, r) ==
    /\ r \in Records
    /\ Resumes(l, r.prev)
    /\ r.kind \in Writes => r.rid \in Rid
    /\ r.kind = "update" => r.old \in Rid /\ (r.old = r.rid \/ r.old[1] # r.rid[1])
    /\ \A s \in r.active : Resumes(l, s.last)

WellLogged(l) ==
    /\ l \in Seq(Records)
    /\ \A i \in 1..Len(l) : Sound(SubSeq(l, 1, i - 1), l[i])

(* The records before one. *)
LEMMA PrefixRight ==
  ASSUME NEW l \in Seq(Records)
  PROVE  \A n \in 0..Len(l) : /\ SubSeq(l, 1, n) \in Seq(Records) /\ Len(SubSeq(l, 1, n)) = n
                              /\ \A i \in 1..n : SubSeq(l, 1, n)[i] = l[i]
  OBVIOUS

(* What the end of a log knows, the whole log knows. *)
LEMMA ResumesLater ==
  ASSUME NEW l \in Seq(Records), NEW m \in Seq(Records), NEW lsn, Resumes(l, lsn),
         Len(l) <= Len(m), \A i \in 1..Len(l) : m[i] = l[i]
  PROVE  Resumes(m, lsn)
  BY DEF Resumes

(* So a record that was good when it was written is good ever after. *)
LEMMA SoundLater ==
  ASSUME NEW l \in Seq(Records), NEW m \in Seq(Records), NEW r, Sound(l, r),
         Len(l) <= Len(m), \A i \in 1..Len(l) : m[i] = l[i]
  PROVE  Sound(m, r)
  <1>1. \A lsn : Resumes(l, lsn) => Resumes(m, lsn)
    BY ResumesLater
  <1>2. QED
    BY <1>1 DEF Sound

(* A record of a well-formed log is as good to the whole log. *)
LEMMA SoundInside ==
  ASSUME NEW l, WellLogged(l), NEW i \in 1..Len(l)
  PROVE  Sound(l, l[i])
  <1> DEFINE m == SubSeq(l, 1, i - 1)
  <1>1. l \in Seq(Records) /\ i - 1 \in 0..Len(l)
    BY DEF WellLogged
  <1>2. m \in Seq(Records) /\ Len(m) = i - 1 /\ \A k \in 1..(i - 1) : m[k] = l[k]
    BY <1>1, PrefixRight
  <1>3. Sound(m, l[i])
    BY DEF WellLogged
  <1> HIDE DEF m
  <1>4. Len(m) <= Len(l) /\ \A k \in 1..Len(m) : l[k] = m[k]
    BY <1>1, <1>2
  <1>5. QED
    BY <1>1, <1>2, <1>3, <1>4, SoundLater

(* The record before the one that undo is at comes earlier. *)
LEMMA PrevEarlier ==
  ASSUME NEW l, WellLogged(l), NEW i \in 1..Len(l)
  PROVE  l[i].prev < i /\ \A s \in l[i].active : s.last < i
  <1> DEFINE m == SubSeq(l, 1, i - 1)
  <1>1. l \in Seq(Records) /\ i - 1 \in 0..Len(l) /\ i \in Nat
    BY DEF WellLogged
  <1>2. Len(m) = i - 1
    BY <1>1, PrefixRight
  <1>3. Sound(m, l[i])
    BY DEF WellLogged
  <1> HIDE DEF m
  <1>4. \A lsn : Resumes(m, lsn) => lsn < i
    BY <1>1, <1>2 DEF Resumes, None
  <1>5. QED
    BY <1>3, <1>4 DEF Sound

(* The log grows by a record. *)
LEMMA LogGrows ==
  ASSUME NEW l, WellLogged(l), NEW r, Sound(l, r)
  PROVE  /\ WellLogged(Append(l, r)) /\ Len(Append(l, r)) = Len(l) + 1
         /\ Append(l, r)[Len(l) + 1] = r /\ \A i \in 1..Len(l) : Append(l, r)[i] = l[i]
  <1> DEFINE m == Append(l, r)
  <1>1. l \in Seq(Records) /\ r \in Records /\ Len(l) \in Nat
    BY DEF WellLogged, Sound
  <1>2. /\ m \in Seq(Records) /\ Len(m) = Len(l) + 1
        /\ m[Len(l) + 1] = r /\ \A i \in 1..Len(l) : m[i] = l[i]
    BY <1>1
  <1> HIDE DEF m
  <1>3. ASSUME NEW i \in 1..(Len(l) + 1) PROVE SubSeq(m, 1, i - 1) = SubSeq(l, 1, i - 1)
    BY <1>1, <1>2, <1>3
  <1>4. SubSeq(l, 1, Len(l)) = l
    BY <1>1
  <1>5. ASSUME NEW i \in 1..Len(m) PROVE Sound(SubSeq(m, 1, i - 1), m[i])
    <2>1. CASE i = Len(l) + 1
      <3>1. SubSeq(m, 1, i - 1) = l
        BY <1>1, <1>3, <1>4, <2>1
      <3>2. QED
        BY <1>2, <2>1, <3>1
    <2>2. CASE i # Len(l) + 1
      <3>1. i \in 1..Len(l) /\ i \in 1..(Len(l) + 1)
        BY <1>1, <1>2, <2>2
      <3>2. Sound(SubSeq(l, 1, i - 1), l[i])
        BY <3>1 DEF WellLogged
      <3>3. QED
        BY <1>2, <1>3, <3>1, <3>2
    <2>3. QED
      BY <2>1, <2>2
  <1>6. WellLogged(m)
    BY <1>2, <1>5 DEF WellLogged
  <1>7. QED
    BY <1>2, <1>6 DEF m

(* The log grows by several. *)
LEMMA LogJoins ==
  ASSUME NEW l, WellLogged(l), NEW s \in Seq(Records), \A i \in 1..Len(s) : Sound(l, s[i])
  PROVE  /\ WellLogged(l \o s) /\ Len(l \o s) = Len(l) + Len(s)
         /\ \A i \in 1..Len(l) : (l \o s)[i] = l[i]
         /\ \A i \in 1..Len(s) : (l \o s)[Len(l) + i] = s[i]
  <1> DEFINE m == l \o s
  <1>1. l \in Seq(Records) /\ Len(l) \in Nat /\ Len(s) \in Nat
    BY DEF WellLogged
  <1>2. /\ m \in Seq(Records) /\ Len(m) = Len(l) + Len(s)
        /\ \A i \in 1..Len(l) : m[i] = l[i]
        /\ \A i \in 1..Len(s) : m[Len(l) + i] = s[i]
    BY <1>1
  <1> HIDE DEF m
  <1>3. ASSUME NEW i \in 1..Len(m) PROVE Sound(SubSeq(m, 1, i - 1), m[i])
    <2>1. i - 1 \in 0..Len(m)
      BY <1>1, <1>2
    <2>2. /\ SubSeq(m, 1, i - 1) \in Seq(Records) /\ Len(SubSeq(m, 1, i - 1)) = i - 1
          /\ \A k \in 1..(i - 1) : SubSeq(m, 1, i - 1)[k] = m[k]
      BY <1>2, <2>1, PrefixRight
    <2>3. CASE i <= Len(l)
      <3>1. i \in 1..Len(l) /\ i - 1 \in 0..Len(l)
        BY <1>1, <1>2, <2>3
      <3>2. /\ SubSeq(l, 1, i - 1) \in Seq(Records) /\ Len(SubSeq(l, 1, i - 1)) = i - 1
            /\ \A k \in 1..(i - 1) : SubSeq(l, 1, i - 1)[k] = l[k]
        BY <1>1, <3>1, PrefixRight
      <3>3. Sound(SubSeq(l, 1, i - 1), l[i])
        BY <3>1 DEF WellLogged
      <3>4. /\ Len(SubSeq(l, 1, i - 1)) <= Len(SubSeq(m, 1, i - 1))
            /\ \A k \in 1..Len(SubSeq(l, 1, i - 1)) : SubSeq(m, 1, i - 1)[k] = SubSeq(l, 1, i - 1)[k]
        BY <1>1, <1>2, <2>2, <3>1, <3>2
      <3>5. Sound(SubSeq(m, 1, i - 1), l[i])
        BY <2>2, <3>2, <3>3, <3>4, SoundLater
      <3>6. QED
        BY <1>2, <3>1, <3>5
    <2>4. CASE i > Len(l)
      <3>1. i - Len(l) \in 1..Len(s) /\ i = Len(l) + (i - Len(l))
        BY <1>1, <1>2, <2>4
      <3>2. m[i] = s[i - Len(l)]
        BY <1>2, <3>1
      <3>3. Sound(l, m[i])
        BY <3>1, <3>2
      <3>4. /\ Len(l) <= Len(SubSeq(m, 1, i - 1))
            /\ \A k \in 1..Len(l) : SubSeq(m, 1, i - 1)[k] = l[k]
        BY <1>1, <1>2, <2>2, <2>4
      <3>5. QED
        BY <1>1, <2>2, <3>3, <3>4, SoundLater
    <2>5. QED
      BY <1>1, <1>2, <2>3, <2>4
  <1>4. WellLogged(m)
    BY <1>2, <1>3 DEF WellLogged
  <1>5. QED
    BY <1>2, <1>4 DEF m

(* A crash keeps the beginning of the log. *)
LEMMA LogShrinks ==
  ASSUME NEW l, WellLogged(l), NEW n \in 0..Len(l)
  PROVE  /\ WellLogged(SubSeq(l, 1, n)) /\ Len(SubSeq(l, 1, n)) = n
         /\ \A i \in 1..n : SubSeq(l, 1, n)[i] = l[i]
  <1> DEFINE m == SubSeq(l, 1, n)
  <1>1. l \in Seq(Records) /\ n \in Nat /\ n <= Len(l)
    BY DEF WellLogged
  <1>2. m \in Seq(Records) /\ Len(m) = n /\ \A i \in 1..n : m[i] = l[i]
    BY <1>1, PrefixRight
  <1>3. ASSUME NEW i \in 1..n PROVE SubSeq(m, 1, i - 1) = SubSeq(l, 1, i - 1)
    <2> HIDE DEF m
    <2>1. QED
      BY <1>1, <1>2
  <1>4. \A i \in 1..n : Sound(SubSeq(l, 1, i - 1), l[i])
    BY <1>1 DEF WellLogged
  <1> HIDE DEF m
  <1>5. WellLogged(m)
    BY <1>2, <1>3, <1>4 DEF WellLogged
  <1>6. QED
    BY <1>2, <1>5 DEF m

------------------------------------------------------------------------------
(* Undo.                                                                   *)

(* A row that moved is followed to a row of the table. *)
LEMMA FollowedRight ==
  ASSUME NEW moves \in [Rid -> Rid], NEW rid \in Rid
  PROVE  Followed(moves, rid) \in Rid
  <1> DEFINE n == Cardinality(Rid)
             Hops(h) == h = [i \in 0..n |-> IF i = 0 THEN rid ELSE moves[h[i - 1]]]
             hop[i \in 0..n] == IF i = 0 THEN rid ELSE moves[hop[i - 1]]
  <1>1. n \in Nat
    <2>1. IsFiniteSet(Page) /\ IsFiniteSet(Slot)
      BY Sizes, FS_Interval DEF Page, Slot
    <2>2. QED
      BY <2>1, FS_Product, FS_CardinalityType DEF Rid
  <1>2. Followed(moves, rid) = hop[n]
    BY DEF Followed
  <1>3. hop = CHOOSE h : Hops(h)
    OBVIOUS
  <1> HIDE DEF n
  <1>4. \E h : Hops(h)
    <2> DEFINE step == [a \in Rid \X (1..n) |-> moves[a[1]]]
    <2>1. step \in [Rid \X (1..n) -> Rid]
      OBVIOUS
    <2>2. \A r \in Rid : \A i \in 1..n : step[<<r, i>>] = moves[r]
      OBVIOUS
    <2> HIDE DEF step
    <2>3. PICK f : Fold(f, Rid, n, rid, step)
      BY <1>1, <2>1, Folds
    <2>4. /\ f \in [0..n -> Rid] /\ f[0] = rid
          /\ \A i \in 1..n : f[i] = step[<<f[i - 1], i>>]
      BY <2>3 DEF Fold
    <2>5. \A i \in 1..n : f[i - 1] \in Rid /\ i - 1 \in 0..n
      BY <1>1, <2>4
    <2>6. \A i \in 0..n : f[i] = IF i = 0 THEN rid ELSE moves[f[i - 1]]
      <3>1. ASSUME NEW i \in 0..n, i # 0 PROVE f[i] = moves[f[i - 1]]
        <4>1. i \in 1..n
          BY <1>1, <3>1
        <4>2. QED
          BY <2>2, <2>4, <2>5, <4>1
      <3>2. QED
        BY <2>4, <3>1
    <2>7. Hops(f)
      BY <2>4, <2>6
    <2>8. QED
      BY <2>7
  <1>5. hop = [i \in 0..n |-> IF i = 0 THEN rid ELSE moves[hop[i - 1]]]
    <2> HIDE DEF hop, Hops
    <2>1. Hops(hop)
      BY <1>3, <1>4
    <2>2. QED
      BY <2>1 DEF Hops
  <1> HIDE DEF hop
  <1> DEFINE Good == {i \in 0..n : hop[i] \in Rid}
  <1>6. 0 \in Good
    BY <1>1, <1>5
  <1>7. ASSUME NEW i \in 1..n, i - 1 \in Good PROVE i \in Good
    <2>1. i \in 0..n /\ i # 0 /\ hop[i - 1] \in Rid
      BY <1>1, <1>7
    <2>2. hop[i] = moves[hop[i - 1]]
      BY <1>5, <2>1
    <2>3. QED
      BY <2>1, <2>2
  <1> HIDE DEF Good
  <1>8. 0..n \subseteq Good
    BY <1>1, <1>6, <1>7, Climbs
  <1>9. n \in Good
    BY <1>1, <1>8
  <1>10. QED
    BY <1>2, <1>9 DEF Good

\* Pages that differ from others in their rows alone.
Restored(pages) == {q \in Pages : \A p \in Page : q[p].lsn = pages[p].lsn}

Undoing(pages) == [lsn : {i \in Nat : Resumes(log, i)}, pages : Restored(pages),
                   moves : [Rid -> Rid], returns : BOOLEAN, fits : BOOLEAN]

(* Pages with a row overwritten differ in their rows. *)
LEMMA OverwriteRestores ==
  ASSUME NEW pages, NEW q \in Restored(pages), NEW rid \in Rid, NEW image \in AnyImage
  PROVE  Overwrite(q, rid, image) \in Restored(pages)
  <1>1. q \in Pages
    BY DEF Restored
  <1>2. QED
    BY <1>1, OverwriteRight DEF Restored

(* Pages with a row added too. *)
LEMMA InsertRestores ==
  ASSUME NEW pages, NEW q \in Restored(pages), NEW p \in Page, NEW image \in AnyImage
  PROVE  InsertOn(q, p, image) \in Restored(pages)
  <1>1. q \in Pages
    BY DEF Restored
  <1>2. QED
    BY <1>1, InsertOnRight DEF Restored

(* Moves lead from rows of the table to rows of the table. *)
LEMMA MovedRight ==
  ASSUME NEW moves \in [Rid -> Rid], NEW from, NEW to \in Rid
  PROVE  Moved(moves, from, to) \in [Rid -> Rid]
  BY DEF Moved

(* Undoing one record changes rows alone. *)
LEMMA UndoOneRight ==
  ASSUME NEW pages, NEW acc \in Undoing(pages), NEW r \in Records, NEW believed,
         r.kind \in Writes, r.rid \in Rid
  PROVE  UndoOne(acc, r, believed) \in Undoing(pages)
  <1> DEFINE u == UndoOne(acc, r, believed)
             rid == Followed(acc.moves, r.rid)
  <1>1. /\ acc.lsn \in Nat /\ Resumes(log, acc.lsn) /\ acc.pages \in Restored(pages)
        /\ acc.pages \in Pages
        /\ acc.moves \in [Rid -> Rid] /\ acc.returns \in BOOLEAN /\ acc.fits \in BOOLEAN
    BY DEF Undoing, Restored
  <1>2. r.before \in AnyImage /\ None \in AnyImage
    BY Sizes DEF Records
  <1>3. rid \in Rid
    BY <1>1, FollowedRight
  <1>4. CASE ~ acc.returns
    BY <1>4 DEF UndoOne
  <1>5. CASE acc.returns /\ r.kind = "delete"
    <2> DEFINE p  == TargetOf(acc.pages, believed)
               to == <<p, FreeSlot(acc.pages[p].slots)>>
    <2>1. u = UndoDelete(acc, r, believed)
      BY <1>5 DEF UndoOne
    <2>2. CASE Targets(acc.pages) = {}
      <3>1. u = [acc EXCEPT !.fits = FALSE]
        BY <2>1, <2>2 DEF UndoDelete
      <3>2. QED
        BY <3>1 DEF Undoing
    <2>3. CASE Targets(acc.pages) # {}
      <3>1. u = [acc EXCEPT !.pages = InsertOn(acc.pages, p, r.before),
                            !.moves = Moved(acc.moves, r.rid, to)]
        BY <2>1, <2>3 DEF UndoDelete
      <3>2. p \in Targets(acc.pages) /\ p \in Page
        BY <1>1, <2>3, TargetRight
      <3>3. to \in Rid
        BY <1>1, <3>2, TargetRoom
      <3> HIDE DEF p, to, u
      <3>4. InsertOn(acc.pages, p, r.before) \in Restored(pages)
        BY <1>1, <1>2, <3>2, InsertRestores
      <3>5. Moved(acc.moves, r.rid, to) \in [Rid -> Rid]
        BY <1>1, <3>3, MovedRight
      <3>6. QED
        BY <3>1, <3>4, <3>5 DEF Undoing, u
    <2>4. QED
      BY <2>2, <2>3
  <1>6. CASE acc.returns /\ r.kind # "delete" /\ ~ Resolves(acc.moves, r.rid)
    <2>1. u = [acc EXCEPT !.returns = FALSE]
      BY <1>6 DEF UndoOne
    <2>2. QED
      BY <2>1 DEF Undoing
  <1>7. CASE acc.returns /\ r.kind = "update" /\ Resolves(acc.moves, r.rid)
    <2>1. u = [acc EXCEPT !.pages = Overwrite(acc.pages, rid, r.before),
                          !.moves = Moved(acc.moves, r.old, rid)]
      BY <1>7 DEF UndoOne, UndoUpdate
    <2> HIDE DEF rid
    <2>2. Overwrite(acc.pages, rid, r.before) \in Restored(pages)
      BY <1>1, <1>2, <1>3, OverwriteRestores
    <2>3. Moved(acc.moves, r.old, rid) \in [Rid -> Rid]
      BY <1>1, <1>3, MovedRight
    <2> HIDE DEF u
    <2>4. QED
      BY <2>1, <2>2, <2>3 DEF Undoing, u
  <1>8. CASE acc.returns /\ r.kind = "insert" /\ Resolves(acc.moves, r.rid)
    <2>1. u = [acc EXCEPT !.pages = Overwrite(acc.pages, rid, None)]
      BY <1>8 DEF UndoOne, UndoInsert
    <2> HIDE DEF rid
    <2>2. Overwrite(acc.pages, rid, None) \in Restored(pages)
      BY <1>1, <1>2, <1>3, OverwriteRestores
    <2> HIDE DEF u
    <2>3. QED
      BY <2>1, <2>2 DEF Undoing, u
  <1>9. QED
    BY <1>1, <1>4, <1>5, <1>6, <1>7, <1>8 DEF Writes

(* One step back along prev_lsn. *)
LEMMA UndoNextRight ==
  ASSUME NEW pages, NEW acc \in Undoing(pages), NEW believed, WellLogged(log)
  PROVE  UndoNext(acc, believed) \in Undoing(pages)
  <1> DEFINE r == log[acc.lsn]
             u == UndoOne(acc, r, believed)
  <1>1. Resumes(log, acc.lsn)
    BY DEF Undoing
  <1>2. CASE acc.lsn = None \/ r.kind = "begin"
    BY <1>2 DEF UndoNext
  <1>3. CASE acc.lsn # None /\ r.kind # "begin"
    <2>1. acc.lsn \in 1..Len(log) /\ r.kind \in Writes
      BY <1>1, <1>3 DEF Resumes
    <2>2. Sound(log, r)
      BY <2>1, SoundInside
    <2>3. r \in Records /\ r.rid \in Rid /\ Resumes(log, r.prev) /\ r.prev \in Nat
      BY <2>1, <2>2 DEF Sound, Records
    <2>4. u \in Undoing(pages)
      BY <2>1, <2>3, UndoOneRight
    <2>5. UndoNext(acc, believed) = [u EXCEPT !.lsn = r.prev]
      BY <1>3 DEF UndoNext
    <2> HIDE DEF u, r
    <2>6. QED
      BY <2>3, <2>4, <2>5 DEF Undoing
  <1>4. QED
    BY <1>2, <1>3

(* Undoing a transaction changes rows alone. *)
LEMMA UndoRight ==
  ASSUME NEW pages \in Pages, NEW last \in Nat, NEW believed, WellLogged(log),
         Resumes(log, last)
  PROVE  Undo(pages, last, believed) \in Undoing(pages)
  <1> DEFINE n == Len(log)
             A == Undoing(pages)
             start == UndoStart(pages, last)
             Undoes(h) == h = [i \in 0..n |-> IF i = 0 THEN start ELSE UndoNext(h[i - 1], believed)]
             undone[i \in 0..n] == IF i = 0 THEN start ELSE UndoNext(undone[i - 1], believed)
  <1>1. n \in Nat
    BY DEF WellLogged
  <1>2. Undo(pages, last, believed) = undone[n]
    BY DEF Undo
  <1>3. undone = CHOOSE h : Undoes(h)
    OBVIOUS
  <1>4. start \in A
    <2>1. [rid \in Rid |-> rid] \in [Rid -> Rid] /\ pages \in Restored(pages)
      BY DEF Restored
    <2>2. QED
      BY <2>1 DEF UndoStart, Undoing
  <1>5. \A acc \in A : UndoNext(acc, believed) \in A
    BY UndoNextRight
  <1> HIDE DEF n, A, start, undone
  <1>6. \E h : Undoes(h)
    <2> DEFINE step == [a \in A \X (1..n) |-> UndoNext(a[1], believed)]
    <2>1. step \in [A \X (1..n) -> A]
      BY <1>5
    <2>2. \A acc \in A : \A i \in 1..n : step[<<acc, i>>] = UndoNext(acc, believed)
      OBVIOUS
    <2> HIDE DEF step, Undoes
    <2>3. PICK f : Fold(f, A, n, start, step)
      BY <1>1, <1>4, <2>1, Folds
    <2>4. /\ f \in [0..n -> A] /\ f[0] = start
          /\ \A i \in 1..n : f[i] = step[<<f[i - 1], i>>]
      BY <2>3 DEF Fold
    <2>5. ASSUME NEW i \in 0..n, i # 0 PROVE f[i] = UndoNext(f[i - 1], believed)
      <3>1. i \in 1..n /\ i - 1 \in 0..n
        BY <1>1, <2>5
      <3>2. QED
        BY <2>2, <2>4, <3>1
    <2>6. \A i \in 0..n : f[i] = IF i = 0 THEN start ELSE UndoNext(f[i - 1], believed)
      BY <2>4, <2>5
    <2>7. Undoes(f)
      BY <2>4, <2>6 DEF Undoes
    <2>8. QED
      BY <2>7
  <1>7. undone = [i \in 0..n |-> IF i = 0 THEN start ELSE UndoNext(undone[i - 1], believed)]
    <2> HIDE DEF Undoes
    <2>1. Undoes(undone)
      BY <1>3, <1>6
    <2>2. QED
      BY <2>1 DEF Undoes
  <1> DEFINE Good == {i \in 0..n : undone[i] \in A}
  <1>8. 0 \in Good
    BY <1>1, <1>4, <1>7
  <1>9. ASSUME NEW i \in 1..n, i - 1 \in Good PROVE i \in Good
    <2>1. i \in 0..n /\ i # 0 /\ undone[i - 1] \in A
      BY <1>1, <1>9
    <2>2. undone[i] = UndoNext(undone[i - 1], believed)
      BY <1>7, <2>1
    <2>3. QED
      BY <1>5, <2>1, <2>2
  <1> HIDE DEF Good
  <1>10. 0..n \subseteq Good
    BY <1>1, <1>8, <1>9, Climbs
  <1>11. n \in Good
    BY <1>1, <1>10
  <1>12. QED
    BY <1>2, <1>11 DEF Good, A

(* A transaction that wrote nothing has nothing to undo. *)
LEMMA UndoNothing ==
  ASSUME NEW pages \in Pages, NEW believed, WellLogged(log)
  PROVE  Undo(pages, None, believed) = UndoStart(pages, None)
  <1> DEFINE n == Len(log)
             start == UndoStart(pages, None)
             Undoes(h) == h = [i \in 0..n |-> IF i = 0 THEN start ELSE UndoNext(h[i - 1], believed)]
             undone[i \in 0..n] == IF i = 0 THEN start ELSE UndoNext(undone[i - 1], believed)
             all == [i \in 0..n |-> start]
  <1>1. n \in Nat
    BY DEF WellLogged
  <1>2. Undo(pages, None, believed) = undone[n]
    BY DEF Undo
  <1>3. undone = CHOOSE h : Undoes(h)
    OBVIOUS
  <1>4. UndoNext(start, believed) = start
    BY DEF UndoNext, UndoStart
  <1> HIDE DEF n, start, undone
  <1>5. \A i \in 0..n : all[i] = IF i = 0 THEN start ELSE UndoNext(all[i - 1], believed)
    <2>1. \A i \in 0..n : i # 0 => i - 1 \in 0..n
      BY <1>1
    <2>2. QED
      BY <1>4, <2>1
  <1>6. Undoes(all)
    BY <1>5
  <1>7. undone = [i \in 0..n |-> IF i = 0 THEN start ELSE UndoNext(undone[i - 1], believed)]
    <2> HIDE DEF Undoes, all
    <2>1. Undoes(undone)
      BY <1>3, <1>6
    <2>2. QED
      BY <2>1 DEF Undoes
  <1> DEFINE Good == {i \in 0..n : undone[i] = start}
  <1>8. 0 \in Good
    BY <1>1, <1>7
  <1>9. ASSUME NEW i \in 1..n, i - 1 \in Good PROVE i \in Good
    <2>1. i \in 0..n /\ i # 0 /\ undone[i - 1] = start
      BY <1>1, <1>9
    <2>2. undone[i] = UndoNext(undone[i - 1], believed)
      BY <1>7, <2>1
    <2>3. QED
      BY <1>4, <2>1, <2>2
  <1> HIDE DEF Good
  <1>10. 0..n \subseteq Good
    BY <1>1, <1>8, <1>9, Climbs
  <1>11. n \in Good
    BY <1>1, <1>10
  <1>12. QED
    BY <1>2, <1>11 DEF Good, start

------------------------------------------------------------------------------
(* Redo.                                                                   *)

\* What redo has at hand: a record for the accumulator.
Redoing(n) == [pages : {q \in Pages : \A p \in Page : q[p].lsn <= n}, exact : BOOLEAN]

(* A row is redone. *)
LEMMA RedoInsertRight ==
  ASSUME NEW n \in Nat, NEW acc \in Redoing(n), NEW r \in Records, NEW lsn \in 0..n,
         r.rid \in Rid
  PROVE  RedoInsert(acc, r, lsn) \in Redoing(n)
  <1> DEFINE q    == r.rid[1]
             page == acc.pages[q]
             base == IF page.lsn = 0 THEN <<>> ELSE page.slots
             k    == [lsn |-> lsn, slots |-> AddTo(base, r.after)]
             new  == [acc.pages EXCEPT ![q] = k]
  <1>1. /\ acc.pages \in Pages /\ acc.exact \in BOOLEAN
        /\ \A p \in Page : acc.pages[p].lsn <= n
    BY DEF Redoing
  <1>2. q \in Page /\ r.after \in AnyImage /\ r.rid[2] \in Nat
    BY Sizes DEF Rid, Records
  <1>3. <<>> \in Slots
    <2>1. <<>> \in Seq(AnyImage) /\ Len(<<>>) = 0 /\ 0 <= NSlots
      BY Sizes
    <2>2. QED
      BY <2>1, SlotsRight
  <1>4. base \in Slots
    BY <1>1, <1>2, <1>3, PagesRight
  <1>5. AddTo(base, r.after) \in Slots
    BY <1>2, <1>4, AddToRight
  <1>6. k \in OnePage /\ k.lsn = lsn
    BY <1>5 DEF OnePage
  <1>7. CASE page.lsn >= lsn
    BY <1>7 DEF RedoInsert
  <1>8. CASE ~ (page.lsn >= lsn)
    <2>1. RedoInsert(acc, r, lsn) = [pages |-> new, exact |-> acc.exact /\ FreeSlot(base) = r.rid[2]]
      BY <1>8 DEF RedoInsert
    <2> HIDE DEF k
    <2>2. new \in Pages /\ \A p \in Page : new[p] = IF p = q THEN k ELSE acc.pages[p]
      BY <1>1, <1>2, <1>6 DEF Pages
    <2>3. \A p \in Page : new[p].lsn <= n
      BY <1>1, <1>6, <2>2
    <2>4. (acc.exact /\ FreeSlot(base) = r.rid[2]) \in BOOLEAN
      OBVIOUS
    <2> HIDE DEF new
    <2>5. QED
      BY <2>1, <2>2, <2>3, <2>4 DEF Redoing
  <1>9. QED
    BY <1>7, <1>8

(* A row is overwritten by redo. *)
LEMMA RedoOverwriteRight ==
  ASSUME NEW n \in Nat, NEW acc \in Redoing(n), NEW rid \in Rid, NEW image \in AnyImage,
         NEW lsn \in 0..n
  PROVE  RedoOverwrite(acc, rid, image, lsn) \in Redoing(n)
  <1> DEFINE over == Overwrite(acc.pages, rid, image)
             new  == Stamped(over, {rid[1]}, lsn)
  <1>1. /\ acc.pages \in Pages /\ acc.exact \in BOOLEAN
        /\ \A p \in Page : acc.pages[p].lsn <= n
    BY DEF Redoing
  <1>2. CASE acc.pages[rid[1]].lsn >= lsn
    BY <1>2 DEF RedoOverwrite
  <1>3. CASE ~ (acc.pages[rid[1]].lsn >= lsn)
    <2>1. RedoOverwrite(acc, rid, image, lsn) = [acc EXCEPT !.pages = new]
      BY <1>3 DEF RedoOverwrite
    <2>2. over \in Pages /\ \A p \in Page : over[p].lsn <= n
      BY <1>1, OverwriteRight
    <2> HIDE DEF over
    <2>3. new \in Pages /\ \A p \in Page : new[p].lsn <= n
      BY <2>2, StampedRight
    <2> HIDE DEF new
    <2>4. QED
      BY <2>1, <2>3 DEF Redoing
  <1>4. QED
    BY <1>2, <1>3

(* One record is redone. *)
LEMMA RedoOneRight ==
  ASSUME NEW acc \in Redoing(Len(log)), NEW lsn \in 1..Len(log), WellLogged(log)
  PROVE  RedoOne(acc, lsn) \in Redoing(Len(log))
  <1> DEFINE r == log[lsn]
             n == Len(log)
  <1>1. n \in Nat /\ lsn \in 0..n /\ acc \in Redoing(n)
    BY DEF WellLogged
  <1>2. Sound(log, r)
    BY SoundInside
  <1>3. /\ r \in Records /\ r.kind \in Kinds /\ r.after \in AnyImage /\ None \in AnyImage
        /\ r.kind \in Writes => r.rid \in Rid
        /\ r.kind = "update" => r.old \in Rid
    BY <1>2, Sizes DEF Sound, Records
  <1> HIDE DEF r, n
  <1>4. CASE r.kind = "insert"
    <2>1. RedoOne(acc, lsn) = RedoInsert(acc, r, lsn)
      BY <1>4 DEF RedoOne, Writes, r
    <2>2. RedoInsert(acc, r, lsn) \in Redoing(n)
      BY <1>1, <1>3, <1>4, RedoInsertRight DEF Writes
    <2>3. QED
      BY <2>1, <2>2 DEF n
  <1>5. CASE r.kind = "delete"
    <2>1. RedoOne(acc, lsn) = RedoOverwrite(acc, r.rid, None, lsn)
      BY <1>5 DEF RedoOne, Writes, r
    <2>2. RedoOverwrite(acc, r.rid, None, lsn) \in Redoing(n)
      BY <1>1, <1>3, <1>5, RedoOverwriteRight DEF Writes
    <2>3. QED
      BY <2>1, <2>2 DEF n
  <1>6. CASE r.kind = "update" /\ r.old = r.rid
    <2>1. RedoOne(acc, lsn) = RedoOverwrite(acc, r.rid, r.after, lsn)
      BY <1>6 DEF RedoOne, Writes, r
    <2>2. RedoOverwrite(acc, r.rid, r.after, lsn) \in Redoing(n)
      BY <1>1, <1>3, <1>6, RedoOverwriteRight DEF Writes
    <2>3. QED
      BY <2>1, <2>2 DEF n
  <1>7. CASE r.kind = "update" /\ r.old # r.rid
    <2> DEFINE in == RedoInsert(acc, r, lsn)
    <2>1. RedoOne(acc, lsn) = RedoOverwrite(in, r.old, None, lsn)
      BY <1>7 DEF RedoOne, Writes, r
    <2>2. in \in Redoing(n)
      BY <1>1, <1>3, <1>7, RedoInsertRight DEF Writes
    <2> HIDE DEF in
    <2>3. RedoOverwrite(in, r.old, None, lsn) \in Redoing(n)
      BY <1>1, <1>3, <1>7, <2>2, RedoOverwriteRight
    <2>4. QED
      BY <2>1, <2>3 DEF n
  <1>8. CASE r.kind \notin Writes
    <2>1. RedoOne(acc, lsn) = acc
      BY <1>8 DEF RedoOne, r, Writes
    <2>2. QED
      BY <2>1
  <1>9. QED
    BY <1>4, <1>5, <1>6, <1>7, <1>8 DEF Writes

\* What redo makes of the pages, after each record of the log.
Redoes(f, pages) ==
    /\ f \in [0..Len(log) -> Redoing(Len(log))]
    /\ \A i \in 0..Len(log) : f[i] = IF i <= LastCheckpoint THEN [pages |-> pages, exact |-> TRUE]
                                     ELSE RedoOne(f[i - 1], i)

(* The last record of CHECKPOINT, if there is one. *)
LEMMA LastCheckpointRight ==
  ASSUME WellLogged(log)
  PROVE  /\ LastCheckpoint \in 0..Len(log)
         /\ LastCheckpoint # 0 => log[LastCheckpoint].kind = "checkpoint"
         /\ \A i \in 1..Len(log) : log[i].kind = "checkpoint" => i <= LastCheckpoint
  <1> DEFINE S == {0} \cup {i \in DOMAIN log : log[i].kind = "checkpoint"}
  <1>1. Len(log) \in Nat /\ DOMAIN log = 1..Len(log)
    BY DEF WellLogged
  <1>2. S \in SUBSET (0..Len(log)) /\ S # {}
    BY <1>1
  <1>3. Max(S) \in S /\ \A x \in S : Max(S) >= x
    BY <1>1, <1>2, MaxRight
  <1>4. LastCheckpoint = Max(S)
    BY DEF LastCheckpoint
  <1>5. QED
    BY <1>1, <1>2, <1>3, <1>4

(* Redo goes through the log, record by record. *)
LEMMA RedoRuns ==
  ASSUME NEW pages \in Pages, \A p \in Page : pages[p].lsn <= Len(log), WellLogged(log)
  PROVE  \E f : Redoes(f, pages) /\ Redo(pages) = f[Len(log)]
  <1> DEFINE n == Len(log)
             c == LastCheckpoint
             A == Redoing(n)
             start == [pages |-> pages, exact |-> TRUE]
             Runs(h) == h = [i \in 0..n |-> IF i <= c THEN start ELSE RedoOne(h[i - 1], i)]
             redone[i \in 0..n] == IF i <= c THEN start ELSE RedoOne(redone[i - 1], i)
  <1>1. n \in Nat /\ c \in 0..n
    BY LastCheckpointRight DEF WellLogged
  <1>2. Redo(pages) = redone[n]
    BY DEF Redo
  <1>3. redone = CHOOSE h : Runs(h)
    OBVIOUS
  <1>4. start \in A
    BY DEF Redoing
  <1>5. \A acc \in A : \A i \in 1..n : RedoOne(acc, i) \in A
    BY RedoOneRight
  <1> HIDE DEF n, A, start, redone, c
  <1>6. \E h : Runs(h)
    <2> DEFINE step == [a \in A \X (1..n) |-> IF a[2] <= c THEN start ELSE RedoOne(a[1], a[2])]
    <2>1. step \in [A \X (1..n) -> A]
      BY <1>4, <1>5
    <2>2. \A acc \in A : \A i \in 1..n :
             step[<<acc, i>>] = IF i <= c THEN start ELSE RedoOne(acc, i)
      OBVIOUS
    <2> HIDE DEF step, Runs
    <2>3. PICK f : Fold(f, A, n, start, step)
      BY <1>1, <1>4, <2>1, Folds
    <2>4. /\ f \in [0..n -> A] /\ f[0] = start
          /\ \A i \in 1..n : f[i] = step[<<f[i - 1], i>>]
      BY <2>3 DEF Fold
    <2>5. ASSUME NEW i \in 0..n, i # 0 PROVE f[i] = IF i <= c THEN start ELSE RedoOne(f[i - 1], i)
      <3>1. i \in 1..n /\ i - 1 \in 0..n
        BY <1>1, <2>5
      <3>2. QED
        BY <2>2, <2>4, <3>1
    <2>6. \A i \in 0..n : f[i] = IF i <= c THEN start ELSE RedoOne(f[i - 1], i)
      BY <1>1, <2>4, <2>5
    <2>7. Runs(f)
      BY <2>4, <2>6 DEF Runs
    <2>8. QED
      BY <2>7
  <1>7. redone = [i \in 0..n |-> IF i <= c THEN start ELSE RedoOne(redone[i - 1], i)]
    <2> HIDE DEF Runs
    <2>1. Runs(redone)
      BY <1>3, <1>6
    <2>2. QED
      BY <2>1 DEF Runs
  <1> DEFINE Good == {i \in 0..n : redone[i] \in A}
  <1>8. 0 \in Good
    BY <1>1, <1>4, <1>7
  <1>9. ASSUME NEW i \in 1..n, i - 1 \in Good PROVE i \in Good
    <2>1. i \in 0..n /\ redone[i - 1] \in A
      BY <1>1, <1>9
    <2>2. redone[i] = IF i <= c THEN start ELSE RedoOne(redone[i - 1], i)
      BY <1>7, <2>1
    <2>3. QED
      BY <1>4, <1>5, <2>1, <2>2
  <1> HIDE DEF Good
  <1>10. 0..n \subseteq Good
    BY <1>1, <1>8, <1>9, Climbs
  <1>11. \A i \in 0..n : redone[i] \in A
    BY <1>10 DEF Good
  <1>12. redone \in [0..n -> A]
    BY <1>7, <1>11
  <1>13. \A i \in 0..n : redone[i] = IF i <= c THEN start ELSE RedoOne(redone[i - 1], i)
    BY <1>7
  <1>14. Redoes(redone, pages)
    BY <1>12, <1>13 DEF Redoes, n, A, c, start
  <1>15. QED
    BY <1>2, <1>14 DEF n

------------------------------------------------------------------------------
(* The losers.                                                             *)

(* A transaction that recovery undoes is one that the log knows, and its   *)
(* last record is a place where undo may start.                            *)
LEMMA LosersRight ==
  ASSUME WellLogged(log), NEW id \in Losers
  PROVE  id \in 0..NTx /\ LastLsn(id) \in Nat /\ Resumes(log, LastLsn(id))
  <1> DEFINE seeds == {s.last : s \in {x \in Seeds : x.id = id}}
             later == {i \in Scanned : log[i].id = id}
             S     == seeds \cup later
             n     == Len(log)
  <1>1. n \in Nat /\ LastCheckpoint \in 0..n /\ Scanned \in SUBSET (1..n)
    BY LastCheckpointRight DEF WellLogged, Scanned
  <1>2. \A i \in 1..n : log[i] \in Records /\ Sound(log, log[i])
    BY SoundInside DEF Sound
  <1>3. ASSUME NEW s \in Seeds PROVE s.id \in 0..NTx /\ s.last \in Nat /\ s.last <= n /\ Resumes(log, s.last)
    <2>1. LastCheckpoint # 0 /\ s \in log[LastCheckpoint].active
      BY <1>1, <1>3 DEF Seeds
    <2>2. LastCheckpoint \in 1..n
      BY <1>1, <2>1
    <2>3. s \in [id : 0..NTx, last : Nat] /\ Resumes(log, s.last)
      BY <1>2, <2>1, <2>2 DEF Sound, Records
    <2>4. QED
      BY <1>1, <2>3 DEF Resumes, None
  <1>4. ASSUME NEW i \in later PROVE i \in 1..n /\ log[i].kind \in Writes \cup {"begin"}
    <2>1. i \in Scanned /\ i \in 1..n /\ i > LastCheckpoint /\ log[i].id = id
      BY <1>1, <1>4 DEF Scanned
    <2>2. log[i].kind \in Kinds
      BY <1>2, <2>1 DEF Records
    <2>3. ~ Resolved(id)
      BY DEF Losers
    <2>4. log[i].kind \notin {"commit", "abort"}
      BY <2>1, <2>3 DEF Resolved
    <2>5. log[i].kind # "checkpoint"
      BY <1>1, <2>1, LastCheckpointRight
    <2>6. QED
      BY <2>1, <2>2, <2>4, <2>5 DEF Kinds, Writes
  <1>5. \A x \in S : x \in 0..n /\ Resumes(log, x)
    <2>1. \A x \in seeds : x \in 0..n /\ Resumes(log, x)
      BY <1>1, <1>3
    <2>2. \A x \in later : x \in 0..n /\ Resumes(log, x)
      BY <1>1, <1>4 DEF Resumes
    <2>3. QED
      BY <2>1, <2>2
  <1>6. id \in 0..NTx /\ S # {}
    <2>1. id \in KnownIds
      BY DEF Losers
    <2>2. CASE \E s \in Seeds : id = s.id
      BY <1>3, <2>2
    <2>3. CASE \E i \in Scanned : id = log[i].id
      BY <1>1, <1>2, <2>3 DEF Records
    <2>4. QED
      BY <2>1, <2>2, <2>3 DEF KnownIds
  <1>7. LastLsn(id) = Max(S)
    BY DEF LastLsn
  <1> HIDE DEF S
  <1>8. Max(S) \in S
    BY <1>1, <1>5, <1>6, MaxRight
  <1>9. QED
    BY <1>1, <1>5, <1>6, <1>7, <1>8

(* They are listed in some order. *)
LEMMA OrderRight ==
  ASSUME WellLogged(log), NEW order \in SetToSeqs(Losers)
  PROVE  Len(order) \in Nat /\ order \in [1..Len(order) -> Losers]
  <1>1. Losers \subseteq 0..NTx
    BY LosersRight
  <1>2. Cardinality(Losers) \in Nat
    <2>1. IsFiniteSet(0..NTx)
      BY Sizes, FS_Interval
    <2>2. IsFiniteSet(Losers)
      BY <1>1, <2>1, FS_Subset
    <2>3. QED
      BY <2>2, FS_CardinalityType
  <1>3. order \in [1..Cardinality(Losers) -> Losers]
    BY DEF SetToSeqs
  <1>4. Len(order) = Cardinality(Losers)
    BY <1>2, <1>3
  <1>5. QED
    BY <1>2, <1>3, <1>4

UndoneLosers(pages) == [pages : Restored(pages), returns : BOOLEAN, fits : BOOLEAN]

(* Undoing them changes rows alone. *)
LEMMA UndoLosersRight ==
  ASSUME NEW pages \in Pages, NEW order \in SetToSeqs(Losers), NEW believed, WellLogged(log)
  PROVE  UndoLosers(pages, order, believed) \in UndoneLosers(pages)
  <1> DEFINE n == Len(order)
             A == UndoneLosers(pages)
             start == [pages |-> pages, returns |-> TRUE, fits |-> TRUE]
             Undoes(h) == h = [i \in 0..n |-> IF i = 0 THEN start
                                              ELSE UndoLoser(h[i - 1], order[i], believed)]
             undone[i \in 0..n] == IF i = 0 THEN start
                                   ELSE UndoLoser(undone[i - 1], order[i], believed)
  <1>1. n \in Nat /\ order \in [1..n -> Losers]
    BY OrderRight
  <1>2. UndoLosers(pages, order, believed) = undone[n]
    BY DEF UndoLosers
  <1>3. undone = CHOOSE h : Undoes(h)
    OBVIOUS
  <1>4. start \in A
    BY DEF Restored, UndoneLosers
  <1>5. ASSUME NEW acc \in A, NEW i \in 1..n PROVE UndoLoser(acc, order[i], believed) \in A
    <2> DEFINE u == Undo(acc.pages, LastLsn(order[i]), believed)
    <2>1. order[i] \in Losers
      BY <1>1
    <2>2. LastLsn(order[i]) \in Nat /\ Resumes(log, LastLsn(order[i]))
      BY <2>1, LosersRight
    <2>3. acc.pages \in Pages /\ acc.pages \in Restored(pages) /\ acc.returns \in BOOLEAN
          /\ acc.fits \in BOOLEAN
      BY DEF UndoneLosers, Restored
    <2>4. u \in Undoing(acc.pages)
      BY <2>2, <2>3, UndoRight
    <2>5. UndoLoser(acc, order[i], believed) =
             [pages |-> u.pages, returns |-> acc.returns /\ u.returns, fits |-> acc.fits /\ u.fits]
      BY DEF UndoLoser
    <2> HIDE DEF u
    <2>6. u.pages \in Restored(acc.pages) /\ u.returns \in BOOLEAN /\ u.fits \in BOOLEAN
      BY <2>4 DEF Undoing
    <2>7. u.pages \in Restored(pages)
      BY <2>3, <2>6 DEF Restored
    <2>8. QED
      BY <2>3, <2>5, <2>6, <2>7 DEF UndoneLosers
  <1> HIDE DEF n, A, start, undone
  <1>6. \E h : Undoes(h)
    <2> DEFINE step == [a \in A \X (1..n) |-> UndoLoser(a[1], order[a[2]], believed)]
    <2>1. step \in [A \X (1..n) -> A]
      BY <1>5
    <2>2. \A acc \in A : \A i \in 1..n : step[<<acc, i>>] = UndoLoser(acc, order[i], believed)
      OBVIOUS
    <2> HIDE DEF step, Undoes
    <2>3. PICK f : Fold(f, A, n, start, step)
      BY <1>1, <1>4, <2>1, Folds
    <2>4. /\ f \in [0..n -> A] /\ f[0] = start
          /\ \A i \in 1..n : f[i] = step[<<f[i - 1], i>>]
      BY <2>3 DEF Fold
    <2>5. ASSUME NEW i \in 0..n, i # 0 PROVE f[i] = UndoLoser(f[i - 1], order[i], believed)
      <3>1. i \in 1..n /\ i - 1 \in 0..n
        BY <1>1, <2>5
      <3>2. QED
        BY <2>2, <2>4, <3>1
    <2>6. \A i \in 0..n : f[i] = IF i = 0 THEN start ELSE UndoLoser(f[i - 1], order[i], believed)
      BY <2>4, <2>5
    <2>7. Undoes(f)
      BY <2>4, <2>6 DEF Undoes
    <2>8. QED
      BY <2>7
  <1>7. undone = [i \in 0..n |-> IF i = 0 THEN start ELSE UndoLoser(undone[i - 1], order[i], believed)]
    <2> HIDE DEF Undoes
    <2>1. Undoes(undone)
      BY <1>3, <1>6
    <2>2. QED
      BY <2>1 DEF Undoes
  <1> DEFINE Good == {i \in 0..n : undone[i] \in A}
  <1>8. 0 \in Good
    BY <1>1, <1>4, <1>7
  <1>9. ASSUME NEW i \in 1..n, i - 1 \in Good PROVE i \in Good
    <2>1. i \in 0..n /\ i # 0 /\ undone[i - 1] \in A
      BY <1>1, <1>9
    <2>2. undone[i] = UndoLoser(undone[i - 1], order[i], believed)
      BY <1>7, <2>1
    <2>3. QED
      BY <1>5, <2>1, <2>2
  <1> HIDE DEF Good
  <1>10. 0..n \subseteq Good
    BY <1>1, <1>8, <1>9, Climbs
  <1>11. n \in Good
    BY <1>1, <1>10
  <1>12. QED
    BY <1>2, <1>11 DEF Good, A

(* The Abort records of the losers follow the log. *)
LEMMA AbortsRight ==
  ASSUME WellLogged(log), NEW order \in SetToSeqs(Losers)
  PROVE  /\ WellLogged(LogAborts(order)) /\ Len(LogAborts(order)) = Len(log) + Len(order)
         /\ Len(order) \in Nat
         /\ \A i \in 1..Len(log) : LogAborts(order)[i] = log[i]
         /\ \A i \in (Len(log) + 1)..Len(LogAborts(order)) : LogAborts(order)[i].kind = "abort"
  <1> DEFINE n == Len(order)
             abort(i) == Record("abort", order[i], SerialOf(LastLsn(order[i])), LastLsn(order[i]))
             s == [i \in 1..n |-> abort(i)]
  <1>1. n \in Nat /\ order \in [1..n -> Losers] /\ Len(log) \in Nat
    BY OrderRight DEF WellLogged
  <1>2. ASSUME NEW i \in 1..n PROVE Sound(log, abort(i)) /\ abort(i).kind = "abort"
    <2> DEFINE last == LastLsn(order[i])
               serial == SerialOf(last)
    <2>1. order[i] \in Losers
      BY <1>1
    <2>2. order[i] \in 0..NTx /\ last \in Nat /\ Resumes(log, last)
      BY <2>1, LosersRight
    <2>3. serial \in Nat
      <3>1. CASE last = None
        BY <3>1 DEF SerialOf
      <3>2. CASE last # None
        <4>1. last \in 1..Len(log)
          BY <2>2, <3>2 DEF Resumes
        <4>2. log[last] \in Records
          BY <4>1, SoundInside DEF Sound
        <4>3. QED
          BY <3>2, <4>2 DEF SerialOf, Records
      <3>3. QED
        BY <3>1, <3>2
    <2>4. abort(i) = Record("abort", order[i], serial, last)
      OBVIOUS
    <2> HIDE DEF last, serial, abort
    <2>5. /\ abort(i) \in Records /\ abort(i).kind = "abort" /\ abort(i).prev = last
          /\ abort(i).active = {}
      BY <2>2, <2>3, <2>4, Sizes DEF Record, Records, Kinds, NoRid
    <2>6. QED
      BY <2>2, <2>5 DEF Sound, Writes
  <1>3. LogAborts(order) = log \o s
    BY DEF LogAborts
  <1> HIDE DEF abort, n
  <1>4. s \in Seq(Records) /\ Len(s) = n /\ \A i \in 1..n : s[i] = abort(i)
    <2>1. \A i \in 1..n : abort(i) \in Records
      BY <1>2 DEF Sound
    <2>2. QED
      BY <1>1, <2>1
  <1> HIDE DEF s
  <1>5. \A i \in 1..Len(s) : Sound(log, s[i])
    BY <1>2, <1>4
  <1>6. /\ WellLogged(log \o s) /\ Len(log \o s) = Len(log) + Len(s)
        /\ \A i \in 1..Len(log) : (log \o s)[i] = log[i]
        /\ \A i \in 1..Len(s) : (log \o s)[Len(log) + i] = s[i]
    BY <1>4, <1>5, LogJoins
  <1>7. ASSUME NEW i \in (Len(log) + 1)..Len(log \o s) PROVE (log \o s)[i].kind = "abort"
    <2>1. i - Len(log) \in 1..n /\ i = Len(log) + (i - Len(log))
      BY <1>1, <1>4, <1>6
    <2>2. (log \o s)[i] = abort(i - Len(log))
      BY <1>4, <1>6, <2>1
    <2>3. QED
      BY <1>2, <2>1, <2>2
  <1>8. QED
    BY <1>1, <1>3, <1>4, <1>6, <1>7 DEF n

------------------------------------------------------------------------------
(* The invariant.                                                          *)

LogTyped ==
    /\ WellLogged(log)
    /\ durable \in Nat /\ flushed \in Nat
    /\ durable <= flushed /\ flushed <= Len(log)

PagesTyped ==
    /\ cache \in Pages /\ os \in Pages /\ disk \in Pages
    /\ \A p \in Page : cache[p].lsn <= Len(log)

\* A transaction's last record is one that undo may start from; one that does
\* not run has none.
TxFits(l, x) ==
    /\ x \in [state : {"unborn", "live", "ended"}, id : 0..NTx, last : Nat, writes : 0..MaxWrites]
    /\ Resumes(l, x.last)
    /\ x.state # "live" => x.last = None

TxTyped == tx = [t \in Tx |-> tx[t]] /\ \A t \in Tx : TxFits(log, tx[t])

\* The ids given out are fewer than the transactions begun.
Numbered ==
    /\ nextId \in Nat /\ made \in Nat /\ crashes \in Nat
    /\ phase \in {"up", "down", "recovered", "hung"}
    /\ \A t \in Tx : tx[t].state = "unborn" => nextId < t

\* Neither version of a page on the disk is ahead of the synced log.
Behind == \A p \in Page : os[p].lsn <= durable /\ disk[p].lsn <= durable

WalInv == LogTyped /\ PagesTyped /\ TxTyped /\ Numbered /\ Behind

(* At first the log has one record, and the pages are stamped with it.     *)
LEMMA WalInit == Init => WalInv
  <1> SUFFICES ASSUME Init PROVE WalInv
    OBVIOUS
  <1> DEFINE start == [p \in Page |-> IF p = 1 /\ Seeded > 0
                                      THEN [lsn |-> 1, slots |-> [i \in 1..Seeded |-> i]]
                                      ELSE [lsn |-> 0, slots |-> <<>>]]
             r == CheckpointRecord({})
  <1>1. /\ log = <<r>> /\ flushed = 1 /\ durable = 1
        /\ cache = start /\ os = start /\ disk = start
        /\ tx = [t \in Tx |-> [state |-> "unborn", id |-> 0, last |-> None, writes |-> 0]]
        /\ nextId = 0 /\ phase = "up" /\ crashes = 0 /\ made = Seeded
    BY DEF Init
  <1>2. r \in Records /\ r.kind = "checkpoint" /\ r.prev = None /\ r.active = {}
    BY Sizes DEF CheckpointRecord, Record, Records, Kinds, NoRid
  <1> HIDE DEF r
  <1>3. LogTyped
    <2>1. WellLogged(<<>>)
      BY DEF WellLogged
    <2>2. Sound(<<>>, r)
      BY <1>2 DEF Sound, Writes, Resumes
    <2>3. WellLogged(Append(<<>>, r))
      BY <2>1, <2>2, LogGrows
    <2>4. Append(<<>>, r) = <<r>> /\ Len(<<r>>) = 1
      OBVIOUS
    <2>5. QED
      BY <1>1, <2>3, <2>4 DEF LogTyped
  <1>4. start \in Pages /\ \A p \in Page : start[p].lsn <= 1
    <2>1. [i \in 1..Seeded |-> i] \in Slots
      <3>1. \A i \in 1..Seeded : i \in AnyImage
        BY Sizes DEF AnyImage, Image
      <3>2. Seeded \in 0..NSlots
        BY Sizes
      <3>3. QED
        BY <3>1, <3>2 DEF Slots
    <2>2. <<>> \in Slots
      <3>1. <<>> \in Seq(AnyImage) /\ Len(<<>>) = 0 /\ 0 <= NSlots
        BY Sizes
      <3>2. QED
        BY <3>1, SlotsRight
    <2> DEFINE a == [lsn |-> 1, slots |-> [i \in 1..Seeded |-> i]]
               b == [lsn |-> 0, slots |-> <<>>]
    <2>3. a \in OnePage /\ b \in OnePage /\ a.lsn = 1 /\ b.lsn = 0
      BY <2>1, <2>2 DEF OnePage
    <2>4. start = [p \in Page |-> IF p = 1 /\ Seeded > 0 THEN a ELSE b]
      OBVIOUS
    <2> HIDE DEF a, b, start
    <2>5. QED
      BY <2>3, <2>4 DEF Pages
  <1> HIDE DEF start
  <1>5. PagesTyped /\ Behind
    BY <1>1, <1>4 DEF PagesTyped, Behind
  <1>6. TxTyped /\ Numbered
    <2> DEFINE x == [state |-> "unborn", id |-> 0, last |-> None, writes |-> 0]
    <2>1. tx = [t \in Tx |-> x] /\ \A t \in Tx : t \in Nat /\ 0 < t
      BY <1>1 DEF Tx
    <2>2. TxFits(log, x) /\ x.state = "unborn"
      BY Sizes DEF TxFits, Resumes
    <2> HIDE DEF x
    <2>3. QED
      BY <1>1, <2>1, <2>2, Sizes DEF TxTyped, Numbered
  <1>7. QED
    BY <1>3, <1>5, <1>6 DEF WalInv

\* A log and a longer one.
Extends(m, l) == WellLogged(m) /\ Len(l) <= Len(m) /\ \A i \in 1..Len(l) : m[i] = l[i]

(* A transaction fits a longer log as well. *)
LEMMA FitsLater ==
  ASSUME NEW l, WellLogged(l), NEW m, Extends(m, l), NEW x, TxFits(l, x)
  PROVE  TxFits(m, x)
  BY ResumesLater DEF TxFits, Extends, WellLogged

(* A statement appends a record, and a Begin record before the first one. *)
LEMMA LogWriteRight ==
  ASSUME LogTyped, TxTyped, NEW t \in Live, tx[t].writes < MaxWrites,
         NEW kind \in Writes, NEW old \in Rid \cup {NoRid}, NEW rid \in Rid,
         kind = "update" => old \in Rid /\ (old = rid \/ old[1] # rid[1]),
         NEW before \in AnyImage, NEW after \in AnyImage,
         LogWrite(t, kind, old, rid, before, after)
  PROVE  /\ Extends(log', log) /\ Len(log') \in Nat /\ Len(log) < Len(log')
         /\ TxTyped'
         /\ \A u \in Tx : tx'[u].state = tx[u].state
         /\ \A i \in (Len(log) + 1)..(Len(log') - 1) : log'[i].kind = "begin"
         /\ log'[Len(log')].kind = kind /\ log'[Len(log')].old = old
         /\ log'[Len(log')].rid = rid /\ log'[Len(log')].after = after
  <1> DEFINE begun == Begun(t)
             prev  == IF tx[t].last = None THEN Len(begun) ELSE tx[t].last
             r     == [Record(kind, tx[t].id, t, prev) EXCEPT
                         !.old = old, !.rid = rid, !.before = before, !.after = after]
  <1>1. log' = Append(begun, r) /\ tx' = [tx EXCEPT ![t].last = Len(log'), ![t].writes = @ + 1]
    BY DEF LogWrite
  <1>2. t \in Tx /\ t \in Nat /\ tx[t].state = "live" /\ TxFits(log, tx[t])
    BY DEF Live, Tx, TxTyped
  <1>3. WellLogged(log) /\ Len(log) \in Nat
    BY DEF LogTyped, WellLogged
  <1>4. /\ WellLogged(begun) /\ Len(begun) \in Nat /\ Len(log) <= Len(begun)
        /\ \A i \in 1..Len(log) : begun[i] = log[i]
        /\ \A i \in (Len(log) + 1)..Len(begun) : begun[i].kind = "begin"
        /\ prev \in Nat /\ Resumes(begun, prev)
    <2>1. CASE tx[t].last = None
      <3> DEFINE b == Record("begin", tx[t].id, t, None)
      <3>1. begun = Append(log, b) /\ prev = Len(begun)
        BY <2>1 DEF Begun
      <3>2. b \in Records /\ b.kind = "begin" /\ b.prev = None /\ b.active = {}
        BY <1>2, Sizes DEF Record, Records, Kinds, NoRid, TxFits
      <3> HIDE DEF b
      <3>3. Sound(log, b)
        BY <3>2 DEF Sound, Writes, Resumes
      <3>4. /\ WellLogged(begun) /\ Len(begun) = Len(log) + 1
            /\ begun[Len(log) + 1] = b /\ \A i \in 1..Len(log) : begun[i] = log[i]
        BY <1>3, <3>1, <3>3, LogGrows
      <3> HIDE DEF begun
      <3>5. \A i \in (Len(log) + 1)..Len(begun) : i = Len(log) + 1
        BY <1>3, <3>4
      <3>6. Resumes(begun, Len(begun))
        BY <1>3, <3>2, <3>4 DEF Resumes
      <3>7. QED
        BY <1>3, <3>1, <3>2, <3>4, <3>5, <3>6
    <2>2. CASE tx[t].last # None
      <3>1. begun = log /\ prev = tx[t].last
        BY <2>2 DEF Begun
      <3>2. \A i \in (Len(log) + 1)..Len(log) : FALSE
        BY <1>3
      <3>3. QED
        BY <1>2, <1>3, <3>1, <3>2 DEF TxFits
    <2>3. QED
      BY <2>1, <2>2
  <1> HIDE DEF begun, prev
  <1>5. /\ r \in Records /\ r.kind = kind /\ r.old = old /\ r.rid = rid /\ r.after = after
        /\ r.prev = prev /\ r.active = {}
    <2>1. rid \in Nat \X Nat /\ old \in Nat \X Nat
      <3>1. \A x \in Rid : x \in Nat \X Nat
        BY Sizes DEF Rid
      <3>2. NoRid \in Nat \X Nat
        BY DEF NoRid
      <3>3. QED
        BY <3>1, <3>2
    <2>2. kind \in Kinds /\ tx[t].id \in 0..NTx /\ None \in AnyImage
      BY <1>2, Sizes DEF Writes, Kinds, TxFits
    <2> DEFINE q == Record(kind, tx[t].id, t, prev)
    <2>3. q \in Records /\ q.kind = kind /\ q.prev = prev /\ q.active = {}
      BY <1>2, <1>4, <2>2, Sizes DEF Records, Record, NoRid
    <2>4. r = [q EXCEPT !.old = old, !.rid = rid, !.before = before, !.after = after]
      OBVIOUS
    <2> HIDE DEF q, r
    <2>5. QED
      BY <2>1, <2>3, <2>4 DEF Records
  <1> HIDE DEF r
  <1>6. Sound(begun, r)
    BY <1>4, <1>5 DEF Sound, Writes
  <1>7. /\ WellLogged(log') /\ Len(log') = Len(begun) + 1
        /\ log'[Len(begun) + 1] = r /\ \A i \in 1..Len(begun) : log'[i] = begun[i]
    BY <1>1, <1>4, <1>6, LogGrows
  <1>8. /\ Extends(log', log) /\ Len(log') \in Nat /\ Len(log) < Len(log')
        /\ Len(log') = Len(begun) + 1
    BY <1>3, <1>4, <1>7 DEF Extends
  <1>9. \A i \in (Len(log) + 1)..(Len(log') - 1) : log'[i].kind = "begin"
    BY <1>3, <1>4, <1>7
  <1>10. log'[Len(log')] = r
    BY <1>7
  <1>11. Resumes(log', Len(log'))
    BY <1>4, <1>5, <1>8, <1>10 DEF Resumes
  <1>12. TxTyped' /\ \A u \in Tx : tx'[u].state = tx[u].state
    <2> DEFINE x == [tx[t] EXCEPT !.last = Len(log'), !.writes = @ + 1]
    <2>1. \A u \in Tx : TxFits(log', tx[u])
      BY <1>3, <1>8, FitsLater DEF TxTyped
    <2>2. TxFits(log', x) /\ x.state = "live"
      <3>1. tx[t].writes + 1 \in 0..MaxWrites
        BY <1>2, Sizes DEF TxFits
      <3>2. QED
        BY <1>2, <1>8, <1>11, <3>1 DEF TxFits
    <2>3. tx' = [tx EXCEPT ![t] = x] /\ tx = [u \in Tx |-> tx[u]]
      BY <1>1 DEF TxTyped
    <2> HIDE DEF x
    <2>4. tx' = [u \in Tx |-> IF u = t THEN x ELSE tx[u]]
      BY <1>2, <2>3
    <2>5. QED
      BY <1>2, <2>1, <2>2, <2>4 DEF TxTyped
  <1>13. QED
    BY <1>5, <1>8, <1>9, <1>10, <1>12

------------------------------------------------------------------------------
(* What the statements do to the pages.                                    *)

\* The pages that a record is about; the one that a row is added to; the row
\* that is overwritten on another, and what it becomes.
Touched(r)   == IF r.kind \notin Writes THEN {}
                ELSE {r.rid[1]} \cup (IF r.kind = "update" THEN {r.old[1]} ELSE {})
Enters(r, p) == p = r.rid[1] /\ (r.kind = "insert" \/ (r.kind = "update" /\ r.old # r.rid))
RowOf(r)     == IF r.kind = "update" THEN r.old ELSE r.rid
ImageOf(r)   == IF r.kind = "update" /\ r.old = r.rid THEN r.after ELSE None

\* A page after the statement that wrote a record.
SlotsAfter(page, r, p) == IF Enters(r, p) THEN AddTo(page.slots, r.after)
                          ELSE Written(page.slots, RowOf(r)[2], ImageOf(r))
PageAfter(page, r, lsn, p) ==
    IF p \in Touched(r) THEN [lsn |-> lsn, slots |-> SlotsAfter(page, r, p)] ELSE page

(* It is stamped if the record is about it. *)
LEMMA PageAfterLsn ==
  ASSUME NEW page, NEW r, NEW lsn, NEW p
  PROVE  /\ PageAfter(page, r, lsn, p).lsn = IF p \in Touched(r) THEN lsn ELSE page.lsn
         /\ p \notin Touched(r) => PageAfter(page, r, lsn, p) = page
  BY DEF PageAfter

\* A statement appends its record, changes the pages it is about and stamps them.
Wrote ==
    LET lsn == Len(log')
        r   == log'[lsn]
    IN  /\ Extends(log', log) /\ lsn \in Nat /\ Len(log) < lsn
        /\ \A i \in (Len(log) + 1)..(lsn - 1) : log'[i].kind = "begin"
        /\ r.kind \in Writes
        /\ TxTyped' /\ \A u \in Tx : tx'[u].state = tx[u].state
        /\ cache' \in Pages
        /\ \A p \in Page : cache'[p] = PageAfter(cache[p], r, lsn, p)
        /\ \A p \in Page : Enters(r, p) => FreeSlot(cache[p].slots) = r.rid[2]
        /\ made' \in Nat /\ Live # {}
        /\ phase = "up" /\ UNCHANGED <<flushed, durable, os, disk, nextId, phase, crashes>>

(* Two pages that agree on their parts are the same. *)
LEMMA SamePage ==
  ASSUME NEW pages \in Pages, NEW p \in Page, NEW lsn, NEW slots,
         pages[p].lsn = lsn, pages[p].slots = slots
  PROVE  pages[p] = [lsn |-> lsn, slots |-> slots]
  BY PagesRight

(* INSERT. *)
LEMMA InsertWrote ==
  ASSUME WalInv, NEW t \in Tx, NEW p \in Page, Insert(t, p)
  PROVE  Wrote
  <1> DEFINE lsn == Len(log')
             r   == log'[lsn]
             rid == <<p, FreeSlot(cache[p].slots)>>
             mid == InsertOn(cache, p, made')
             new == Stamped(mid, {p}, lsn)
  <1>1. /\ LogTyped /\ TxTyped /\ cache \in Pages /\ \A q \in Page : cache[q].lsn <= Len(log)
        /\ Len(log) \in Nat
    BY DEF WalInv, PagesTyped, LogTyped, WellLogged
  <1>2. /\ t \in Live /\ tx[t].writes < MaxWrites /\ phase = "up"
        /\ p \in Targets(cache) /\ made' \in Image
        /\ LogWrite(t, "insert", NoRid, rid, None, made')
        /\ cache' = new
        /\ UNCHANGED <<flushed, durable, os, disk, nextId, phase, crashes>>
    BY DEF Insert, MayWrite, Up, NewImage
  <1>3. rid \in Rid /\ made' \in AnyImage /\ None \in AnyImage /\ made' \in Nat
    BY <1>1, <1>2, TargetRoom, Sizes DEF AnyImage
  <1> HIDE DEF rid
  <1>4. /\ Extends(log', log) /\ lsn \in Nat /\ Len(log) < lsn
        /\ TxTyped' /\ \A u \in Tx : tx'[u].state = tx[u].state
        /\ \A i \in (Len(log) + 1)..(lsn - 1) : log'[i].kind = "begin"
        /\ r.kind = "insert" /\ r.rid = rid /\ r.after = made'
    BY <1>1, <1>2, <1>3, LogWriteRight DEF Writes
  <1> HIDE DEF lsn, r
  <1>5. /\ mid \in Pages
        /\ \A q \in Page : /\ mid[q].lsn = cache[q].lsn
                           /\ mid[q].slots = IF q = p THEN AddTo(cache[q].slots, made')
                                             ELSE cache[q].slots
    BY <1>1, <1>3, InsertOnRight
  <1> HIDE DEF mid
  <1>6. /\ new \in Pages
        /\ \A q \in Page : /\ new[q].lsn = IF q \in {p} /\ mid[q].lsn < lsn THEN lsn ELSE mid[q].lsn
                           /\ new[q].slots = mid[q].slots
    BY <1>4, <1>5, StampedRight
  <1> HIDE DEF new
  <1>7. rid[1] = p /\ rid[2] = FreeSlot(cache[p].slots)
    BY DEF rid
  <1>8. Touched(r) = {p} /\ \A q : Enters(r, q) <=> q = p
    BY <1>4, <1>7 DEF Touched, Enters, Writes
  <1>9. ASSUME NEW q \in Page PROVE new[q] = PageAfter(cache[q], r, lsn, q)
    <2>1. CASE q = p
      <3>1. cache[q].lsn < lsn
        <4>1. cache[q].lsn \in Nat
          BY <1>1, PagesRight
        <4>2. cache[q].lsn <= Len(log)
          BY <1>1
        <4>3. Len(log) \in Nat /\ lsn \in Nat /\ Len(log) < lsn
          BY <1>1, <1>4
        <4>4. QED
          BY <4>1, <4>2, <4>3
      <3>2. new[q].lsn = lsn /\ new[q].slots = AddTo(cache[q].slots, made')
        BY <1>5, <1>6, <2>1, <3>1
      <3>3. new[q] = [lsn |-> lsn, slots |-> AddTo(cache[q].slots, made')]
        BY <1>6, <3>2, SamePage
      <3>4. QED
        BY <1>4, <1>8, <2>1, <3>3 DEF PageAfter, SlotsAfter
    <2>2. CASE q # p
      <3>1. new[q].lsn = cache[q].lsn /\ new[q].slots = cache[q].slots
        BY <1>5, <1>6, <2>2
      <3>2. new[q] = [lsn |-> cache[q].lsn, slots |-> cache[q].slots]
        BY <1>6, <3>1, SamePage
      <3>3. new[q] = cache[q]
        BY <1>1, <3>2, PagesRight
      <3>4. QED
        BY <1>8, <2>2, <3>3 DEF PageAfter
    <2>3. QED
      BY <2>1, <2>2
  <1>10. QED
    BY <1>2, <1>3, <1>4, <1>6, <1>7, <1>8, <1>9 DEF Wrote, Writes, lsn, r

\* A row is overwritten and its page stamped.
Overwritten(new, pages, rid, image, lsn) ==
    \A p \in Page : new[p] = IF p = rid[1]
                             THEN [lsn |-> lsn, slots |-> Written(pages[p].slots, rid[2], image)]
                             ELSE pages[p]

(* Overwrite and Stamped do just that. *)
LEMMA OverwriteStamps ==
  ASSUME NEW pages \in Pages, NEW rid \in Rid, NEW image \in AnyImage, NEW lsn \in Nat,
         \A p \in Page : pages[p].lsn < lsn
  PROVE  LET new == Stamped(Overwrite(pages, rid, image), {rid[1]}, lsn) IN
         new \in Pages /\ Overwritten(new, pages, rid, image, lsn)
  <1> DEFINE mid == Overwrite(pages, rid, image)
             new == Stamped(mid, {rid[1]}, lsn)
  <1>1. /\ mid \in Pages
        /\ \A p \in Page : /\ mid[p].lsn = pages[p].lsn
                           /\ mid[p].slots = IF p = rid[1] THEN Written(pages[p].slots, rid[2], image)
                                             ELSE pages[p].slots
    BY OverwriteRight
  <1> HIDE DEF mid
  <1>2. /\ new \in Pages
        /\ \A p \in Page : /\ new[p].lsn = IF p \in {rid[1]} /\ mid[p].lsn < lsn THEN lsn ELSE mid[p].lsn
                           /\ new[p].slots = mid[p].slots
    BY <1>1, StampedRight
  <1> HIDE DEF new
  <1>3. ASSUME NEW p \in Page, p = rid[1]
        PROVE  new[p] = [lsn |-> lsn, slots |-> Written(pages[p].slots, rid[2], image)]
    <2>1. new[p].lsn = lsn /\ new[p].slots = Written(pages[p].slots, rid[2], image)
      BY <1>1, <1>2, <1>3
    <2>2. QED
      BY <1>2, <2>1, SamePage
  <1>4. ASSUME NEW p \in Page, p # rid[1] PROVE new[p] = pages[p]
    <2>1. new[p].lsn = pages[p].lsn /\ new[p].slots = pages[p].slots
      BY <1>1, <1>2, <1>4
    <2>2. new[p] = [lsn |-> pages[p].lsn, slots |-> pages[p].slots]
      BY <1>2, <2>1, SamePage
    <2>3. QED
      BY <2>2, PagesRight
  <1>5. QED
    BY <1>2, <1>3, <1>4 DEF new, mid, Overwritten

(* UPDATE in place. *)
LEMMA UpdateWrote ==
  ASSUME WalInv, NEW t \in Tx, NEW rid \in Rid, Update(t, rid)
  PROVE  Wrote
  <1> DEFINE lsn == Len(log')
             r   == log'[lsn]
             new == Stamped(Overwrite(cache, rid, made'), {rid[1]}, lsn)
  <1>1. /\ LogTyped /\ TxTyped /\ cache \in Pages /\ \A q \in Page : cache[q].lsn <= Len(log)
        /\ Len(log) \in Nat
    BY DEF WalInv, PagesTyped, LogTyped, WellLogged
  <1>2. /\ t \in Live /\ tx[t].writes < MaxWrites /\ phase = "up" /\ made' \in Image
        /\ LogWrite(t, "update", rid, rid, At(cache, rid), made')
        /\ cache' = new
        /\ UNCHANGED <<flushed, durable, os, disk, nextId, phase, crashes>>
    BY DEF Update, MayWrite, Up, NewImage
  <1>3. made' \in AnyImage /\ At(cache, rid) \in AnyImage /\ made' \in Nat
    BY <1>1, <1>2, AtRight, Sizes DEF AnyImage
  <1>4. /\ Extends(log', log) /\ lsn \in Nat /\ Len(log) < lsn
        /\ TxTyped' /\ \A u \in Tx : tx'[u].state = tx[u].state
        /\ \A i \in (Len(log) + 1)..(lsn - 1) : log'[i].kind = "begin"
        /\ r.kind = "update" /\ r.old = rid /\ r.rid = rid /\ r.after = made'
    BY <1>1, <1>2, <1>3, LogWriteRight DEF Writes
  <1>5. \A q \in Page : cache[q].lsn < lsn
    <2>1. \A q \in Page : cache[q].lsn \in Nat /\ cache[q].lsn <= Len(log)
      BY <1>1, PagesRight
    <2> HIDE DEF lsn
    <2>2. QED
      BY <1>1, <1>4, <2>1
  <1> HIDE DEF lsn, r
  <1>6. new \in Pages /\ Overwritten(new, cache, rid, made', lsn)
    BY <1>1, <1>3, <1>4, <1>5, OverwriteStamps
  <1> HIDE DEF new
  <1>7. Touched(r) = {rid[1]} /\ (\A q : ~ Enters(r, q)) /\ RowOf(r) = rid /\ ImageOf(r) = made'
    BY <1>4 DEF Touched, Enters, RowOf, ImageOf, Writes
  <1>8. \A q \in Page : new[q] = PageAfter(cache[q], r, lsn, q)
    BY <1>6, <1>7 DEF PageAfter, SlotsAfter, Overwritten
  <1>9. QED
    BY <1>2, <1>3, <1>4, <1>6, <1>7, <1>8 DEF Wrote, Writes, lsn, r

(* DELETE. *)
LEMMA DeleteWrote ==
  ASSUME WalInv, NEW t \in Tx, NEW rid \in Rid, Delete(t, rid)
  PROVE  Wrote
  <1> DEFINE lsn == Len(log')
             r   == log'[lsn]
             new == Stamped(Overwrite(cache, rid, None), {rid[1]}, lsn)
  <1>1. /\ LogTyped /\ TxTyped /\ cache \in Pages /\ \A q \in Page : cache[q].lsn <= Len(log)
        /\ Len(log) \in Nat
    BY DEF WalInv, PagesTyped, LogTyped, WellLogged
  <1>2. /\ t \in Live /\ tx[t].writes < MaxWrites /\ phase = "up" /\ made' = made
        /\ LogWrite(t, "delete", NoRid, rid, At(cache, rid), None)
        /\ cache' = new
        /\ UNCHANGED <<flushed, durable, os, disk, nextId, phase, crashes>>
    BY DEF Delete, MayWrite, Up
  <1>3. None \in AnyImage /\ At(cache, rid) \in AnyImage /\ made \in Nat
    BY <1>1, AtRight, Sizes DEF WalInv, Numbered
  <1>4. /\ Extends(log', log) /\ lsn \in Nat /\ Len(log) < lsn
        /\ TxTyped' /\ \A u \in Tx : tx'[u].state = tx[u].state
        /\ \A i \in (Len(log) + 1)..(lsn - 1) : log'[i].kind = "begin"
        /\ r.kind = "delete" /\ r.rid = rid
    BY <1>1, <1>2, <1>3, LogWriteRight DEF Writes
  <1>5. \A q \in Page : cache[q].lsn < lsn
    <2>1. \A q \in Page : cache[q].lsn \in Nat /\ cache[q].lsn <= Len(log)
      BY <1>1, PagesRight
    <2> HIDE DEF lsn
    <2>2. QED
      BY <1>1, <1>4, <2>1
  <1> HIDE DEF lsn, r
  <1>6. new \in Pages /\ Overwritten(new, cache, rid, None, lsn)
    BY <1>1, <1>3, <1>4, <1>5, OverwriteStamps
  <1> HIDE DEF new
  <1>7. Touched(r) = {rid[1]} /\ (\A q : ~ Enters(r, q)) /\ RowOf(r) = rid /\ ImageOf(r) = None
    BY <1>4 DEF Touched, Enters, RowOf, ImageOf, Writes
  <1>8. \A q \in Page : new[q] = PageAfter(cache[q], r, lsn, q)
    BY <1>6, <1>7 DEF PageAfter, SlotsAfter, Overwritten
  <1>9. QED
    BY <1>2, <1>3, <1>4, <1>6, <1>7, <1>8 DEF Wrote, Writes, lsn, r

(* UPDATE that moves the row. *)
LEMMA MoveWrote ==
  ASSUME WalInv, NEW t \in Tx, NEW old \in Rid, NEW p \in Page, UpdateMoves(t, old, p)
  PROVE  Wrote
  <1> DEFINE lsn  == Len(log')
             r    == log'[lsn]
             rid  == <<p, FreeSlot(cache[p].slots)>>
             in   == InsertOn(cache, p, made')
             out  == Overwrite(in, old, None)
             new  == Stamped(out, {p, old[1]}, lsn)
  <1>1. /\ LogTyped /\ TxTyped /\ cache \in Pages /\ \A q \in Page : cache[q].lsn <= Len(log)
        /\ Len(log) \in Nat
    BY DEF WalInv, PagesTyped, LogTyped, WellLogged
  <1>2. /\ t \in Live /\ tx[t].writes < MaxWrites /\ phase = "up"
        /\ p \in Targets(cache) /\ p # old[1] /\ made' \in Image
        /\ LogWrite(t, "update", old, rid, At(cache, old), made')
        /\ cache' = new
        /\ UNCHANGED <<flushed, durable, os, disk, nextId, phase, crashes>>
    BY DEF UpdateMoves, MayWrite, Up, NewImage
  <1>3. /\ rid \in Rid /\ made' \in AnyImage /\ None \in AnyImage /\ made' \in Nat
        /\ At(cache, old) \in AnyImage
    BY <1>1, <1>2, TargetRoom, AtRight, Sizes DEF AnyImage
  <1>4. rid[1] = p /\ rid[2] = FreeSlot(cache[p].slots) /\ old[1] # rid[1] /\ old # rid
    BY <1>2
  <1> HIDE DEF rid
  <1>5. /\ Extends(log', log) /\ lsn \in Nat /\ Len(log) < lsn
        /\ TxTyped' /\ \A u \in Tx : tx'[u].state = tx[u].state
        /\ \A i \in (Len(log) + 1)..(lsn - 1) : log'[i].kind = "begin"
        /\ r.kind = "update" /\ r.old = old /\ r.rid = rid /\ r.after = made'
    <2> DEFINE before == At(cache, old)
               after  == made'
    <2>1. /\ LogTyped /\ TxTyped /\ t \in Live /\ tx[t].writes < MaxWrites
          /\ LogWrite(t, "update", old, rid, before, after)
      BY <1>1, <1>2
    <2>2. /\ old \in Rid \cup {NoRid} /\ "update" \in Writes /\ rid \in Rid
          /\ old = rid \/ old[1] # rid[1]
          /\ before \in AnyImage /\ after \in AnyImage
      BY <1>3, <1>4 DEF Writes
    <2> HIDE DEF before, after
    <2>3. /\ Extends(log', log) /\ Len(log') \in Nat /\ Len(log) < Len(log')
          /\ TxTyped' /\ \A u \in Tx : tx'[u].state = tx[u].state
          /\ \A i \in (Len(log) + 1)..(Len(log') - 1) : log'[i].kind = "begin"
          /\ log'[Len(log')].kind = "update" /\ log'[Len(log')].old = old
          /\ log'[Len(log')].rid = rid /\ log'[Len(log')].after = after
      BY <2>1, <2>2, LogWriteRight
    <2>4. QED
      BY <2>3 DEF after
  <1>6. \A q \in Page : cache[q].lsn < lsn
    <2>1. \A q \in Page : cache[q].lsn \in Nat /\ cache[q].lsn <= Len(log)
      BY <1>1, PagesRight
    <2> HIDE DEF lsn
    <2>2. QED
      BY <1>1, <1>5, <2>1
  <1> HIDE DEF lsn, r
  <1>7. /\ in \in Pages
        /\ \A q \in Page : /\ in[q].lsn = cache[q].lsn
                           /\ in[q].slots = IF q = p THEN AddTo(cache[q].slots, made')
                                            ELSE cache[q].slots
    BY <1>1, <1>3, InsertOnRight
  <1> HIDE DEF in
  <1>8. /\ out \in Pages
        /\ \A q \in Page : /\ out[q].lsn = in[q].lsn
                           /\ out[q].slots = IF q = old[1] THEN Written(in[q].slots, old[2], None)
                                             ELSE in[q].slots
    BY <1>3, <1>7, OverwriteRight
  <1> HIDE DEF out
  <1>9. /\ new \in Pages
        /\ \A q \in Page : /\ new[q].lsn = IF q \in {p, old[1]} /\ out[q].lsn < lsn THEN lsn ELSE out[q].lsn
                           /\ new[q].slots = out[q].slots
    BY <1>5, <1>8, StampedRight
  <1> HIDE DEF new
  <1>10. /\ Touched(r) = {p, old[1]} /\ (\A q : Enters(r, q) <=> q = p)
         /\ RowOf(r) = old /\ ImageOf(r) = None
    BY <1>4, <1>5 DEF Touched, Enters, RowOf, ImageOf, Writes
  <1>11. ASSUME NEW q \in Page PROVE new[q] = PageAfter(cache[q], r, lsn, q)
    <2>1. CASE q = p
      <3>1. new[q].lsn = lsn /\ new[q].slots = AddTo(cache[q].slots, made')
        BY <1>2, <1>6, <1>7, <1>8, <1>9, <2>1
      <3>2. new[q] = [lsn |-> lsn, slots |-> AddTo(cache[q].slots, made')]
        BY <1>9, <3>1, SamePage
      <3>3. QED
        BY <1>5, <1>10, <2>1, <3>2 DEF PageAfter, SlotsAfter
    <2>2. CASE q = old[1]
      <3>1. new[q].lsn = lsn /\ new[q].slots = Written(cache[q].slots, old[2], None)
        BY <1>2, <1>6, <1>7, <1>8, <1>9, <2>2
      <3>2. new[q] = [lsn |-> lsn, slots |-> Written(cache[q].slots, old[2], None)]
        BY <1>9, <3>1, SamePage
      <3>3. QED
        BY <1>2, <1>5, <1>10, <2>2, <3>2 DEF PageAfter, SlotsAfter
    <2>3. CASE q # p /\ q # old[1]
      <3>1. new[q].lsn = cache[q].lsn /\ new[q].slots = cache[q].slots
        BY <1>7, <1>8, <1>9, <2>3
      <3>2. new[q] = [lsn |-> cache[q].lsn, slots |-> cache[q].slots]
        BY <1>9, <3>1, SamePage
      <3>3. new[q] = cache[q]
        BY <1>1, <3>2, PagesRight
      <3>4. QED
        BY <1>10, <2>3, <3>3 DEF PageAfter
    <2>4. QED
      BY <2>1, <2>2, <2>3
  <1>12. QED
    BY <1>2, <1>3, <1>4, <1>5, <1>9, <1>10, <1>11 DEF Wrote, Writes, lsn, r

------------------------------------------------------------------------------
(* Every step keeps the invariant.                                         *)

(* The invariant, in facts a step can use. *)
LEMMA InvParts ==
  ASSUME WalInv
  PROVE  /\ LogTyped /\ PagesTyped /\ TxTyped /\ Numbered /\ Behind
         /\ WellLogged(log) /\ log \in Seq(Records) /\ Len(log) \in Nat
         /\ durable \in Nat /\ flushed \in Nat /\ durable <= flushed /\ flushed <= Len(log)
         /\ cache \in Pages /\ os \in Pages /\ disk \in Pages
         /\ \A p \in Page : /\ cache[p].lsn \in Nat /\ cache[p].lsn <= Len(log)
                            /\ os[p].lsn \in Nat /\ os[p].lsn <= durable
                            /\ disk[p].lsn \in Nat /\ disk[p].lsn <= durable
         /\ Extends(log, log)
  <1>1. /\ LogTyped /\ PagesTyped /\ TxTyped /\ Numbered /\ Behind
    BY DEF WalInv
  <1>2. /\ WellLogged(log) /\ log \in Seq(Records) /\ Len(log) \in Nat
        /\ durable \in Nat /\ flushed \in Nat /\ durable <= flushed /\ flushed <= Len(log)
    BY <1>1 DEF LogTyped, WellLogged
  <1>3. cache \in Pages /\ os \in Pages /\ disk \in Pages
    BY <1>1 DEF PagesTyped
  <1>4. \A p \in Page : /\ cache[p].lsn \in Nat /\ cache[p].lsn <= Len(log)
                        /\ os[p].lsn \in Nat /\ os[p].lsn <= durable
                        /\ disk[p].lsn \in Nat /\ disk[p].lsn <= durable
    BY <1>1, <1>3, PagesRight DEF PagesTyped, Behind
  <1>5. QED
    BY <1>1, <1>2, <1>3, <1>4 DEF Extends

(* The transactions fit the log when they and it did not change or it grew. *)
LEMMA TxLater ==
  ASSUME WalInv, Extends(log', log), tx' = tx
  PROVE  TxTyped'
  <1>1. \A u \in Tx : TxFits(log', tx[u])
    BY InvParts, FitsLater DEF TxTyped
  <1>2. QED
    BY <1>1, InvParts DEF TxTyped

(* And when one of them was replaced. *)
LEMMA TxReplaced ==
  ASSUME WalInv, Extends(log', log), NEW t \in Tx, NEW x, TxFits(log', x),
         tx' = [tx EXCEPT ![t] = x]
  PROVE  TxTyped' /\ \A u \in Tx : tx'[u] = IF u = t THEN x ELSE tx[u]
  <1>1. \A u \in Tx : TxFits(log', tx[u])
    BY InvParts, FitsLater DEF TxTyped
  <1>2. tx = [u \in Tx |-> tx[u]]
    BY InvParts DEF TxTyped
  <1>3. tx' = [u \in Tx |-> IF u = t THEN x ELSE tx[u]]
    BY <1>2
  <1>4. QED
    BY <1>1, <1>3 DEF TxTyped

(* A transaction that has ended fits any log. *)
LEMMA GoneFits == \A l : TxFits(l, Gone) /\ Gone.state = "ended"
  BY Sizes DEF TxFits, Gone, Resumes

(* The statements. *)
LEMMA WroteStays ==
  ASSUME WalInv, Wrote
  PROVE  WalInv'
  <1> DEFINE lsn == Len(log')
             r   == log'[lsn]
  <1>1. /\ Extends(log', log) /\ lsn \in Nat /\ Len(log) < lsn /\ TxTyped'
        /\ \A u \in Tx : tx'[u].state = tx[u].state
        /\ cache' \in Pages
        /\ \A p \in Page : cache'[p] = PageAfter(cache[p], r, lsn, p)
        /\ made' \in Nat
        /\ UNCHANGED <<flushed, durable, os, disk, nextId, phase, crashes>>
    BY DEF Wrote
  <1> HIDE DEF r, lsn
  <1>2. LogTyped'
    BY <1>1, InvParts DEF LogTyped, Extends, lsn
  <1>3. PagesTyped'
    <2>1. \A p \in Page : cache'[p].lsn <= lsn
      <3> SUFFICES ASSUME NEW p \in Page PROVE cache'[p].lsn <= lsn
        OBVIOUS
      <3>1. cache'[p].lsn = IF p \in Touched(r) THEN lsn ELSE cache[p].lsn
        BY <1>1, PageAfterLsn
      <3>2. cache[p].lsn \in Nat /\ cache[p].lsn <= Len(log) /\ Len(log) \in Nat
        BY InvParts
      <3>3. QED
        BY <1>1, <3>1, <3>2
    <2>2. QED
      BY <1>1, <2>1, InvParts DEF PagesTyped, lsn
  <1>4. Numbered' /\ Behind'
    BY <1>1, InvParts DEF Numbered, Behind
  <1>5. QED
    BY <1>1, <1>2, <1>3, <1>4 DEF WalInv

(* BEGIN. *)
LEMMA BeginStays ==
  ASSUME WalInv, NEW t \in Tx, Begin(t)
  PROVE  WalInv'
  <1> DEFINE x == [tx[t] EXCEPT !.state = "live", !.id = nextId]
  <1>1. /\ tx[t].state = "unborn" /\ \A u \in Tx : u < t => tx[u].state # "unborn"
        /\ tx' = [tx EXCEPT ![t].state = "live", ![t].id = nextId]
        /\ nextId' = nextId + 1
        /\ UNCHANGED <<walVars, cache, os, disk, phase, crashes, made>>
    BY DEF Begin
  <1>2. /\ TxFits(log, tx[t]) /\ nextId \in Nat /\ nextId < t /\ t \in 1..NTx
        /\ \A u \in Tx : u \in Nat
    BY <1>1, InvParts DEF TxTyped, Numbered, Tx
  <1>3. TxFits(log', x) /\ x.state = "live"
    <2>1. nextId \in 0..NTx /\ log' = log
      BY <1>1, <1>2, Sizes DEF walVars
    <2>2. QED
      BY <1>2, <2>1 DEF TxFits
  <1>4. tx' = [tx EXCEPT ![t] = x]
    BY <1>1
  <1> HIDE DEF x
  <1>5. Extends(log', log)
    BY <1>1, InvParts DEF walVars
  <1>6. TxTyped' /\ \A u \in Tx : tx'[u] = IF u = t THEN x ELSE tx[u]
    BY <1>3, <1>4, <1>5, TxReplaced
  <1>7. Numbered'
    <2>1. ASSUME NEW u \in Tx, tx'[u].state = "unborn" PROVE nextId' < u
      <3>1. u # t /\ tx[u].state = "unborn" /\ u \in Nat /\ t \in Nat
        BY <1>2, <1>3, <1>6, <2>1
      <3>2. u > t
        BY <1>1, <3>1
      <3>3. QED
        BY <1>1, <1>2, <3>1, <3>2
    <2>2. nextId' \in Nat /\ made' = made /\ crashes' = crashes /\ phase' = phase
      BY <1>1, <1>2
    <2>3. made \in Nat /\ crashes \in Nat /\ phase \in {"up", "down", "recovered", "hung"}
      BY InvParts DEF Numbered
    <2>4. QED
      BY <2>1, <2>2, <2>3 DEF Numbered
  <1>8. LogTyped' /\ PagesTyped' /\ Behind'
    BY <1>1, InvParts DEF LogTyped, PagesTyped, Behind, walVars
  <1>9. QED
    BY <1>6, <1>7, <1>8 DEF WalInv

(* The end of a transaction is logged if it has written. *)
LEMMA LogEndRight ==
  ASSUME WalInv, NEW t \in Live, NEW kind \in {"commit", "abort"}, LogEnd(t, kind)
  PROVE  /\ Extends(log', log) /\ Len(log') \in Nat
         /\ \A i \in (Len(log) + 1)..Len(log') : log'[i].kind = kind
         /\ tx[t].last = None => log' = log
         /\ tx[t].last # None => Len(log') = Len(log) + 1
  <1> DEFINE r == Record(kind, tx[t].id, t, tx[t].last)
  <1>1. t \in Tx /\ t \in Nat /\ TxFits(log, tx[t])
    BY InvParts DEF Live, Tx, TxTyped
  <1>2. CASE tx[t].last = None
    <2>1. log' = log
      BY <1>2 DEF LogEnd
    <2>2. \A i \in (Len(log) + 1)..Len(log) : FALSE
      BY InvParts
    <2>3. QED
      BY <1>2, <2>1, <2>2, InvParts
  <1>3. CASE tx[t].last # None
    <2>1. log' = Append(log, r)
      BY <1>3 DEF LogEnd
    <2>2. /\ r \in Records /\ r.kind = kind /\ r.prev = tx[t].last /\ r.active = {}
      BY <1>1, Sizes DEF Record, Records, Kinds, NoRid, TxFits
    <2> HIDE DEF r
    <2>3. Sound(log, r)
      BY <1>1, <2>2 DEF Sound, Writes, TxFits
    <2>4. /\ WellLogged(log') /\ Len(log') = Len(log) + 1
          /\ log'[Len(log) + 1] = r /\ \A i \in 1..Len(log) : log'[i] = log[i]
      BY <2>1, <2>3, InvParts, LogGrows
    <2>5. \A i \in (Len(log) + 1)..Len(log') : i = Len(log) + 1
      BY <2>4, InvParts
    <2>6. QED
      BY <1>3, <2>2, <2>4, <2>5, InvParts DEF Extends
  <1>4. QED
    BY <1>2, <1>3

(* COMMIT. *)
LEMMA CommitStays ==
  ASSUME WalInv, NEW t \in Tx, Commit(t)
  PROVE  WalInv'
  <1>1. /\ t \in Live /\ LogEnd(t, "commit")
        /\ tx' = [tx EXCEPT ![t] = Gone]
        /\ UNCHANGED <<cache, os, disk, nextId, phase, crashes, made>>
    BY DEF Commit, Ends
  <1>2. /\ Extends(log', log) /\ Len(log') \in Nat /\ Len(log) <= Len(log')
        /\ tx[t].last = None => log' = log
    BY <1>1, LogEndRight DEF Extends
  <1>3. (tx[t].last = None /\ UNCHANGED <<flushed, durable>>) \/ (flushed' = Len(log') /\ durable' = Len(log'))
    BY DEF Commit, Sync
  <1>4. LogTyped' /\ durable <= durable'
    BY <1>2, <1>3, InvParts DEF LogTyped, Extends
  <1>5. PagesTyped'
    <2>1. \A p \in Page : cache[p].lsn <= Len(log')
      BY <1>2, InvParts
    <2>2. QED
      BY <1>1, <2>1, InvParts DEF PagesTyped
  <1>6. TxTyped' /\ \A u \in Tx : tx'[u] = IF u = t THEN Gone ELSE tx[u]
    BY <1>1, <1>2, TxReplaced, GoneFits
  <1>7. Numbered'
    BY <1>1, <1>6, InvParts, GoneFits DEF Numbered
  <1>8. Behind'
    <2>1. durable' \in Nat
      BY <1>4 DEF LogTyped
    <2>2. \A p \in Page : os[p].lsn <= durable' /\ disk[p].lsn <= durable'
      BY <1>4, <2>1, InvParts
    <2>3. QED
      BY <1>1, <2>2 DEF Behind
  <1>9. QED
    BY <1>4, <1>5, <1>6, <1>7, <1>8 DEF WalInv

(* ROLLBACK, with what it does to the pages. *)
LEMMA RollbackDoes ==
  ASSUME WalInv, NEW t \in Tx, Rollback(t)
  PROVE  /\ t \in Live /\ phase = "up" /\ MayRollBack
         /\ UNCHANGED <<durable, os, disk, nextId, crashes, made>>
         /\ cache' \in Restored(cache)
         /\ tx[t].last = None => cache' = cache /\ phase' = phase
         /\ \/ /\ LogEnd(t, "abort") /\ phase' = phase /\ tx' = [tx EXCEPT ![t] = Gone]
               /\ flushed' = (IF tx[t].last = None THEN flushed ELSE Len(log'))
            \/ phase' = "hung" /\ UNCHANGED <<log, flushed, tx>>
  <1>1. PICK believed \in SUBSET Page :
          LET u == Undo(cache, tx[t].last, believed)
          IN  /\ Up /\ t \in Live /\ MayRollBack /\ u.fits
              /\ cache' = u.pages
              /\ IF u.returns
                 THEN /\ LogEnd(t, "abort")
                      /\ flushed' = (IF tx[t].last = None THEN flushed ELSE Len(log'))
                      /\ Ends(t)
                      /\ UNCHANGED phase
                 ELSE phase' = "hung" /\ UNCHANGED <<log, flushed, tx>>
              /\ UNCHANGED <<durable, os, disk, nextId, crashes, made>>
    BY DEF Rollback
  <1> DEFINE u == Undo(cache, tx[t].last, believed)
  <1>2. tx[t].last \in Nat /\ Resumes(log, tx[t].last)
    BY InvParts DEF TxTyped, TxFits
  <1>3. u \in Undoing(cache)
    BY <1>2, InvParts, UndoRight
  <1>4. tx[t].last = None => u = UndoStart(cache, None)
    <2> SUFFICES ASSUME tx[t].last = None PROVE Undo(cache, None, believed) = UndoStart(cache, None)
      OBVIOUS
    <2>1. QED
      BY UndoNothing, InvParts
  <1>5. u.pages \in Restored(cache)
    BY <1>3 DEF Undoing
  <1>6. tx[t].last = None => u.pages = cache /\ u.returns
    BY <1>4 DEF UndoStart
  <1> HIDE DEF u
  <1>7. /\ Up /\ t \in Live /\ MayRollBack /\ cache' = u.pages
        /\ UNCHANGED <<durable, os, disk, nextId, crashes, made>>
        /\ IF u.returns
           THEN /\ LogEnd(t, "abort")
                /\ flushed' = (IF tx[t].last = None THEN flushed ELSE Len(log'))
                /\ tx' = [tx EXCEPT ![t] = Gone]
                /\ phase' = phase
           ELSE phase' = "hung" /\ UNCHANGED <<log, flushed, tx>>
    BY <1>1 DEF u, Ends
  <1>8. QED
    BY <1>5, <1>6, <1>7 DEF Up

(* ROLLBACK. *)
LEMMA RollbackStays ==
  ASSUME WalInv, NEW t \in Tx, Rollback(t)
  PROVE  WalInv'
  <1>1. /\ t \in Live
        /\ UNCHANGED <<durable, os, disk, nextId, crashes, made>>
        /\ cache' \in Restored(cache)
    BY RollbackDoes
  <1>2. cache' \in Pages /\ \A p \in Page : cache'[p].lsn = cache[p].lsn
    BY <1>1 DEF Restored
  <1>3. CASE /\ LogEnd(t, "abort") /\ phase' = phase /\ tx' = [tx EXCEPT ![t] = Gone]
             /\ flushed' = (IF tx[t].last = None THEN flushed ELSE Len(log'))
    <2>1. /\ Extends(log', log) /\ Len(log') \in Nat /\ Len(log) <= Len(log')
      BY <1>1, <1>3, LogEndRight DEF Extends
    <2>2. LogTyped'
      BY <1>1, <1>3, <2>1, InvParts DEF LogTyped, Extends
    <2>3. \A p \in Page : cache'[p].lsn <= Len(log')
      BY <1>2, <2>1, InvParts
    <2>4. PagesTyped'
      BY <1>1, <1>2, <2>3, InvParts DEF PagesTyped
    <2>5. TxTyped' /\ \A u \in Tx : tx'[u] = IF u = t THEN Gone ELSE tx[u]
      BY <1>3, <2>1, TxReplaced, GoneFits
    <2>6. Numbered'
      BY <1>1, <1>3, <2>5, InvParts, GoneFits DEF Numbered
    <2>7. Behind'
      BY <1>1, InvParts DEF Behind
    <2>8. QED
      BY <2>2, <2>4, <2>5, <2>6, <2>7 DEF WalInv
  <1>4. CASE phase' = "hung" /\ UNCHANGED <<log, flushed, tx>>
    <2>1. LogTyped' /\ TxTyped'
      BY <1>1, <1>4, InvParts DEF LogTyped, TxTyped
    <2>2. PagesTyped' /\ Behind'
      BY <1>1, <1>2, <1>4, InvParts DEF PagesTyped, Behind
    <2>3. Numbered'
      BY <1>1, <1>4, InvParts DEF Numbered
    <2>4. QED
      BY <2>1, <2>2, <2>3 DEF WalInv
  <1>5. QED
    BY <1>3, <1>4, RollbackDoes

(* A page is written back. *)
LEMMA FlushStays ==
  ASSUME WalInv, NEW p \in Page, FlushPage(p)
  PROVE  WalInv'
  <1>1. /\ UNCHANGED <<log, cache, disk, tx, nextId, phase, crashes, made>>
        /\ SyncUpTo(cache[p].lsn)
        /\ os' = [os EXCEPT ![p] = cache[p]]
    BY DEF FlushPage
  <1>2. \/ cache[p].lsn <= durable /\ flushed' = flushed /\ durable' = durable
        \/ flushed' = Len(log) /\ durable' = Len(log)
    BY <1>1 DEF SyncUpTo, Sync
  <1>3. durable \in Nat /\ Len(log) \in Nat /\ durable <= Len(log)
    BY InvParts
  <1>4. durable' \in Nat /\ durable <= durable' /\ cache[p].lsn <= durable'
    BY <1>2, <1>3, InvParts
  <1>5. LogTyped' /\ TxTyped' /\ Numbered'
    BY <1>1, <1>2, <1>3, InvParts DEF LogTyped, TxTyped, Numbered
  <1>6. os' \in Pages /\ \A q \in Page : os'[q] = IF q = p THEN cache[p] ELSE os[q]
    <2>1. cache[p] \in OnePage /\ os \in [Page -> OnePage]
      BY InvParts DEF Pages
    <2>2. QED
      BY <1>1, <2>1 DEF Pages
  <1>7. PagesTyped'
    BY <1>1, <1>6, InvParts DEF PagesTyped
  <1>8. Behind'
    <2>1. \A q \in Page : disk[q].lsn <= durable' /\ os[q].lsn <= durable'
      BY <1>3, <1>4, InvParts
    <2>2. QED
      BY <1>1, <1>4, <1>6, <2>1 DEF Behind
  <1>9. QED
    BY <1>5, <1>7, <1>8 DEF WalInv

(* CHECKPOINT. *)
LEMMA CheckpointDoes ==
  ASSUME WalInv, Checkpoint
  PROVE  /\ phase = "up" /\ os' = cache /\ disk' = cache /\ flushed' = Len(log') /\ durable' = Len(log')
         /\ UNCHANGED <<cache, tx, nextId, phase, crashes, made>>
         /\ Extends(log', log) /\ Len(log') = Len(log) + 1
         /\ log'[Len(log) + 1].kind = "checkpoint"
  <1> DEFINE r == CheckpointRecord(ActiveTransactions)
  <1>1. /\ phase = "up" /\ os' = cache /\ disk' = cache /\ log' = Append(log, r)
        /\ flushed' = Len(log') /\ durable' = Len(log')
        /\ UNCHANGED <<cache, tx, nextId, phase, crashes, made>>
    BY DEF Checkpoint, Up, Sync
  <1>2. \A s \in ActiveTransactions : s \in [id : 0..NTx, last : Nat] /\ Resumes(log, s.last)
    <2> SUFFICES ASSUME NEW t \in Live
                 PROVE  LET s == [id |-> tx[t].id, last |-> tx[t].last]
                        IN  s \in [id : 0..NTx, last : Nat] /\ Resumes(log, s.last)
      BY DEF ActiveTransactions
    <2>1. TxFits(log, tx[t])
      BY InvParts DEF Live, TxTyped
    <2>2. QED
      BY <2>1 DEF TxFits
  <1>3. r \in Records /\ r.kind = "checkpoint" /\ r.prev = None /\ r.active = ActiveTransactions
    <2>1. ActiveTransactions \in SUBSET [id : 0..NTx, last : Nat]
      BY <1>2
    <2> HIDE DEF ActiveTransactions
    <2>2. QED
      BY <2>1, Sizes DEF CheckpointRecord, Record, Records, Kinds, NoRid
  <1> HIDE DEF r
  <1>4. Sound(log, r)
    BY <1>2, <1>3 DEF Sound, Writes, Resumes
  <1>5. /\ WellLogged(log') /\ Len(log') = Len(log) + 1
        /\ log'[Len(log) + 1] = r /\ \A i \in 1..Len(log) : log'[i] = log[i]
    BY <1>1, <1>4, InvParts, LogGrows
  <1>6. Extends(log', log)
    BY <1>5, InvParts DEF Extends
  <1>7. QED
    BY <1>1, <1>3, <1>5, <1>6

(* It leaves every page on the disk as it is in the pool. *)
LEMMA CheckpointStays ==
  ASSUME WalInv, Checkpoint
  PROVE  WalInv'
  <1>1. /\ os' = cache /\ disk' = cache /\ flushed' = Len(log') /\ durable' = Len(log')
        /\ UNCHANGED <<cache, tx, nextId, phase, crashes, made>>
        /\ Extends(log', log) /\ Len(log') = Len(log) + 1
    BY CheckpointDoes
  <1>2. \A p \in Page : cache[p].lsn <= Len(log')
    BY <1>1, InvParts
  <1>3. LogTyped'
    BY <1>1, InvParts DEF LogTyped, Extends
  <1>4. PagesTyped' /\ Behind'
    BY <1>1, <1>2, InvParts DEF PagesTyped, Behind
  <1>5. TxTyped'
    BY <1>1, TxLater
  <1>6. Numbered'
    BY <1>1, InvParts DEF Numbered
  <1>7. QED
    BY <1>3, <1>4, <1>5, <1>6 DEF WalInv

(* A crash keeps what was synced of the log, and a version of every page. *)
LEMMA CrashDoes ==
  ASSUME WalInv, Crash
  PROVE  /\ phase \in {"up", "recovered"} /\ phase' = "down" /\ crashes' = crashes + 1
         /\ Rollbacks = "instead of crashes" =>
               crashes > 0 \/ \A i \in 1..Len(log) : log[i].kind # "abort"
         /\ WellLogged(log') /\ Len(log') \in durable..flushed
         /\ \A i \in 1..Len(log') : log'[i] = log[i]
         /\ flushed' = Len(log') /\ durable' = Len(log')
         /\ \A p \in Page : cache'[p] = os[p] \/ cache'[p] = disk[p]
         /\ cache' \in Pages /\ os' = cache' /\ disk' = cache'
         /\ tx' = [t \in Tx |-> IF t \in Live THEN Gone ELSE tx[t]]
         /\ nextId' = 0 /\ made' = made
  <1>1. PICK n \in durable..flushed, synced \in SUBSET Page :
          /\ log' = SubSeq(log, 1, n)
          /\ flushed' = n /\ durable' = n
          /\ cache' = [p \in Page |-> IF p \in synced THEN disk[p] ELSE os[p]]
    BY DEF Crash
  <1>2. n \in 0..Len(log)
    BY InvParts
  <1>3. /\ WellLogged(log') /\ Len(log') = n
        /\ \A i \in 1..n : log'[i] = log[i]
    BY <1>1, <1>2, InvParts, LogShrinks
  <1>4. /\ cache' \in Pages /\ \A p \in Page : cache'[p] = os[p] \/ cache'[p] = disk[p]
    BY <1>1, InvParts DEF Pages
  <1>5. /\ phase \in {"up", "recovered"} /\ phase' = "down" /\ crashes' = crashes + 1
        /\ Rollbacks = "instead of crashes" =>
              crashes > 0 \/ \A i \in DOMAIN log : log[i].kind # "abort"
        /\ os' = cache' /\ disk' = cache'
        /\ tx' = [t \in Tx |-> IF t \in Live THEN Gone ELSE tx[t]]
        /\ nextId' = 0 /\ made' = made
    BY DEF Crash
  <1>6. DOMAIN log = 1..Len(log)
    BY InvParts
  <1>7. QED
    BY <1>1, <1>3, <1>4, <1>5, <1>6

(* So no page is ahead of the log that is left. *)
LEMMA CrashStays ==
  ASSUME WalInv, Crash
  PROVE  WalInv'
  <1>1. /\ phase' = "down" /\ crashes' = crashes + 1
        /\ WellLogged(log') /\ Len(log') \in durable..flushed
        /\ flushed' = Len(log') /\ durable' = Len(log')
        /\ \A p \in Page : cache'[p] = os[p] \/ cache'[p] = disk[p]
        /\ cache' \in Pages /\ os' = cache' /\ disk' = cache'
        /\ tx' = [t \in Tx |-> IF t \in Live THEN Gone ELSE tx[t]]
        /\ nextId' = 0 /\ made' = made
    BY CrashDoes
  <1>2. Len(log') \in Nat /\ durable <= Len(log')
    BY <1>1, InvParts
  <1>3. LogTyped'
    BY <1>1, <1>2 DEF LogTyped
  <1>4. \A p \in Page : cache'[p].lsn <= Len(log')
    <2> SUFFICES ASSUME NEW p \in Page PROVE cache'[p].lsn <= Len(log')
      OBVIOUS
    <2>1. /\ os[p].lsn \in Nat /\ os[p].lsn <= durable /\ durable \in Nat
          /\ disk[p].lsn \in Nat /\ disk[p].lsn <= durable
      BY InvParts
    <2>2. os[p].lsn <= Len(log') /\ disk[p].lsn <= Len(log')
      BY <1>2, <2>1
    <2>3. QED
      BY <1>1, <2>2
  <1>5. PagesTyped' /\ Behind'
    BY <1>1, <1>4 DEF PagesTyped, Behind
  <1>6. TxTyped'
    <2>1. \A t \in Tx : t \notin Live => TxFits(log', tx[t])
      BY InvParts DEF TxTyped, TxFits, Live, Resumes
    <2>2. \A t \in Tx : TxFits(log', tx'[t])
      BY <1>1, <2>1, GoneFits
    <2>3. tx' = [t \in Tx |-> tx'[t]]
      BY <1>1
    <2>4. QED
      BY <2>2, <2>3 DEF TxTyped
  <1>7. Numbered'
    <2>1. \A t \in Tx : t \in Nat /\ 0 < t
      BY DEF Tx
    <2>2. made \in Nat /\ crashes \in Nat
      BY InvParts DEF Numbered
    <2>3. QED
      BY <1>1, <2>1, <2>2 DEF Numbered
  <1>8. QED
    BY <1>3, <1>5, <1>6, <1>7 DEF WalInv

(* Recovery: redo, then undo, which leaves the stamps of the pages alone. *)
LEMMA RecoverDoes ==
  ASSUME WalInv, Recover
  PROVE  /\ phase = "down"
         /\ UNCHANGED <<flushed, durable, os, disk, tx, nextId, crashes, made>>
         /\ Redo(cache).pages \in Pages
         /\ \A p \in Page : Redo(cache).pages[p].lsn <= Len(log)
         /\ cache' \in Restored(Redo(cache).pages)
         /\ \/ phase' = "recovered" /\ Extends(log', log) /\ Len(log') \in Nat
               /\ \A i \in (Len(log) + 1)..Len(log') : log'[i].kind = "abort"
            \/ phase' = "hung" /\ log' = log
  <1>1. PICK order \in SetToSeqs(Losers), believed \in SUBSET Page :
          LET u == UndoLosers(Redo(cache).pages, order, believed)
          IN  /\ phase = "down" /\ u.fits
              /\ cache' = u.pages
              /\ IF u.returns THEN log' = LogAborts(order) /\ phase' = "recovered"
                              ELSE phase' = "hung" /\ UNCHANGED log
              /\ UNCHANGED <<flushed, durable, os, disk, tx, nextId, crashes, made>>
    BY DEF Recover
  <1> DEFINE redone == Redo(cache).pages
             u == UndoLosers(redone, order, believed)
  <1>2. redone \in Pages /\ \A p \in Page : redone[p].lsn <= Len(log)
    <2>1. PICK f : Redoes(f, cache) /\ Redo(cache) = f[Len(log)]
      BY InvParts, RedoRuns
    <2>2. Redo(cache) \in Redoing(Len(log))
      BY <2>1, InvParts DEF Redoes
    <2>3. QED
      BY <2>2 DEF Redoing
  <1> HIDE DEF redone
  <1>3. u \in UndoneLosers(redone)
    BY <1>2, InvParts, UndoLosersRight
  <1>4. u.pages \in Restored(redone) /\ u.returns \in BOOLEAN
    BY <1>3 DEF UndoneLosers
  <1> HIDE DEF u
  <1>5. /\ phase = "down" /\ cache' = u.pages
        /\ IF u.returns THEN log' = LogAborts(order) /\ phase' = "recovered"
                        ELSE phase' = "hung" /\ UNCHANGED log
        /\ UNCHANGED <<flushed, durable, os, disk, tx, nextId, crashes, made>>
    BY <1>1 DEF u, redone
  <1>6. /\ WellLogged(LogAborts(order)) /\ Len(LogAborts(order)) = Len(log) + Len(order)
        /\ Len(order) \in Nat
        /\ \A i \in 1..Len(log) : LogAborts(order)[i] = log[i]
        /\ \A i \in (Len(log) + 1)..Len(LogAborts(order)) : LogAborts(order)[i].kind = "abort"
    BY InvParts, AbortsRight
  <1>7. Len(LogAborts(order)) \in Nat /\ Len(log) <= Len(LogAborts(order))
    BY <1>6, InvParts
  <1>8. Extends(LogAborts(order), log)
    BY <1>6, <1>7 DEF Extends
  <1>9. QED
    BY <1>2, <1>4, <1>5, <1>6, <1>7, <1>8 DEF redone

(* It writes nothing to the disk. *)
LEMMA RecoverStays ==
  ASSUME WalInv, Recover
  PROVE  WalInv'
  <1>1. /\ UNCHANGED <<flushed, durable, os, disk, tx, nextId, crashes, made>>
        /\ phase' \in {"recovered", "hung"}
    BY RecoverDoes
  <1>2. Extends(log', log) /\ Len(log') \in Nat /\ Len(log) <= Len(log')
    BY RecoverDoes, InvParts DEF Extends
  <1>3. cache' \in Pages /\ \A p \in Page : cache'[p].lsn <= Len(log)
    BY RecoverDoes DEF Restored
  <1>4. \A p \in Page : cache'[p].lsn <= Len(log')
    <2>1. \A p \in Page : cache'[p].lsn \in Nat
      BY <1>3, PagesRight
    <2>2. QED
      BY <1>2, <1>3, <2>1, InvParts
  <1>5. LogTyped'
    BY <1>1, <1>2, InvParts DEF LogTyped, Extends
  <1>6. PagesTyped' /\ Behind'
    BY <1>1, <1>3, <1>4, InvParts DEF PagesTyped, Behind
  <1>7. TxTyped'
    BY <1>1, <1>2, TxLater
  <1>8. Numbered'
    BY <1>1, InvParts DEF Numbered
  <1>9. QED
    BY <1>5, <1>6, <1>7, <1>8 DEF WalInv

(* The end of recovery. *)
LEMMA RestartStays ==
  ASSUME WalInv, Restart
  PROVE  WalInv'
  <1>1. /\ os = cache /\ disk' = os /\ log' = log /\ flushed' = Len(log) /\ durable' = Len(log)
        /\ phase' = "up" /\ UNCHANGED <<cache, os, tx, nextId, crashes, made>>
    BY DEF Restart, Sync
  <1>2. LogTyped' /\ PagesTyped' /\ TxTyped' /\ Numbered'
    BY <1>1, InvParts DEF LogTyped, PagesTyped, TxTyped, Numbered
  <1>3. Behind'
    BY <1>1, InvParts DEF Behind
  <1>4. QED
    BY <1>2, <1>3 DEF WalInv

(* The invariant is inductive. *)
LEMMA WalStays ==
  ASSUME WalInv, [Next]_vars
  PROVE  WalInv'
  <1>1. CASE UNCHANGED vars
    BY <1>1 DEF vars, WalInv, LogTyped, PagesTyped, TxTyped, Numbered, Behind
  <1>2. ASSUME NEW t \in Tx, Begin(t) \/ Commit(t) \/ Rollback(t) PROVE WalInv'
    BY <1>2, BeginStays, CommitStays, RollbackStays
  <1>3. ASSUME NEW t \in Tx, NEW p \in Page, Insert(t, p) PROVE WalInv'
    BY <1>3, InsertWrote, WroteStays
  <1>4. ASSUME NEW t \in Tx, NEW rid \in Rid, Update(t, rid) PROVE WalInv'
    BY <1>4, UpdateWrote, WroteStays
  <1>5. ASSUME NEW t \in Tx, NEW rid \in Rid, Delete(t, rid) PROVE WalInv'
    BY <1>5, DeleteWrote, WroteStays
  <1>6. ASSUME NEW t \in Tx, NEW rid \in Rid, NEW p \in Page, UpdateMoves(t, rid, p) PROVE WalInv'
    BY <1>6, MoveWrote, WroteStays
  <1>7. ASSUME NEW p \in Page, FlushPage(p) PROVE WalInv'
    BY <1>7, FlushStays
  <1>8. ASSUME Checkpoint \/ Crash \/ Recover \/ Restart PROVE WalInv'
    BY <1>8, CheckpointStays, CrashStays, RecoverStays, RestartStays
  <1>9. QED
    BY <1>1, <1>2, <1>3, <1>4, <1>5, <1>6, <1>7, <1>8 DEF Next

(* Every behaviour keeps it. *)
LEMMA WalAlways == Spec => []WalInv
  BY WalInit, WalStays, PTL DEF Spec

(* Every variable keeps its type: the synced log is part of the one that   *)
(* was handed over, that one of the log, and no page is ahead of the log.  *)
THEOREM Typing == Spec => []TypeOK
  <1>1. WalInv => TypeOK
    <2> SUFFICES ASSUME WalInv PROVE TypeOK
      OBVIOUS
    <2>1. durable \in 0..flushed /\ flushed \in 0..Len(log)
      BY InvParts
    <2>2. ASSUME NEW pages \in Pages, \A p \in Page : pages[p].lsn <= Len(log)
          PROVE  pages \in [Page -> PageType]
      <3>1. \A p \in Page : /\ pages[p].lsn \in 0..Len(log) /\ pages[p].slots \in Slots
                            /\ pages[p] \in OnePage
        <4>1. \A p \in Page : /\ pages[p].lsn \in Nat /\ pages[p].slots \in Slots
                              /\ pages[p] \in OnePage
          BY PagesRight
        <4>2. \A p \in Page : pages[p].lsn \in 0..Len(log)
          BY <2>2, <4>1, InvParts
        <4>3. QED
          BY <4>1, <4>2
      <3>2. PageType = [lsn : 0..Len(log), slots : Slots]
        BY DEF PageType, Slots, AnyImage
      <3>3. \A p \in Page : pages[p] \in PageType
        BY <3>1, <3>2 DEF OnePage
      <3>4. QED
        BY <3>3 DEF Pages
    <2>3. \A p \in Page : os[p].lsn <= Len(log) /\ disk[p].lsn <= Len(log)
      BY InvParts
    <2>4. cache \in [Page -> PageType] /\ os \in [Page -> PageType] /\ disk \in [Page -> PageType]
      BY <2>2, <2>3, InvParts
    <2>5. \A t \in Tx : tx[t] \in [state : {"unborn", "live", "ended"}, id : 0..NTx,
                                   last : 0..Len(log), writes : 0..MaxWrites]
      <3> SUFFICES ASSUME NEW t \in Tx
                   PROVE  tx[t] \in [state : {"unborn", "live", "ended"}, id : 0..NTx,
                                     last : 0..Len(log), writes : 0..MaxWrites]
        OBVIOUS
      <3>1. TxFits(log, tx[t])
        BY InvParts DEF TxTyped
      <3>2. tx[t].last \in 0..Len(log)
        BY <3>1, InvParts DEF TxFits, Resumes, None
      <3>3. QED
        BY <3>1, <3>2 DEF TxFits
    <2>6. tx \in [Tx -> [state : {"unborn", "live", "ended"}, id : 0..NTx,
                         last : 0..Len(log), writes : 0..MaxWrites]]
      BY <2>5, InvParts DEF TxTyped
    <2>7. QED
      BY <2>1, <2>4, <2>6, InvParts DEF TypeOK, Numbered
  <1>2. QED
    BY <1>1, WalAlways, PTL

(* The write-ahead rule: a page is written back after the records of its   *)
(* changes were synced, whatever is flushed, committed or crashes when.    *)
THEOREM WriteAhead == Spec => []WalFirst
  <1>1. WalInv => WalFirst
    BY DEF WalInv, Behind, WalFirst
  <1>2. QED
    BY <1>1, WalAlways, PTL

------------------------------------------------------------------------------
(* Redo is exact.                                                          *)
(*                                                                         *)
(* The pages have been through versions: rep[i] are the pages after the    *)
(* first i records, from some place c of the log on, where they had all    *)
(* that came before.  What a crash leaves of a page is one of its versions *)
(* or one that recovery made, which has the records of the whole log.      *)

\* The records up to n that are about a page are on it.
Done(l, n, p, lsn) == \A j \in 1..n : p \in Touched(l[j]) => j <= lsn

Final(l, p, page) == Done(l, Len(l), p, page.lsn)

\* A row enters where its record says.
Enterable(page, r, p) ==
    Enters(r, p) => FreeSlot(page.slots) = r.rid[2] /\ (page.lsn = 0 => page.slots = <<>>)

Replays(l, c, rep) ==
    /\ c \in 0..Len(l) /\ rep \in [c..Len(l) -> Pages]
    /\ \A i \in (c + 1)..Len(l) :
          /\ l[i].kind # "checkpoint"
          /\ \A p \in Page : /\ rep[i][p] = PageAfter(rep[i - 1][p], l[i], i, p)
                             /\ Enterable(rep[i - 1][p], l[i], p)
    /\ \A p \in Page : rep[c][p].lsn <= c /\ Done(l, c, p, rep[c][p].lsn)

Stage(l, c, rep, p, page) == \E i \in c..Len(l) : page = rep[i][p]
Kept(l, c, rep, p, page)  == Stage(l, c, rep, p, page) \/ Final(l, p, page)

(* A version of a page is not ahead of its time, has all the records so    *)
(* far, and is the one of any time since its stamp.                        *)
LEMMA VersionsRight ==
  ASSUME NEW l, Len(l) \in Nat, NEW c, NEW rep, Replays(l, c, rep), NEW k \in c..Len(l), NEW p \in Page
  PROVE  /\ rep[k][p].lsn \in Nat /\ rep[k][p].lsn <= k /\ rep[c][p].lsn <= rep[k][p].lsn
         /\ Done(l, k, p, rep[k][p].lsn)
         /\ \A n \in c..k : rep[k][p].lsn <= n => rep[n][p] = rep[k][p]
  <1> DEFINE Right(i) == /\ rep[i][p].lsn \in Nat /\ rep[i][p].lsn <= i /\ rep[c][p].lsn <= rep[i][p].lsn
                         /\ Done(l, i, p, rep[i][p].lsn)
                         /\ \A n \in c..i : rep[i][p].lsn <= n => rep[n][p] = rep[i][p]
             Good == {i \in 0..Len(l) : i >= c => Right(i)}
  <1>1. c \in Nat /\ c <= Len(l) /\ c \in c..Len(l)
    BY DEF Replays
  <1>2. \A i \in c..Len(l) : rep[i] \in Pages /\ rep[i][p].lsn \in Nat
    BY PagesRight DEF Replays
  <1>3. Right(c)
    <2>1. rep[c][p].lsn \in Nat /\ rep[c][p].lsn <= c /\ Done(l, c, p, rep[c][p].lsn)
      BY <1>1, <1>2 DEF Replays
    <2>2. \A n \in c..c : n = c
      BY <1>1
    <2>3. QED
      BY <1>1, <2>1, <2>2
  <1>4. ASSUME NEW i \in (c + 1)..Len(l), Right(i - 1) PROVE Right(i)
    <2>1. /\ i \in Nat /\ i - 1 \in c..Len(l) /\ i \in c..Len(l) /\ i - 1 \in Nat
          /\ c..i = (c..(i - 1)) \cup {i} /\ 1..i = (1..(i - 1)) \cup {i}
      BY <1>1
    <2>2. rep[i][p] = PageAfter(rep[i - 1][p], l[i], i, p)
      BY DEF Replays
    <2>3. CASE p \in Touched(l[i])
      <3>1. rep[i][p].lsn = i
        BY <2>2, <2>3, PageAfterLsn
      <3>2. rep[c][p].lsn <= i
        BY <1>1, <1>2, <2>1 DEF Replays
      <3>3. Done(l, i, p, i)
        BY <2>1 DEF Done
      <3>4. \A n \in c..i : i <= n => n = i
        BY <1>1, <2>1
      <3>5. QED
        BY <2>1, <3>1, <3>2, <3>3, <3>4
    <2>4. CASE p \notin Touched(l[i])
      <3>1. rep[i][p] = rep[i - 1][p]
        BY <2>2, <2>4, PageAfterLsn
      <3>2. Done(l, i, p, rep[i][p].lsn)
        BY <1>4, <2>1, <2>4, <3>1 DEF Done
      <3>3. rep[i][p].lsn <= i
        BY <1>2, <1>4, <2>1, <3>1
      <3>4. \A n \in c..i : rep[i][p].lsn <= n => rep[n][p] = rep[i][p]
        BY <1>4, <2>1, <3>1
      <3>5. QED
        BY <1>4, <2>1, <3>1, <3>2, <3>3, <3>4
    <2>5. QED
      BY <2>3, <2>4
  <1> HIDE DEF Right
  <1>5. 0 \in Good
    BY <1>1, <1>3
  <1>6. ASSUME NEW i \in 1..Len(l), i - 1 \in Good PROVE i \in Good
    <2>1. CASE i < c
      BY <1>1, <2>1
    <2>2. CASE i = c
      BY <1>1, <1>3, <2>2
    <2>3. CASE i > c
      <3>1. i \in (c + 1)..Len(l) /\ i - 1 >= c
        BY <1>1, <2>3
      <3>2. Right(i - 1)
        BY <1>6, <3>1
      <3>3. QED
        BY <1>4, <3>1, <3>2
    <2>4. QED
      BY <1>1, <2>1, <2>2, <2>3
  <1> HIDE DEF Good
  <1>7. 0..Len(l) \subseteq Good
    BY <1>5, <1>6, Climbs
  <1>8. k \in 0..Len(l) /\ k >= c
    BY <1>1
  <1>9. Right(k)
    BY <1>7, <1>8 DEF Good
  <1>10. QED
    BY <1>9 DEF Right

(* Redoing a record does to a page that lacks it what the statement did.   *)
LEMMA RedoOnePages ==
  ASSUME NEW acc \in Redoing(Len(log)), NEW i \in 1..Len(log), WellLogged(log), acc.exact,
         \A p \in Page : acc.pages[p].lsn < i => Enterable(acc.pages[p], log[i], p)
  PROVE  /\ RedoOne(acc, i).exact
         /\ \A p \in Page : RedoOne(acc, i).pages[p] =
                               IF acc.pages[p].lsn >= i THEN acc.pages[p]
                               ELSE PageAfter(acc.pages[p], log[i], i, p)
  <1> DEFINE r == log[i]
  <1>1. /\ i \in Nat /\ i > 0 /\ acc.pages \in Pages
        /\ \A p \in Page : acc.pages[p].lsn \in Nat
    <2>1. Len(log) \in Nat
      BY DEF WellLogged
    <2>2. acc.pages \in Pages
      BY DEF Redoing
    <2>3. \A p \in Page : acc.pages[p].lsn \in Nat
      BY <2>2, PagesRight
    <2>4. i \in Nat /\ i > 0
      BY <2>1
    <2>5. QED
      BY <2>2, <2>3, <2>4
  <1>2. /\ r \in Records /\ r.after \in AnyImage /\ None \in AnyImage
        /\ r.kind \in Writes => r.rid \in Rid /\ r.rid[1] \in Page
        /\ r.kind = "update" => r.old \in Rid /\ r.old[1] \in Page /\ (r.old = r.rid \/ r.old[1] # r.rid[1])
    BY SoundInside, Sizes DEF Sound, Records, Rid
  <1> HIDE DEF r
  <1>3. ASSUME NEW a, a \in Redoing(Len(log)), a.exact, NEW q \in Page, q = r.rid[1], Enters(r, q),
               a.pages[q].lsn < i => Enterable(a.pages[q], r, q)
        PROVE  /\ RedoInsert(a, r, i).exact
               /\ \A p \in Page : RedoInsert(a, r, i).pages[p] =
                     IF p = q /\ a.pages[p].lsn < i
                     THEN [lsn |-> i, slots |-> AddTo(a.pages[p].slots, r.after)]
                     ELSE a.pages[p]
    <2>1. a.pages \in Pages /\ a.pages[q].lsn \in Nat
      BY <1>3, PagesRight DEF Redoing
    <2>2. CASE a.pages[q].lsn >= i
      <3>1. RedoInsert(a, r, i) = a
        BY <1>3, <2>2 DEF RedoInsert
      <3>2. QED
        BY <1>1, <1>3, <2>1, <2>2, <3>1
    <2>3. CASE a.pages[q].lsn < i
      <3> DEFINE base == IF a.pages[q].lsn = 0 THEN <<>> ELSE a.pages[q].slots
                 k    == [lsn |-> i, slots |-> AddTo(base, r.after)]
                 new  == [a.pages EXCEPT ![q] = k]
      <3>1. base = a.pages[q].slots /\ FreeSlot(base) = r.rid[2]
        BY <1>3, <2>3 DEF Enterable
      <3>2. ~ (a.pages[q].lsn >= i)
        BY <1>1, <2>1, <2>3
      <3>3. RedoInsert(a, r, i) = [pages |-> new, exact |-> a.exact /\ FreeSlot(base) = r.rid[2]]
        BY <1>3, <3>2 DEF RedoInsert
      <3> HIDE DEF k
      <3>4. \A p \in Page : new[p] = IF p = q THEN k ELSE a.pages[p]
        BY <2>1 DEF Pages
      <3> HIDE DEF new
      <3>5. RedoInsert(a, r, i).exact /\ RedoInsert(a, r, i).pages = new
        <4> DEFINE e == a.exact /\ FreeSlot(base) = r.rid[2]
        <4>1. e
          BY <1>3, <3>1
        <4>2. RedoInsert(a, r, i) = [pages |-> new, exact |-> e]
          BY <3>3
        <4> HIDE DEF e
        <4>3. QED
          BY <4>1, <4>2
      <3>6. k = [lsn |-> i, slots |-> AddTo(a.pages[q].slots, r.after)]
        BY <3>1 DEF k
      <3>7. QED
        BY <2>3, <3>4, <3>5, <3>6
    <2>4. QED
      BY <1>1, <2>1, <2>2, <2>3
  <1>4. ASSUME NEW a, a \in Redoing(Len(log)), a.exact, NEW rid \in Rid, NEW image \in AnyImage
        PROVE  /\ RedoOverwrite(a, rid, image, i).exact
               /\ \A p \in Page : RedoOverwrite(a, rid, image, i).pages[p] =
                     IF p = rid[1] /\ a.pages[p].lsn < i
                     THEN [lsn |-> i, slots |-> Written(a.pages[p].slots, rid[2], image)]
                     ELSE a.pages[p]
    <2> DEFINE q == rid[1]
    <2>1. a.pages \in Pages /\ q \in Page /\ a.pages[q].lsn \in Nat
      BY <1>4, PagesRight DEF Redoing, Rid
    <2>2. CASE a.pages[q].lsn >= i
      <3>1. RedoOverwrite(a, rid, image, i) = a
        BY <2>2 DEF RedoOverwrite
      <3>2. QED
        BY <1>1, <1>4, <2>1, <2>2, <3>1
    <2>3. CASE a.pages[q].lsn < i
      <3> DEFINE over == Overwrite(a.pages, rid, image)
                 new  == Stamped(over, {q}, i)
      <3>1. RedoOverwrite(a, rid, image, i) = [a EXCEPT !.pages = new]
        BY <1>1, <2>1, <2>3 DEF RedoOverwrite
      <3>2. /\ over \in Pages
            /\ \A p \in Page : /\ over[p].lsn = a.pages[p].lsn
                               /\ over[p].slots = IF p = q THEN Written(a.pages[p].slots, rid[2], image)
                                                  ELSE a.pages[p].slots
        BY <2>1, OverwriteRight
      <3> HIDE DEF over
      <3>3. /\ new \in Pages
            /\ \A p \in Page : /\ new[p].lsn = IF p \in {q} /\ over[p].lsn < i THEN i ELSE over[p].lsn
                               /\ new[p].slots = over[p].slots
        BY <1>1, <3>2, StampedRight
      <3> HIDE DEF new, q
      <3>4. new[q] = [lsn |-> i, slots |-> Written(a.pages[q].slots, rid[2], image)]
        <4>1. new[q].lsn = i /\ new[q].slots = Written(a.pages[q].slots, rid[2], image)
          BY <2>1, <2>3, <3>2, <3>3
        <4>2. QED
          BY <2>1, <3>3, <4>1, SamePage
      <3>5. ASSUME NEW p \in Page, p # q PROVE new[p] = a.pages[p]
        <4>1. new[p].lsn = a.pages[p].lsn /\ new[p].slots = a.pages[p].slots
          BY <3>2, <3>3, <3>5
        <4>2. new[p] = [lsn |-> a.pages[p].lsn, slots |-> a.pages[p].slots]
          BY <3>3, <4>1, SamePage
        <4>3. QED
          BY <2>1, <4>2, PagesRight
      <3>6. RedoOverwrite(a, rid, image, i).exact /\ RedoOverwrite(a, rid, image, i).pages = new
        BY <1>4, <3>1 DEF Redoing
      <3>7. QED
        BY <2>3, <3>4, <3>5, <3>6 DEF q
    <2>4. QED
      BY <1>1, <2>1, <2>2, <2>3
  <1>5. \A p \in Page : acc.pages[p].lsn < i => Enterable(acc.pages[p], r, p)
    BY DEF r
  <1>6. \A p \in Page : acc.pages[p].lsn >= i <=> ~ (acc.pages[p].lsn < i)
    BY <1>1
  <1> DEFINE Page2(p) == IF acc.pages[p].lsn >= i THEN acc.pages[p] ELSE PageAfter(acc.pages[p], r, i, p)
             new == RedoOne(acc, i)
  <1>7. CASE r.kind = "insert"
    <2>1. new = RedoInsert(acc, r, i)
      BY <1>7 DEF RedoOne, Writes, r
    <2>2. r.rid[1] \in Page /\ Touched(r) = {r.rid[1]} /\ \A p : Enters(r, p) <=> p = r.rid[1]
      BY <1>2, <1>7 DEF Touched, Enters, Writes
    <2> HIDE DEF new
    <2>3. /\ new.exact
          /\ \A p \in Page : new.pages[p] =
                IF p = r.rid[1] /\ acc.pages[p].lsn < i
                THEN [lsn |-> i, slots |-> AddTo(acc.pages[p].slots, r.after)]
                ELSE acc.pages[p]
      BY <1>3, <1>5, <2>1, <2>2
    <2>4. \A p \in Page : new.pages[p] = Page2(p)
      BY <1>6, <2>2, <2>3 DEF PageAfter, SlotsAfter
    <2>5. QED
      BY <2>3, <2>4 DEF new, r
  <1>8. CASE r.kind = "delete" \/ (r.kind = "update" /\ r.old = r.rid)
    <2>1. new = RedoOverwrite(acc, RowOf(r), ImageOf(r), i)
      BY <1>8 DEF RedoOne, Writes, RowOf, ImageOf, r
    <2>2. /\ RowOf(r) \in Rid /\ ImageOf(r) \in AnyImage
          /\ Touched(r) = {RowOf(r)[1]} /\ \A p : ~ Enters(r, p)
      BY <1>2, <1>8 DEF Touched, Enters, Writes, RowOf, ImageOf
    <2> HIDE DEF new
    <2>3. /\ new.exact
          /\ \A p \in Page : new.pages[p] =
                IF p = RowOf(r)[1] /\ acc.pages[p].lsn < i
                THEN [lsn |-> i, slots |-> Written(acc.pages[p].slots, RowOf(r)[2], ImageOf(r))]
                ELSE acc.pages[p]
      BY <1>4, <2>1, <2>2
    <2>4. \A p \in Page : new.pages[p] = Page2(p)
      BY <1>6, <2>2, <2>3 DEF PageAfter, SlotsAfter
    <2>5. QED
      BY <2>3, <2>4 DEF new, r
  <1>9. CASE r.kind = "update" /\ r.old # r.rid
    <2> DEFINE in == RedoInsert(acc, r, i)
    <2>1. new = RedoOverwrite(in, r.old, None, i)
      BY <1>9 DEF RedoOne, Writes, r
    <2>2. /\ r.old \in Rid /\ r.old[1] \in Page /\ r.rid[1] \in Page /\ r.old[1] # r.rid[1]
          /\ r.rid \in Rid
          /\ Touched(r) = {r.rid[1], r.old[1]} /\ RowOf(r) = r.old /\ ImageOf(r) = None
          /\ \A p : Enters(r, p) <=> p = r.rid[1]
      BY <1>2, <1>9 DEF Touched, Enters, Writes, RowOf, ImageOf
    <2>3. /\ in.exact
          /\ \A p \in Page : in.pages[p] =
                IF p = r.rid[1] /\ acc.pages[p].lsn < i
                THEN [lsn |-> i, slots |-> AddTo(acc.pages[p].slots, r.after)]
                ELSE acc.pages[p]
      BY <1>3, <1>5, <2>2
    <2>4. in \in Redoing(Len(log))
      <3>1. Len(log) \in Nat /\ i \in 0..Len(log)
        BY DEF WellLogged
      <3>2. QED
        BY <1>2, <2>2, <3>1, RedoInsertRight
    <2> HIDE DEF new, in
    <2>5. /\ new.exact
          /\ \A p \in Page : new.pages[p] =
                IF p = r.old[1] /\ in.pages[p].lsn < i
                THEN [lsn |-> i, slots |-> Written(in.pages[p].slots, r.old[2], None)]
                ELSE in.pages[p]
      BY <1>2, <1>4, <2>1, <2>2, <2>3, <2>4
    <2>6. \A p \in Page : new.pages[p] = Page2(p)
      <3> SUFFICES ASSUME NEW p \in Page PROVE new.pages[p] = Page2(p)
        OBVIOUS
      <3>1. CASE p = r.rid[1]
        <4>1. new.pages[p] = in.pages[p]
          BY <2>2, <2>5, <3>1
        <4>2. QED
          BY <1>6, <2>2, <2>3, <3>1, <4>1 DEF PageAfter, SlotsAfter
      <3>2. CASE p = r.old[1]
        <4>1. in.pages[p] = acc.pages[p]
          BY <2>2, <2>3, <3>2
        <4>2. QED
          BY <1>6, <2>2, <2>5, <3>2, <4>1 DEF PageAfter, SlotsAfter
      <3>3. CASE p # r.rid[1] /\ p # r.old[1]
        <4>1. in.pages[p] = acc.pages[p] /\ new.pages[p] = in.pages[p]
          BY <2>3, <2>5, <3>3
        <4>2. QED
          BY <1>6, <2>2, <3>3, <4>1 DEF PageAfter
      <3>4. QED
        BY <3>1, <3>2, <3>3
    <2>7. QED
      BY <2>5, <2>6 DEF new, r
  <1>10. CASE r.kind \notin Writes
    <2>1. new = acc
      BY <1>10 DEF RedoOne, Writes, r
    <2>2. Touched(r) = {}
      BY <1>10 DEF Touched
    <2> HIDE DEF new
    <2>3. \A p \in Page : new.pages[p] = Page2(p)
      BY <2>1, <2>2 DEF PageAfter
    <2>4. QED
      BY <2>1, <2>3 DEF new, r
  <1>11. QED
    BY <1>7, <1>8, <1>9, <1>10 DEF Writes

(* Redo brings every page to its last version, whatever versions it finds. *)
LEMMA RedoIsRight ==
  ASSUME WellLogged(log), NEW c, NEW rep, Replays(log, c, rep), LastCheckpoint <= c,
         NEW pages \in Pages, \A p \in Page : pages[p].lsn <= Len(log),
         \A p \in Page : Kept(log, c, rep, p, pages[p])
  PROVE  /\ Redo(pages).exact
         /\ \A p \in Page : Final(log, p, Redo(pages).pages[p])
  <1> DEFINE n == Len(log)
             Whole(p) == Final(log, p, pages[p])
             Seen(i, p) == IF Whole(p) \/ i < c \/ pages[p].lsn > i THEN pages[p] ELSE rep[i][p]
  <1>1. /\ n \in Nat /\ c \in Nat /\ c <= n /\ LastCheckpoint \in Nat
        /\ \A p \in Page : pages[p].lsn \in Nat
    <2>1. n \in Nat /\ c \in 0..n /\ LastCheckpoint \in 0..n
      BY LastCheckpointRight DEF WellLogged, Replays
    <2>2. \A p \in Page : pages[p].lsn \in Nat
      BY PagesRight
    <2>3. QED
      BY <2>1, <2>2
  <1>2. PICK f : Redoes(f, pages) /\ Redo(pages) = f[n]
    BY RedoRuns
  <1>3. /\ f \in [0..n -> Redoing(n)]
        /\ \A i \in 0..n : f[i] = IF i <= LastCheckpoint THEN [pages |-> pages, exact |-> TRUE]
                                  ELSE RedoOne(f[i - 1], i)
    BY <1>2 DEF Redoes
  <1>4. ASSUME NEW p \in Page, ~ Whole(p)
        PROVE  \E k \in c..n : /\ pages[p] = rep[k][p] /\ pages[p].lsn <= k
                               /\ rep[c][p].lsn <= pages[p].lsn
                               /\ \A i \in c..k : pages[p].lsn <= i => rep[i][p] = pages[p]
    <2>1. PICK k \in c..n : pages[p] = rep[k][p]
      BY <1>4 DEF Kept, Stage
    <2>2. /\ rep[k][p].lsn <= k /\ rep[c][p].lsn <= rep[k][p].lsn
          /\ \A i \in c..k : rep[k][p].lsn <= i => rep[i][p] = rep[k][p]
      BY <1>1, VersionsRight
    <2>3. QED
      BY <2>1, <2>2
  <1>5. ASSUME NEW p \in Page PROVE Seen(c, p) = pages[p]
    <2>1. CASE Whole(p) \/ pages[p].lsn > c
      BY <2>1
    <2>2. CASE ~ Whole(p) /\ ~ (pages[p].lsn > c)
      <3>1. PICK k \in c..n : \A i \in c..k : pages[p].lsn <= i => rep[i][p] = pages[p]
        BY <1>4, <2>2
      <3>2. c \in c..k /\ pages[p].lsn <= c
        BY <1>1, <2>2
      <3>3. QED
        BY <3>1, <3>2
    <2>3. QED
      BY <2>1, <2>2
  <1>6. \A i \in Nat : \A p \in Page : i <= c => Seen(i, p) = pages[p]
    BY <1>1, <1>5
  <1>7. ASSUME NEW i \in 1..n, NEW p \in Page
        PROVE  /\ Seen(i - 1, p).lsn < i => Enterable(Seen(i - 1, p), log[i], p)
               /\ Seen(i, p) = IF Seen(i - 1, p).lsn >= i THEN Seen(i - 1, p)
                               ELSE PageAfter(Seen(i - 1, p), log[i], i, p)
    <2> DEFINE r == log[i]
    <2>1. i \in Nat /\ i - 1 \in Nat /\ i <= n
      BY <1>1
    <2>2. /\ p \notin Touched(r) => Enterable(pages[p], r, p)
          /\ p \notin Touched(r) => PageAfter(pages[p], r, i, p) = pages[p]
      BY PageAfterLsn DEF Enterable, Enters, Touched, Writes
    <2> HIDE DEF r
    <2>3. ASSUME Seen(i - 1, p) = pages[p], Seen(i, p) = pages[p], p \in Touched(r) => i <= pages[p].lsn
          PROVE  /\ Seen(i - 1, p).lsn < i => Enterable(Seen(i - 1, p), r, p)
                 /\ Seen(i, p) = IF Seen(i - 1, p).lsn >= i THEN Seen(i - 1, p)
                                 ELSE PageAfter(Seen(i - 1, p), r, i, p)
      <3> HIDE DEF Seen
      <3>1. CASE p \in Touched(r)
        <4>1. pages[p].lsn >= i /\ ~ (pages[p].lsn < i)
          BY <1>1, <2>1, <2>3, <3>1
        <4>2. QED
          BY <2>3, <4>1
      <3>2. CASE p \notin Touched(r)
        BY <2>2, <2>3, <3>2
      <3>3. QED
        BY <3>1, <3>2
    <2>4. CASE Whole(p)
      <3>1. p \in Touched(r) => i <= pages[p].lsn
        BY <1>1, <2>4 DEF Final, Done, r
      <3>2. Seen(i - 1, p) = pages[p] /\ Seen(i, p) = pages[p]
        BY <2>4
      <3>3. QED
        BY <2>3, <3>1, <3>2 DEF r
    <2>5. CASE ~ Whole(p) /\ i <= c
      <3>1. Done(log, c, p, rep[c][p].lsn) /\ rep[c][p].lsn <= pages[p].lsn /\ rep[c][p].lsn \in Nat
        <4>1. c \in c..n
          BY <1>1
        <4>2. Done(log, c, p, rep[c][p].lsn) /\ rep[c][p].lsn \in Nat
          BY <1>1, <4>1, VersionsRight
        <4>3. QED
          BY <1>4, <2>5, <4>2
      <3>2. i \in 1..c
        BY <1>1, <2>1, <2>5
      <3>3. p \in Touched(r) => i <= rep[c][p].lsn
        BY <3>1, <3>2 DEF Done, r
      <3>4. p \in Touched(r) => i <= pages[p].lsn
        BY <1>1, <2>1, <3>1, <3>3
      <3>5. Seen(i - 1, p) = pages[p] /\ Seen(i, p) = pages[p]
        BY <1>1, <1>6, <2>1, <2>5
      <3>6. QED
        BY <2>3, <3>4, <3>5 DEF r
    <2>6. CASE ~ Whole(p) /\ i > c /\ pages[p].lsn >= i
      <3>1. PICK k \in c..n : /\ pages[p].lsn <= k
                              /\ \A m \in c..k : pages[p].lsn <= m => rep[m][p] = pages[p]
        BY <1>4, <2>6
      <3>2. Seen(i - 1, p) = pages[p]
        BY <1>1, <2>1, <2>6
      <3>3. Seen(i, p) = pages[p]
        <4>1. CASE pages[p].lsn > i
          BY <4>1
        <4>2. CASE ~ (pages[p].lsn > i)
          <5>1. pages[p].lsn <= i /\ i <= k /\ i \in c..k
            BY <1>1, <2>1, <2>6, <3>1, <4>2
          <5>2. rep[i][p] = pages[p]
            BY <3>1, <5>1
          <5>3. QED
            BY <5>2
        <4>3. QED
          BY <4>1, <4>2
      <3>4. i <= pages[p].lsn
        BY <1>1, <2>1, <2>6
      <3>5. QED
        BY <2>3, <3>2, <3>3, <3>4 DEF r
    <2>7. CASE ~ Whole(p) /\ i > c /\ ~ (pages[p].lsn >= i)
      <3>1. i \in (c + 1)..n /\ i - 1 \in c..n /\ pages[p].lsn <= i - 1 /\ pages[p].lsn <= i
        BY <1>1, <2>1, <2>7
      <3>2. Seen(i - 1, p) = rep[i - 1][p] /\ Seen(i, p) = rep[i][p]
        BY <1>1, <2>1, <2>7, <3>1
      <3>3. rep[i - 1][p].lsn \in Nat /\ rep[i - 1][p].lsn <= i - 1
        BY <1>1, <3>1, VersionsRight
      <3>4. ~ (rep[i - 1][p].lsn >= i)
        BY <2>1, <3>3
      <3>5. rep[i][p] = PageAfter(rep[i - 1][p], r, i, p) /\ Enterable(rep[i - 1][p], r, p)
        BY <3>1 DEF Replays, r
      <3> HIDE DEF Seen
      <3>6. QED
        BY <3>2, <3>4, <3>5 DEF r
    <2>8. QED
      BY <1>1, <2>1, <2>4, <2>5, <2>6, <2>7
  <1> HIDE DEF n
  <1> DEFINE Right(i) == f[i].exact /\ \A p \in Page : f[i].pages[p] = Seen(i, p)
             Good == {i \in 0..n : Right(i)}
  <1>8. ASSUME NEW i \in 0..n, i <= LastCheckpoint PROVE Right(i)
    <2>1. f[i] = [pages |-> pages, exact |-> TRUE]
      BY <1>3, <1>8
    <2>2. i <= c /\ i \in Nat
      BY <1>1, <1>8
    <2>3. \A p \in Page : Seen(i, p) = pages[p]
      BY <1>6, <2>2
    <2> HIDE DEF Seen
    <2>4. QED
      BY <2>1, <2>3
  <1> HIDE DEF Seen
  <1>9. 0 \in Good
    <2>1. 0 \in 0..n /\ 0 <= LastCheckpoint
      BY <1>1
    <2> HIDE DEF Right
    <2>2. QED
      BY <1>8, <2>1
  <1>10. ASSUME NEW i \in 1..n, i - 1 \in Good PROVE i \in Good
    <2>1. i \in 0..n /\ i - 1 \in 0..n
      BY <1>1
    <2>2. Right(i - 1)
      BY <1>10
    <2>3. CASE i <= LastCheckpoint
      <3> HIDE DEF Right
      <3>1. QED
        BY <1>8, <2>1, <2>3
    <2>4. CASE ~ (i <= LastCheckpoint)
      <3>1. f[i] = RedoOne(f[i - 1], i)
        BY <1>3, <2>1, <2>4
      <3>2. f[i - 1] \in Redoing(n) /\ f[i - 1].exact
        BY <1>3, <2>1, <2>2
      <3>3. \A p \in Page : f[i - 1].pages[p] = Seen(i - 1, p)
        BY <2>2
      <3>4. \A p \in Page : f[i - 1].pages[p].lsn < i => Enterable(f[i - 1].pages[p], log[i], p)
        BY <1>7, <3>3
      <3>5. /\ RedoOne(f[i - 1], i).exact
            /\ \A p \in Page : RedoOne(f[i - 1], i).pages[p] =
                                  IF f[i - 1].pages[p].lsn >= i THEN f[i - 1].pages[p]
                                  ELSE PageAfter(f[i - 1].pages[p], log[i], i, p)
        BY <3>2, <3>4, RedoOnePages DEF n
      <3>6. \A p \in Page : RedoOne(f[i - 1], i).pages[p] = Seen(i, p)
        BY <1>7, <3>3, <3>5
      <3>7. Right(i)
        BY <3>1, <3>5, <3>6
      <3> HIDE DEF Right
      <3>8. QED
        BY <2>1, <3>7
    <2>5. QED
      BY <2>3, <2>4
  <1> HIDE DEF Good
  <1>11. 0..n \subseteq Good
    BY <1>1, <1>9, <1>10, Climbs
  <1>12. Right(n)
    <2>1. n \in 0..n
      BY <1>1
    <2> HIDE DEF Right
    <2>2. QED
      BY <1>11, <2>1 DEF Good
  <1>13. ASSUME NEW p \in Page PROVE Final(log, p, Seen(n, p))
    <2>1. CASE Whole(p)
      BY <2>1 DEF Seen
    <2>2. CASE ~ Whole(p)
      <3>1. ~ (n < c) /\ ~ (pages[p].lsn > n)
        BY <1>1 DEF n
      <3>2. Seen(n, p) = rep[n][p]
        BY <2>2, <3>1 DEF Seen
      <3>3. n \in c..n
        BY <1>1
      <3>4. Done(log, n, p, rep[n][p].lsn)
        BY <1>1, <3>3, VersionsRight DEF n
      <3>5. QED
        BY <3>2, <3>4 DEF Final, n
    <2>3. QED
      BY <2>1, <2>2
  <1>14. QED
    BY <1>2, <1>12, <1>13

\* What the versions have to do with the pages in the pool and on the disk.
Accounting(l, c, rep, ph, ca, o, di) ==
    /\ Replays(l, c, rep)
    /\ \A i \in 1..Len(l) : l[i].kind = "checkpoint" => i <= c
    /\ ph = "up" => /\ ca = rep[Len(l)]
                    /\ \A p \in Page : Stage(l, c, rep, p, o[p]) /\ Stage(l, c, rep, p, di[p])
    /\ ph = "recovered" => \A p \in Page : Final(l, p, ca[p])
    /\ ph \in {"down", "recovered"} =>
          \A p \in Page : Kept(l, c, rep, p, o[p]) /\ Kept(l, c, rep, p, di[p])
    /\ ph = "down" => ca = o

Accounts(l, d, ph, ca, o, di) ==
    \E c \in 0..d : \E rep : Accounting(l, c, rep, ph, ca, o, di)

NoAbort(l) == \A i \in 1..Len(l) : l[i].kind # "abort"

\* Until a transaction is rolled back the log tells all of the pages; after a
\* crash none is, for then a crash could lose its undo.
Told(l, n) == n > 0 \/ NoAbort(l)

StampedPages(ca) == \A p \in Page : ca[p].lsn = 0 => ca[p].slots = <<>>

Accounted == /\ Rollbacks = "never" => Told(log, crashes)
             /\ phase \in {"down", "recovered"} => crashes > 0 /\ Live = {}
             /\ Told(log, crashes) /\ phase = "up" /\ (Live # {} \/ crashes = 0) => StampedPages(cache)
             /\ Told(log, crashes) => phase = "hung" \/ Accounts(log, durable, phase, cache, os, disk)

\* The versions of a longer log, which end with new.
Prolongs(m, l, c, rep, rep2, new) ==
    Replays(m, c, rep2) /\ rep2[Len(m)] = new /\ \A i \in c..Len(l) : rep2[i] = rep[i]

(* When nothing that the log is about happens, it has the same versions.   *)
LEMMA ReplaysGrow ==
  ASSUME NEW l, Len(l) \in Nat, NEW m, Len(m) \in Nat, Len(l) < Len(m),
         \A i \in 1..Len(l) : m[i] = l[i],
         NEW c, NEW rep, Replays(l, c, rep), NEW new \in Pages,
         \A i \in (Len(l) + 1)..(Len(m) - 1) : m[i].kind \notin Writes \cup {"checkpoint"},
         m[Len(m)].kind # "checkpoint",
         \A p \in Page : /\ new[p] = PageAfter(rep[Len(l)][p], m[Len(m)], Len(m), p)
                         /\ Enterable(rep[Len(l)][p], m[Len(m)], p)
  PROVE  \E rep2 : Prolongs(m, l, c, rep, rep2, new)
  <1> DEFINE rep2 == [i \in c..Len(m) |-> IF i <= Len(l) THEN rep[i]
                                          ELSE IF i < Len(m) THEN rep[Len(l)] ELSE new]
  <1>1. /\ c \in Nat /\ c <= Len(l) /\ rep \in [c..Len(l) -> Pages]
        /\ c \in 0..Len(m) /\ Len(l) \in c..Len(l)
    BY DEF Replays
  <1>2. /\ \A i \in c..Len(l) : rep2[i] = rep[i]
        /\ \A i \in (Len(l) + 1)..(Len(m) - 1) : rep2[i] = rep[Len(l)]
        /\ rep2[Len(m)] = new
    BY <1>1
  <1>3. rep2 \in [c..Len(m) -> Pages]
    BY <1>1
  <1> HIDE DEF rep2
  <1>4. ASSUME NEW i \in (c + 1)..Len(m)
        PROVE  /\ m[i].kind # "checkpoint"
               /\ \A p \in Page : /\ rep2[i][p] = PageAfter(rep2[i - 1][p], m[i], i, p)
                                  /\ Enterable(rep2[i - 1][p], m[i], p)
    <2>1. CASE i <= Len(l)
      <3>1. i \in (c + 1)..Len(l) /\ i \in c..Len(l) /\ i - 1 \in c..Len(l) /\ i \in 1..Len(l)
        BY <1>1, <2>1
      <3>2. rep2[i] = rep[i] /\ rep2[i - 1] = rep[i - 1] /\ m[i] = l[i]
        BY <1>2, <3>1
      <3>3. QED
        BY <3>1, <3>2 DEF Replays
    <2>2. CASE i > Len(l) /\ i < Len(m)
      <3>1. i \in (Len(l) + 1)..(Len(m) - 1)
        BY <1>1, <2>2
      <3>2. i - 1 = Len(l) \/ i - 1 \in (Len(l) + 1)..(Len(m) - 1)
        BY <1>1, <2>2
      <3>3. rep2[i] = rep[Len(l)] /\ rep2[i - 1] = rep[Len(l)]
        BY <1>1, <1>2, <3>1, <3>2
      <3>4. m[i].kind \notin Writes /\ m[i].kind # "checkpoint"
        BY <3>1
      <3>5. Touched(m[i]) = {} /\ \A p : ~ Enters(m[i], p)
        BY <3>4 DEF Touched, Enters, Writes
      <3>6. QED
        BY <3>3, <3>4, <3>5 DEF PageAfter, Enterable
    <2>3. CASE i = Len(m)
      <3>1. i - 1 = Len(l) \/ i - 1 \in (Len(l) + 1)..(Len(m) - 1)
        BY <1>1, <2>3
      <3>2. rep2[i] = new /\ rep2[i - 1] = rep[Len(l)]
        BY <1>1, <1>2, <2>3, <3>1
      <3>3. QED
        BY <2>3, <3>2
    <2>4. QED
      BY <1>1, <2>1, <2>2, <2>3
  <1>5. \A p \in Page : rep2[c][p].lsn <= c /\ Done(m, c, p, rep2[c][p].lsn)
    <2>1. rep2[c] = rep[c]
      BY <1>1, <1>2
    <2>2. \A j \in 1..c : m[j] = l[j]
      BY <1>1
    <2>3. QED
      BY <2>1, <2>2 DEF Replays, Done
  <1>6. Replays(m, c, rep2)
    BY <1>1, <1>3, <1>4, <1>5 DEF Replays
  <1>7. QED
    BY <1>2, <1>6 DEF Prolongs

(* Records of other kinds leave the pages as they are.                     *)
LEMMA ReplaysQuiet ==
  ASSUME NEW l, Len(l) \in Nat, NEW m, Len(m) \in Nat, Len(l) <= Len(m),
         \A i \in 1..Len(l) : m[i] = l[i],
         NEW c, NEW rep, Replays(l, c, rep),
         \A i \in (Len(l) + 1)..Len(m) : m[i].kind \notin Writes \cup {"checkpoint"}
  PROVE  \E rep2 : Prolongs(m, l, c, rep, rep2, rep[Len(l)])
  <1>1. /\ c \in Nat /\ c <= Len(l) /\ rep \in [c..Len(l) -> Pages] /\ Len(l) \in c..Len(l)
    BY DEF Replays
  <1>2. CASE Len(m) = Len(l)
    <2>1. Replays(m, c, rep)
      <3>1. \A i \in (c + 1)..Len(l) : m[i] = l[i]
        BY <1>1
      <3>2. \A i \in 1..c : m[i] = l[i]
        BY <1>1
      <3>3. \A p \in Page : Done(m, c, p, rep[c][p].lsn)
        BY <3>2 DEF Replays, Done
      <3>4. QED
        BY <1>2, <3>1, <3>3 DEF Replays
    <2>2. QED
      BY <1>2, <2>1 DEF Prolongs
  <1>3. CASE Len(m) # Len(l)
    <2> DEFINE r == m[Len(m)]
               new == rep[Len(l)]
    <2>1. Len(l) < Len(m) /\ Len(m) \in (Len(l) + 1)..Len(m)
      BY <1>3
    <2>2. r.kind \notin Writes /\ r.kind # "checkpoint"
      BY <2>1
    <2>3. Touched(r) = {} /\ \A p : ~ Enters(r, p)
      BY <2>2 DEF Touched, Enters, Writes
    <2>4. \A i \in (Len(l) + 1)..(Len(m) - 1) : m[i].kind \notin Writes \cup {"checkpoint"}
      BY <2>1
    <2>5. \A p \in Page : /\ new[p] = PageAfter(rep[Len(l)][p], r, Len(m), p)
                          /\ Enterable(rep[Len(l)][p], r, p)
      BY <2>3 DEF PageAfter, Enterable
    <2>6. new \in Pages
      BY <1>1
    <2> HIDE DEF new
    <2>7. \E rep2 : Prolongs(m, l, c, rep, rep2, new)
      BY <2>1, <2>2, <2>4, <2>5, <2>6, ReplaysGrow
    <2>8. QED
      BY <2>7 DEF new
  <1>4. QED
    BY <1>2, <1>3

(* Versions stay versions.                                                 *)
LEMMA StageLater ==
  ASSUME NEW l, NEW m, Len(l) \in Nat, Len(m) \in Nat, Len(l) <= Len(m),
         NEW c \in Nat, NEW rep, NEW rep2, NEW new, Prolongs(m, l, c, rep, rep2, new),
         NEW p, NEW page, Stage(l, c, rep, p, page)
  PROVE  Stage(m, c, rep2, p, page)
  <1>1. PICK i \in c..Len(l) : page = rep[i][p]
    BY DEF Stage
  <1>2. i \in c..Len(m) /\ page = rep2[i][p]
    BY <1>1 DEF Prolongs
  <1>3. QED
    BY <1>2 DEF Stage

(* When no record about a page is added, it still has them all.            *)
LEMMA FinalLater ==
  ASSUME NEW l, NEW m, Len(l) \in Nat, Len(m) \in Nat, Len(l) <= Len(m),
         \A i \in 1..Len(l) : m[i] = l[i],
         \A i \in (Len(l) + 1)..Len(m) : m[i].kind \notin Writes,
         NEW p, NEW page, Final(l, p, page)
  PROVE  Final(m, p, page)
  <1> SUFFICES ASSUME NEW j \in 1..Len(m), p \in Touched(m[j]) PROVE j <= page.lsn
    BY DEF Final, Done
  <1>1. j \in 1..Len(l)
    <2> SUFFICES ASSUME ~ (j \in 1..Len(l)) PROVE FALSE
      OBVIOUS
    <2>1. j \in (Len(l) + 1)..Len(m)
      OBVIOUS
    <2>2. QED
      BY <2>1 DEF Touched
  <1>2. QED
    BY <1>1 DEF Final, Done

(* Pages that have the whole log are a place to count versions from.       *)
LEMMA ReplaysFrom ==
  ASSUME NEW l, Len(l) \in Nat, NEW pages \in Pages,
         \A p \in Page : pages[p].lsn <= Len(l) /\ Final(l, p, pages[p])
  PROVE  \E rep : /\ Replays(l, Len(l), rep) /\ rep[Len(l)] = pages
                  /\ \A p \in Page : Stage(l, Len(l), rep, p, pages[p])
  <1> DEFINE rep == [i \in Len(l)..Len(l) |-> pages]
  <1>1. /\ rep \in [Len(l)..Len(l) -> Pages] /\ Len(l) \in Len(l)..Len(l)
        /\ rep[Len(l)] = pages /\ Len(l) \in 0..Len(l)
    OBVIOUS
  <1>2. \A i \in (Len(l) + 1)..Len(l) : FALSE
    OBVIOUS
  <1> HIDE DEF rep
  <1>3. Replays(l, Len(l), rep)
    BY <1>1, <1>2 DEF Replays, Final
  <1>4. \A p \in Page : Stage(l, Len(l), rep, p, pages[p])
    BY <1>1 DEF Stage
  <1>5. QED
    BY <1>1, <1>3, <1>4

(* The log of a database that was just opened tells the pages.             *)
LEMMA AccountedInit == Init => Accounted
  <1> SUFFICES ASSUME Init PROVE Accounted
    OBVIOUS
  <1>1. /\ log = <<CheckpointRecord({})>> /\ durable = 1 /\ os = cache /\ disk = cache
        /\ phase = "up" /\ crashes = 0
        /\ \A p \in Page : \/ cache[p].lsn = 1
                           \/ cache[p].lsn = 0 /\ cache[p].slots = <<>>
    BY DEF Init
  <1>2. WalInv
    BY WalInit
  <1>3. Len(log) = 1 /\ log[1].kind = "checkpoint"
    BY <1>1 DEF CheckpointRecord, Record
  <1>4. \A i \in 1..Len(log) : i = 1
    BY <1>3
  <1>5. Touched(log[1]) = {}
    BY <1>3 DEF Touched, Writes
  <1>6. \A p \in Page : cache[p].lsn <= Len(log) /\ Final(log, p, cache[p])
    BY <1>2, <1>4, <1>5, InvParts DEF Final, Done
  <1>7. PICK rep : /\ Replays(log, Len(log), rep) /\ rep[Len(log)] = cache
                   /\ \A p \in Page : Stage(log, Len(log), rep, p, cache[p])
    BY <1>2, <1>6, InvParts, ReplaysFrom
  <1>8. Accounts(log, durable, phase, cache, os, disk)
    <2>1. Len(log) \in 0..durable /\ \A i \in 1..Len(log) : i <= Len(log)
      BY <1>1, <1>3
    <2>2. QED
      BY <1>1, <1>7, <2>1 DEF Accounts, Accounting
  <1>9. Told(log, crashes)
    BY <1>3, <1>4 DEF Told, NoAbort
  <1>10. StampedPages(cache)
    BY <1>1 DEF StampedPages
  <1>11. QED
    BY <1>1, <1>8, <1>9, <1>10 DEF Accounted

(* A statement makes the next version of the pages.                        *)
LEMMA WroteAccounted ==
  ASSUME WalInv, Accounted, Wrote
  PROVE  Accounted'
  <1> DEFINE lsn == Len(log')
             r   == log'[lsn]
  <1>1. /\ Extends(log', log) /\ lsn \in Nat /\ Len(log) < lsn
        /\ \A i \in (Len(log) + 1)..(lsn - 1) : log'[i].kind = "begin"
        /\ r.kind \in Writes
        /\ \A u \in Tx : tx'[u].state = tx[u].state
        /\ cache' \in Pages
        /\ \A p \in Page : cache'[p] = PageAfter(cache[p], r, lsn, p)
        /\ \A p \in Page : Enters(r, p) => FreeSlot(cache[p].slots) = r.rid[2]
        /\ Live # {}
        /\ phase = "up" /\ UNCHANGED <<flushed, durable, os, disk, nextId, phase, crashes>>
    BY DEF Wrote
  <1>2. Live' = Live
    BY <1>1 DEF Live
  <1>3. /\ Len(log) \in Nat /\ \A i \in 1..Len(log) : log'[i] = log[i]
        /\ cache \in Pages
    BY <1>1, InvParts DEF Extends
  <1>4. Told(log', crashes') => Told(log, crashes)
    <2>1. \A i \in 1..Len(log) : i \in 1..lsn
      BY <1>1, <1>3
    <2>2. QED
      BY <1>1, <1>3, <2>1 DEF Told, NoAbort
  <1>5. Told(log, crashes) => Told(log', crashes')
    <2> SUFFICES ASSUME NoAbort(log), NEW i \in 1..lsn PROVE log'[i].kind # "abort"
      BY <1>1 DEF Told, NoAbort
    <2>1. i \in 1..Len(log) \/ i \in (Len(log) + 1)..(lsn - 1) \/ i = lsn
      BY <1>1, <1>3
    <2>2. QED
      BY <1>1, <1>3, <2>1 DEF NoAbort, Writes
  <1>6. ASSUME Told(log, crashes) PROVE StampedPages(cache) /\ StampedPages(cache')
    <2>1. StampedPages(cache)
      BY <1>1, <1>6 DEF Accounted
    <2>2. ASSUME NEW p \in Page, cache'[p].lsn = 0 PROVE cache'[p].slots = <<>>
      <3>1. p \notin Touched(r)
        BY <1>1, <1>3, <2>2, PageAfterLsn
      <3>2. cache'[p] = cache[p]
        BY <1>1, <3>1, PageAfterLsn
      <3>3. QED
        BY <2>1, <2>2, <3>2 DEF StampedPages
    <2>3. QED
      BY <2>1, <2>2 DEF StampedPages
  <1>7. ASSUME Told(log, crashes) PROVE Accounts(log', durable', phase', cache', os', disk')
    <2>1. Accounts(log, durable, phase, cache, os, disk)
      BY <1>1, <1>7 DEF Accounted
    <2>c. PICK c \in 0..durable : \E rep : Accounting(log, c, rep, phase, cache, os, disk)
      BY <2>1 DEF Accounts
    <2>2. PICK rep : Accounting(log, c, rep, phase, cache, os, disk)
      BY <2>c
    <2>3. /\ Replays(log, c, rep)
          /\ \A i \in 1..Len(log) : log[i].kind = "checkpoint" => i <= c
          /\ cache = rep[Len(log)]
          /\ \A p \in Page : Stage(log, c, rep, p, os[p]) /\ Stage(log, c, rep, p, disk[p])
      BY <1>1, <2>2 DEF Accounting
    <2>4. c \in Nat
      BY InvParts
    <2>5. \A p \in Page : /\ cache'[p] = PageAfter(rep[Len(log)][p], r, lsn, p)
                          /\ Enterable(rep[Len(log)][p], r, p)
      BY <1>1, <1>6, <1>7, <2>3 DEF Enterable, StampedPages
    <2>6. r.kind # "checkpoint"
          /\ \A i \in (Len(log) + 1)..(lsn - 1) : log'[i].kind \notin Writes \cup {"checkpoint"}
      BY <1>1 DEF Writes
    <2>7. PICK rep2 : Prolongs(log', log, c, rep, rep2, cache')
      <3> DEFINE new == cache'
                 m == log'
      <3>1. /\ new \in Pages /\ m[Len(m)] = r /\ Len(m) = lsn
            /\ \A i \in 1..Len(log) : m[i] = log[i]
        BY <1>1, <1>3
      <3>2. \A p \in Page : /\ new[p] = PageAfter(rep[Len(log)][p], m[Len(m)], Len(m), p)
                            /\ Enterable(rep[Len(log)][p], m[Len(m)], p)
        BY <2>5
      <3>3. /\ Len(m) \in Nat /\ Len(log) < Len(m) /\ m[Len(m)].kind # "checkpoint"
            /\ \A i \in (Len(log) + 1)..(Len(m) - 1) : m[i].kind \notin Writes \cup {"checkpoint"}
        BY <1>1, <2>6
      <3> HIDE DEF new, m, r, lsn
      <3>4. \E rep2 : Prolongs(m, log, c, rep, rep2, new)
        BY <1>3, <2>3, <3>1, <3>2, <3>3, ReplaysGrow
      <3>5. QED
        BY <3>4 DEF new, m
    <2>8. \A p \in Page : Stage(log', c, rep2, p, os[p]) /\ Stage(log', c, rep2, p, disk[p])
      BY <1>1, <1>3, <2>3, <2>4, <2>7, StageLater
    <2>9. \A i \in 1..Len(log') : log'[i].kind = "checkpoint" => i <= c
      <3> SUFFICES ASSUME NEW i \in 1..lsn, log'[i].kind = "checkpoint" PROVE i <= c
        OBVIOUS
      <3>1. i \in 1..Len(log) \/ i \in (Len(log) + 1)..(lsn - 1) \/ i = lsn
        BY <1>1, <1>3
      <3>2. i \in 1..Len(log)
        BY <2>6, <3>1
      <3>3. QED
        BY <1>3, <2>3, <3>2
    <2>10. QED
      BY <1>1, <2>7, <2>8, <2>9 DEF Accounts, Accounting, Prolongs
  <1>8. QED
    BY <1>1, <1>2, <1>4, <1>5, <1>6, <1>7 DEF Accounted

\* Clients that do not roll back before a crash, and after one begin a
\* transaction only when every page with rows has a stamp.
Careful == Rollbacks # "before crashes" /\ AfterRestart \in {"nothing", "stamped"}

(* BEGIN.                                                                  *)
LEMMA BeginAccounted ==
  ASSUME WalInv, Accounted, Careful, NEW t \in Tx, Begin(t)
  PROVE  Accounted'
  <1>1. /\ phase = "up" /\ MayBegin
        /\ UNCHANGED <<log, flushed, durable, cache, os, disk, phase, crashes>>
    BY DEF Begin, Up, walVars
  <1>2. Told(log, crashes) => StampedPages(cache)
    <2>1. CASE crashes = 0
      BY <1>1, <2>1 DEF Accounted
    <2>2. CASE crashes # 0
      <3>1. PagesStamped
        BY <1>1, <2>2 DEF MayBegin, Careful
      <3>2. QED
        BY <3>1 DEF PagesStamped, StampedPages, Used
    <2>3. QED
      BY <2>1, <2>2
  <1>3. QED
    BY <1>1, <1>2 DEF Accounted

(* What the versions of the log are after records of no change.            *)
LEMMA AccountsQuiet ==
  ASSUME WalInv, Extends(log', log), Len(log') \in Nat,
         \A i \in (Len(log) + 1)..Len(log') : log'[i].kind \notin Writes \cup {"checkpoint"},
         NEW c \in Nat, NEW rep, Replays(log, c, rep),
         \A i \in 1..Len(log) : log[i].kind = "checkpoint" => i <= c
  PROVE  /\ \A i \in 1..Len(log') : log'[i].kind = "checkpoint" => i <= c
         /\ \E rep2 : Prolongs(log', log, c, rep, rep2, rep[Len(log)])
         /\ \A p, page : Final(log, p, page) => Final(log', p, page)
  <1> DEFINE m == log'
  <1>1. /\ Len(log) \in Nat /\ Len(m) \in Nat /\ Len(log) <= Len(m)
        /\ \A i \in 1..Len(log) : m[i] = log[i]
        /\ \A i \in (Len(log) + 1)..Len(m) : m[i].kind \notin Writes \cup {"checkpoint"}
    BY InvParts DEF Extends
  <1>2. ASSUME NEW i \in 1..Len(m), m[i].kind = "checkpoint" PROVE i <= c
    <2>1. i \in 1..Len(log) \/ i \in (Len(log) + 1)..Len(m)
      BY <1>1
    <2>2. i \in 1..Len(log)
      BY <1>1, <1>2, <2>1
    <2>3. QED
      BY <1>1, <1>2, <2>2
  <1> HIDE DEF m
  <1>3. \E rep2 : Prolongs(m, log, c, rep, rep2, rep[Len(log)])
    BY <1>1, ReplaysQuiet
  <1>4. \A p, page : Final(log, p, page) => Final(m, p, page)
    <2>1. \A i \in (Len(log) + 1)..Len(m) : m[i].kind \notin Writes
      BY <1>1
    <2>2. QED
      BY <1>1, <2>1, FinalLater
  <1>5. QED
    BY <1>2, <1>3, <1>4 DEF m

(* COMMIT, and the ROLLBACK of a transaction that wrote nothing: the log   *)
(* has one record more at most, and fewer transactions run.                *)
LEMMA EndAccounted ==
  ASSUME WalInv, Accounted, Extends(log', log), Len(log') \in Nat,
         \A i \in (Len(log) + 1)..Len(log') : log'[i].kind = "commit",
         phase = "up", UNCHANGED <<cache, os, disk, phase, crashes>>, durable' \in Nat,
         durable <= durable', Live' \subseteq Live
  PROVE  Accounted'
  <1>1. /\ Len(log) \in Nat /\ Len(log) <= Len(log') /\ \A i \in 1..Len(log) : log'[i] = log[i]
        /\ durable \in Nat
    BY InvParts DEF Extends
  <1>2. Told(log', crashes') <=> Told(log, crashes)
    <2>1. \A i \in 1..Len(log) : i \in 1..Len(log')
      BY <1>1
    <2>2. \A i \in 1..Len(log') : i \in 1..Len(log) \/ i \in (Len(log) + 1)..Len(log')
      BY <1>1
    <2>3. QED
      BY <1>1, <2>1, <2>2 DEF Told, NoAbort
  <1>3. ASSUME Told(log, crashes) PROVE Accounts(log', durable', phase', cache', os', disk')
    <2>c. PICK c \in 0..durable : \E rep : Accounting(log, c, rep, phase, cache, os, disk)
      BY <1>3 DEF Accounted, Accounts
    <2>r. PICK rep : Accounting(log, c, rep, phase, cache, os, disk)
      BY <2>c
    <2>1. /\ c \in 0..durable
          /\ Replays(log, c, rep)
          /\ \A i \in 1..Len(log) : log[i].kind = "checkpoint" => i <= c
          /\ cache = rep[Len(log)]
          /\ \A p \in Page : Stage(log, c, rep, p, os[p]) /\ Stage(log, c, rep, p, disk[p])
      BY <1>3, <2>r DEF Accounting
    <2>2. c \in Nat /\ c \in 0..durable'
      BY <1>1
    <2>3. \A i \in (Len(log) + 1)..Len(log') : log'[i].kind \notin Writes \cup {"checkpoint"}
      BY DEF Writes
    <2>4. /\ \A i \in 1..Len(log') : log'[i].kind = "checkpoint" => i <= c
          /\ \E rep2 : Prolongs(log', log, c, rep, rep2, rep[Len(log)])
      BY <2>1, <2>2, <2>3, AccountsQuiet
    <2>5. PICK rep2 : Prolongs(log', log, c, rep, rep2, rep[Len(log)])
      BY <2>4
    <2>6. \A p \in Page : Stage(log', c, rep2, p, os[p]) /\ Stage(log', c, rep2, p, disk[p])
      BY <1>1, <2>1, <2>2, <2>5, StageLater
    <2>7. Replays(log', c, rep2) /\ rep2[Len(log')] = rep[Len(log)]
      BY <2>5 DEF Prolongs
    <2>8. QED
      BY <2>1, <2>2, <2>4, <2>6, <2>7 DEF Accounts, Accounting
  <1>4. QED
    BY <1>2, <1>3 DEF Accounted

(* COMMIT.                                                                 *)
LEMMA CommitAccounted ==
  ASSUME WalInv, Accounted, NEW t \in Tx, Commit(t)
  PROVE  Accounted'
  <1>1. /\ t \in Live /\ phase = "up" /\ LogEnd(t, "commit") /\ tx' = [tx EXCEPT ![t] = Gone]
        /\ UNCHANGED <<cache, os, disk, phase, crashes>>
    BY DEF Commit, Ends, Up
  <1>2. /\ Extends(log', log) /\ Len(log') \in Nat
        /\ \A i \in (Len(log) + 1)..Len(log') : log'[i].kind = "commit"
    BY <1>1, LogEndRight
  <1>3. durable' \in Nat /\ durable <= durable'
    <2>1. durable' = durable \/ durable' = Len(log')
      BY DEF Commit, Sync
    <2>2. QED
      BY <1>2, <2>1, InvParts DEF Extends
  <1>4. TxTyped' /\ \A u \in Tx : tx'[u] = IF u = t THEN Gone ELSE tx[u]
    <2>1. TxFits(log', Gone)
      BY GoneFits
    <2>2. Extends(log', log) /\ tx' = [tx EXCEPT ![t] = Gone]
      BY <1>1, <1>2
    <2>3. QED
      BY <2>1, <2>2, TxReplaced
  <1>5. Live' \subseteq Live
    BY <1>4, GoneFits DEF Live
  <1>6. QED
    BY <1>1, <1>2, <1>3, <1>5, EndAccounted

(* ROLLBACK.                                                               *)
LEMMA RollbackAccounted ==
  ASSUME WalInv, Accounted, Careful, NEW t \in Tx, Rollback(t)
  PROVE  Accounted'
  <1>1. /\ t \in Live /\ phase = "up" /\ MayRollBack
        /\ UNCHANGED <<durable, os, disk, nextId, crashes, made>>
        /\ tx[t].last = None => cache' = cache /\ phase' = phase
        /\ \/ LogEnd(t, "abort") /\ phase' = phase /\ tx' = [tx EXCEPT ![t] = Gone]
           \/ phase' = "hung" /\ UNCHANGED <<log, flushed, tx>>
    BY RollbackDoes
  <1>2. Rollbacks = "instead of crashes" /\ crashes = 0
    BY <1>1, ChoicesAssumption DEF Careful, MayRollBack
  <1>3. CASE phase' = "hung" /\ UNCHANGED <<log, flushed, tx>>
    BY <1>1, <1>2, <1>3 DEF Accounted
  <1>4. CASE LogEnd(t, "abort") /\ phase' = phase /\ tx' = [tx EXCEPT ![t] = Gone]
    <2>1. /\ Extends(log', log) /\ Len(log') \in Nat
          /\ \A i \in (Len(log) + 1)..Len(log') : log'[i].kind = "abort"
          /\ tx[t].last = None => log' = log
          /\ tx[t].last # None => Len(log') = Len(log) + 1
      BY <1>1, <1>4, LogEndRight
    <2>2. TxTyped' /\ \A u \in Tx : tx'[u] = IF u = t THEN Gone ELSE tx[u]
      <3>1. TxFits(log', Gone)
        BY GoneFits
      <3>2. Extends(log', log) /\ tx' = [tx EXCEPT ![t] = Gone]
        BY <1>4, <2>1
      <3>3. QED
        BY <3>1, <3>2, TxReplaced
    <2>3. Live' \subseteq Live
      BY <2>2, GoneFits DEF Live
    <2>4. CASE tx[t].last = None
      <3>1. log' = log /\ UNCHANGED <<cache, os, disk, phase, crashes>>
        BY <1>1, <2>1, <2>4
      <3>2. \A i \in (Len(log) + 1)..Len(log) : FALSE
        BY InvParts
      <3>3. durable' \in Nat /\ durable <= durable'
        BY <1>1, InvParts
      <3>4. QED
        BY <1>1, <2>1, <2>3, <3>1, <3>2, <3>3, EndAccounted
    <2>5. CASE tx[t].last # None
      <3>1. Len(log') \in (Len(log) + 1)..Len(log') /\ Len(log') \in 1..Len(log')
        BY <2>1, <2>5, InvParts
      <3>2. ~ NoAbort(log')
        BY <2>1, <3>1 DEF NoAbort
      <3>3. ~ Told(log', crashes')
        <4>1. crashes' = 0
          BY <1>1, <1>2
        <4>2. ~ (crashes' > 0)
          BY <4>1
        <4>3. QED
          BY <3>2, <4>2 DEF Told
      <3>4. phase' = "up"
        BY <1>1, <1>4
      <3>5. QED
        BY <1>2, <3>3, <3>4 DEF Accounted
    <2>6. QED
      BY <2>4, <2>5
  <1>5. QED
    BY <1>1, <1>3, <1>4

(* A page is written back: the version of it that the pool shows. *)
LEMMA FlushAccounted ==
  ASSUME WalInv, Accounted, NEW q \in Page, FlushPage(q)
  PROVE  Accounted'
  <1>1. /\ phase \in {"up", "recovered"}
        /\ UNCHANGED <<log, cache, disk, tx, phase, crashes>>
        /\ SyncUpTo(cache[q].lsn)
        /\ os' = [os EXCEPT ![q] = cache[q]]
    BY DEF FlushPage
  <1>2. durable \in Nat /\ Len(log) \in Nat /\ durable <= Len(log)
    BY InvParts
  <1>3. durable' \in Nat /\ durable <= durable'
    <2>1. durable' = durable \/ durable' = Len(log)
      BY <1>1 DEF SyncUpTo, Sync
    <2>2. QED
      BY <1>2, <2>1
  <1>4. \A p \in Page : os'[p] = cache[p] \/ os'[p] = os[p]
    <2>1. os \in [Page -> OnePage]
      BY InvParts DEF Pages
    <2>2. QED
      BY <1>1, <2>1
  <1>5. Live' = Live
    BY <1>1 DEF Live
  <1>6. ASSUME Told(log, crashes) PROVE Accounts(log, durable', phase, cache, os', disk)
    <2>1. Accounts(log, durable, phase, cache, os, disk)
      BY <1>1, <1>6 DEF Accounted
    <2>c. PICK c \in 0..durable : \E rep : Accounting(log, c, rep, phase, cache, os, disk)
      BY <2>1 DEF Accounts
    <2>r. PICK rep : Accounting(log, c, rep, phase, cache, os, disk)
      BY <2>c
    <2>2. /\ c \in 0..durable
          /\ Replays(log, c, rep)
          /\ \A i \in 1..Len(log) : log[i].kind = "checkpoint" => i <= c
          /\ phase = "up" =>
                /\ cache = rep[Len(log)]
                /\ \A p \in Page : Stage(log, c, rep, p, os[p]) /\ Stage(log, c, rep, p, disk[p])
          /\ phase = "recovered" => \A p \in Page : Final(log, p, cache[p])
          /\ phase \in {"down", "recovered"} =>
                \A p \in Page : Kept(log, c, rep, p, os[p]) /\ Kept(log, c, rep, p, disk[p])
      BY <2>1, <2>r DEF Accounting
    <2>3. c \in 0..durable'
      BY <1>2, <1>3
    <2>4. CASE phase = "up"
      <3>1. Len(log) \in c..Len(log)
        BY <1>2
      <3>2. \A p \in Page : Stage(log, c, rep, p, cache[p])
        BY <2>2, <2>4, <3>1 DEF Stage
      <3>3. \A p \in Page : Stage(log, c, rep, p, os'[p])
        BY <1>4, <2>2, <2>4, <3>2
      <3>4. QED
        BY <2>2, <2>3, <2>4, <3>3 DEF Accounts, Accounting
    <2>5. CASE phase = "recovered"
      <3>1. \A p \in Page : Kept(log, c, rep, p, cache[p])
        BY <2>2, <2>5 DEF Kept
      <3>2. \A p \in Page : Kept(log, c, rep, p, os'[p])
        BY <1>4, <2>2, <2>5, <3>1
      <3>3. QED
        BY <2>2, <2>3, <2>5, <3>2 DEF Accounts, Accounting
    <2>6. QED
      BY <1>1, <2>4, <2>5
  <1>7. QED
    BY <1>1, <1>5, <1>6 DEF Accounted

(* After a CHECKPOINT, versions count from it. *)
LEMMA CheckpointAccounted ==
  ASSUME WalInv, Accounted, Checkpoint
  PROVE  Accounted'
  <1> DEFINE n == Len(log')
  <1>1. /\ phase = "up" /\ os' = cache /\ disk' = cache /\ durable' = n
        /\ UNCHANGED <<cache, tx, phase, crashes>>
        /\ Extends(log', log) /\ n = Len(log) + 1
        /\ log'[Len(log) + 1].kind = "checkpoint"
    BY CheckpointDoes
  <1>2. /\ Len(log) \in Nat /\ n \in Nat /\ \A i \in 1..Len(log) : log'[i] = log[i]
        /\ cache \in Pages
    BY <1>1, InvParts DEF Extends
  <1>3. \A i \in 1..n : i \in 1..Len(log) \/ i = Len(log) + 1
    BY <1>1, <1>2
  <1>4. Told(log', crashes') => Told(log, crashes)
    <2>1. \A i \in 1..Len(log) : i \in 1..n
      BY <1>1, <1>2
    <2>2. QED
      BY <1>1, <1>2, <2>1 DEF Told, NoAbort
  <1>5. Told(log, crashes) => Told(log', crashes')
    BY <1>1, <1>2, <1>3 DEF Told, NoAbort
  <1>6. Live' = Live
    BY <1>1 DEF Live
  <1>7. ASSUME Told(log, crashes) PROVE Accounts(log', durable', phase', cache', os', disk')
    <2>c. PICK c \in 0..durable : \E rep : Accounting(log, c, rep, phase, cache, os, disk)
      BY <1>1, <1>7 DEF Accounted, Accounts
    <2>r. PICK rep : Accounting(log, c, rep, phase, cache, os, disk)
      BY <2>c
    <2>1. c \in 0..durable /\ Replays(log, c, rep) /\ cache = rep[Len(log)]
      BY <1>1, <1>7, <2>r DEF Accounting
    <2>2. \A p \in Page : Final(log, p, cache[p]) /\ cache[p].lsn <= n
      <3>1. Len(log) \in c..Len(log)
        BY <1>2, <2>1 DEF Replays
      <3>2. \A p \in Page : Done(log, Len(log), p, cache[p].lsn)
        BY <1>2, <2>1, <3>1, VersionsRight
      <3>3. \A p \in Page : cache[p].lsn <= n
        BY <1>1, <1>2, InvParts
      <3>4. QED
        BY <3>2, <3>3 DEF Final
    <2>3. \A i \in (Len(log) + 1)..n : log'[i].kind \notin Writes
      <3>1. \A i \in (Len(log) + 1)..n : i = Len(log) + 1
        BY <1>1, <1>2
      <3>2. QED
        BY <1>1, <3>1 DEF Writes
    <2>4. \A p \in Page : Final(log', p, cache[p])
      <3> DEFINE m == log'
      <3>1. Len(m) \in Nat /\ Len(log) <= Len(m)
        BY <1>1, <1>2
      <3>2. QED
        BY <1>2, <2>2, <2>3, <3>1, FinalLater
    <2>5. PICK rep2 : /\ Replays(log', n, rep2) /\ rep2[n] = cache
                      /\ \A p \in Page : Stage(log', n, rep2, p, cache[p])
      BY <1>2, <2>2, <2>4, ReplaysFrom
    <2>6. n \in 0..durable' /\ \A i \in 1..n : i <= n
      BY <1>1, <1>2
    <2>7. QED
      BY <1>1, <2>5, <2>6 DEF Accounts, Accounting
  <1>8. QED
    BY <1>1, <1>4, <1>5, <1>6, <1>7 DEF Accounted

\* The versions that a part of the log has.
Shortens(m, l, c, rep, rep2) == Replays(m, c, rep2) /\ \A i \in c..Len(m) : rep2[i] = rep[i]

(* A crash that loses the end of the log leaves the earlier versions.      *)
LEMMA ReplaysShrink ==
  ASSUME NEW l, Len(l) \in Nat, NEW m, Len(m) \in Nat, Len(m) <= Len(l),
         \A i \in 1..Len(m) : m[i] = l[i],
         NEW c, NEW rep, Replays(l, c, rep), c <= Len(m)
  PROVE  \E rep2 : Shortens(m, l, c, rep, rep2)
  <1> DEFINE rep2 == [i \in c..Len(m) |-> rep[i]]
  <1>1. c \in Nat /\ c \in 0..Len(m) /\ rep \in [c..Len(l) -> Pages] /\ c \in c..Len(m)
    BY DEF Replays
  <1>2. rep2 \in [c..Len(m) -> Pages] /\ \A i \in c..Len(m) : rep2[i] = rep[i]
    BY <1>1
  <1> HIDE DEF rep2
  <1>3. ASSUME NEW i \in (c + 1)..Len(m)
        PROVE  /\ m[i].kind # "checkpoint"
               /\ \A p \in Page : /\ rep2[i][p] = PageAfter(rep2[i - 1][p], m[i], i, p)
                                  /\ Enterable(rep2[i - 1][p], m[i], p)
    <2>1. i \in (c + 1)..Len(l) /\ i \in 1..Len(m) /\ i \in c..Len(m) /\ i - 1 \in c..Len(m)
      BY <1>1
    <2>2. rep2[i] = rep[i] /\ rep2[i - 1] = rep[i - 1] /\ m[i] = l[i]
      BY <1>2, <2>1
    <2>3. QED
      BY <2>1, <2>2 DEF Replays
  <1>4. \A p \in Page : rep2[c][p].lsn <= c /\ Done(m, c, p, rep2[c][p].lsn)
    <2>1. rep2[c] = rep[c]
      BY <1>1, <1>2
    <2>2. \A j \in 1..c : m[j] = l[j]
      BY <1>1
    <2>3. QED
      BY <2>1, <2>2 DEF Replays, Done
  <1>5. Replays(m, c, rep2)
    BY <1>1, <1>2, <1>3, <1>4 DEF Replays
  <1>6. QED
    BY <1>2, <1>5 DEF Shortens

(* And the pages that were not ahead of it.                                *)
LEMMA KeptByCrash ==
  ASSUME NEW l, Len(l) \in Nat, NEW m, Len(m) \in Nat, Len(m) <= Len(l),
         \A i \in 1..Len(m) : m[i] = l[i],
         NEW c, NEW rep, Replays(l, c, rep), c <= Len(m),
         NEW rep2, Shortens(m, l, c, rep, rep2),
         NEW p \in Page, NEW page, page.lsn <= Len(m), Kept(l, c, rep, p, page)
  PROVE  Kept(m, c, rep2, p, page)
  <1>1. CASE Stage(l, c, rep, p, page)
    <2>1. PICK k \in c..Len(l) : page = rep[k][p]
      BY <1>1 DEF Stage
    <2>2. c \in Nat /\ k \in Nat /\ Len(m) \in c..Len(m)
      BY DEF Replays
    <2>3. CASE k <= Len(m)
      <3>1. k \in c..Len(m)
        BY <2>2, <2>3
      <3>2. page = rep2[k][p]
        BY <2>1, <3>1 DEF Shortens
      <3>3. QED
        BY <3>1, <3>2 DEF Stage, Kept
    <2>4. CASE k > Len(m)
      <3>1. Len(m) \in c..k
        BY <2>2, <2>4
      <3>2. rep[Len(m)][p] = rep[k][p]
        BY <2>1, <3>1, VersionsRight
      <3>3. page = rep2[Len(m)][p]
        BY <2>1, <2>2, <3>2 DEF Shortens
      <3>4. QED
        BY <2>2, <3>3 DEF Stage, Kept
    <2>5. QED
      BY <2>2, <2>3, <2>4
  <1>2. CASE Final(l, p, page)
    <2>1. \A j \in 1..Len(m) : j \in 1..Len(l)
      OBVIOUS
    <2>2. Final(m, p, page)
      BY <1>2, <2>1 DEF Final, Done
    <2>3. QED
      BY <2>2 DEF Kept
  <1>3. QED
    BY <1>1, <1>2 DEF Kept

(* A crash.                                                                *)
LEMMA CrashAccounted ==
  ASSUME WalInv, Accounted, Careful, Crash
  PROVE  Accounted'
  <1>1. /\ phase \in {"up", "recovered"} /\ phase' = "down" /\ crashes' = crashes + 1
        /\ Rollbacks = "instead of crashes" =>
              crashes > 0 \/ \A i \in 1..Len(log) : log[i].kind # "abort"
        /\ Len(log') \in durable..flushed
        /\ \A i \in 1..Len(log') : log'[i] = log[i]
        /\ durable' = Len(log')
        /\ \A p \in Page : cache'[p] = os[p] \/ cache'[p] = disk[p]
        /\ os' = cache' /\ disk' = cache'
        /\ tx' = [t \in Tx |-> IF t \in Live THEN Gone ELSE tx[t]]
    BY CrashDoes
  <1>2. /\ Len(log) \in Nat /\ Len(log') \in Nat /\ durable \in Nat /\ durable <= Len(log')
        /\ Len(log') <= Len(log) /\ crashes \in Nat
    <2> DEFINE n == Len(log')
    <2>1. n \in durable..flushed
      BY <1>1
    <2> HIDE DEF n
    <2>2. /\ Len(log) \in Nat /\ durable \in Nat /\ flushed \in Nat /\ flushed <= Len(log)
          /\ Numbered
      BY InvParts
    <2>3. n \in Nat /\ durable <= n /\ n <= Len(log)
      BY <2>1, <2>2
    <2>4. crashes \in Nat
      BY <2>2 DEF Numbered
    <2>5. QED
      BY <2>2, <2>3, <2>4 DEF n
  <1>3. Told(log, crashes)
    BY <1>1, ChoicesAssumption DEF Careful, Accounted, Told, NoAbort
  <1>4. crashes' > 0 /\ Told(log', crashes')
    <2>1. crashes' = crashes + 1 /\ crashes \in Nat
      BY <1>1, <1>2
    <2>2. crashes' > 0
      BY <2>1
    <2>3. QED
      BY <2>2 DEF Told
  <1>5. Live' = {}
    <2> SUFFICES ASSUME NEW t \in Tx PROVE tx'[t].state # "live"
      BY DEF Live
    <2>1. tx'[t] = IF t \in Live THEN Gone ELSE tx[t]
      BY <1>1
    <2>2. QED
      BY <2>1, GoneFits DEF Live
  <1>c. PICK c \in 0..durable : \E rep : Accounting(log, c, rep, phase, cache, os, disk)
    BY <1>1, <1>3 DEF Accounted, Accounts
  <1>r. PICK rep : Accounting(log, c, rep, phase, cache, os, disk)
    BY <1>c
  <1>6. /\ c \in 0..durable
        /\ Replays(log, c, rep)
        /\ \A i \in 1..Len(log) : log[i].kind = "checkpoint" => i <= c
        /\ \A p \in Page : Kept(log, c, rep, p, os[p]) /\ Kept(log, c, rep, p, disk[p])
    BY <1>1, <1>3, <1>r DEF Accounting, Kept
  <1>7. c <= Len(log') /\ c \in 0..durable'
    <2> DEFINE n == Len(log')
    <2>1. n \in Nat /\ durable \in Nat /\ durable <= n
      BY <1>2
    <2> HIDE DEF n
    <2>2. c <= n /\ c \in 0..n
      BY <2>1
    <2>3. QED
      BY <1>1, <2>2 DEF n
  <1> DEFINE m == log'
             new == cache'
  <1>8. PICK rep2 : Shortens(m, log, c, rep, rep2)
    <2>1. /\ Len(m) \in Nat /\ Len(m) <= Len(log) /\ \A i \in 1..Len(m) : m[i] = log[i]
          /\ c <= Len(m)
      BY <1>1, <1>2, <1>7
    <2> HIDE DEF m
    <2>2. QED
      BY <1>2, <1>6, <2>1, ReplaysShrink
  <1>9. \A p \in Page : Kept(m, c, rep2, p, new[p])
    <2>1. /\ Len(m) \in Nat /\ Len(m) <= Len(log) /\ \A i \in 1..Len(m) : m[i] = log[i]
          /\ c <= Len(m)
      BY <1>1, <1>2, <1>7
    <2>2. \A p \in Page : os[p].lsn <= Len(m) /\ disk[p].lsn <= Len(m)
      BY <1>2, InvParts
    <2>3. \A p \in Page : new[p] = os[p] \/ new[p] = disk[p]
      BY <1>1
    <2> HIDE DEF m, new
    <2>4. \A p \in Page : Kept(m, c, rep2, p, os[p]) /\ Kept(m, c, rep2, p, disk[p])
      BY <1>2, <1>6, <1>8, <2>1, <2>2, KeptByCrash
    <2>5. QED
      BY <2>3, <2>4
  <1>10. Accounts(log', durable', phase', cache', os', disk')
    <2>1. Replays(log', c, rep2)
      BY <1>8 DEF Shortens
    <2>2. \A i \in 1..Len(log') : log'[i].kind = "checkpoint" => i <= c
      <3>1. \A i \in 1..Len(log') : i \in 1..Len(log)
        BY <1>2
      <3>2. QED
        BY <1>1, <1>6, <3>1
    <2>3. QED
      BY <1>1, <1>7, <1>9, <2>1, <2>2 DEF Accounts, Accounting
  <1>11. QED
    BY <1>1, <1>4, <1>5, <1>10 DEF Accounted

(* Recovery redoes every page to its last version.                         *)
LEMMA RecoverAccounted ==
  ASSUME WalInv, Accounted, Recover
  PROVE  Accounted'
  <1>1. /\ phase = "down"
        /\ UNCHANGED <<durable, os, disk, tx, crashes>>
        /\ cache' \in Restored(Redo(cache).pages)
        /\ \/ phase' = "recovered" /\ Extends(log', log) /\ Len(log') \in Nat
              /\ \A i \in (Len(log) + 1)..Len(log') : log'[i].kind = "abort"
           \/ phase' = "hung" /\ log' = log
    BY RecoverDoes
  <1>2. crashes > 0 /\ Live = {} /\ Told(log, crashes)
    BY <1>1 DEF Accounted, Told
  <1>3. crashes' > 0 /\ Live' = {} /\ Told(log', crashes')
    BY <1>1, <1>2 DEF Live, Told
  <1>4. CASE phase' = "hung"
    BY <1>3, <1>4 DEF Accounted
  <1>5. CASE /\ phase' = "recovered" /\ Extends(log', log) /\ Len(log') \in Nat
             /\ \A i \in (Len(log) + 1)..Len(log') : log'[i].kind = "abort"
    <2>c. PICK c \in 0..durable : \E rep : Accounting(log, c, rep, phase, cache, os, disk)
      BY <1>1, <1>2 DEF Accounted, Accounts, Accounting
    <2>r. PICK rep : Accounting(log, c, rep, phase, cache, os, disk)
      BY <2>c
    <2>1. /\ c \in 0..durable
          /\ Replays(log, c, rep)
          /\ \A i \in 1..Len(log) : log[i].kind = "checkpoint" => i <= c
          /\ \A p \in Page : Kept(log, c, rep, p, os[p]) /\ Kept(log, c, rep, p, disk[p])
          /\ cache = os
      BY <1>1, <1>2, <2>r DEF Accounting
    <2>2. c \in Nat /\ c \in 0..durable
      BY InvParts
    <2>3. LastCheckpoint <= c
      BY <2>1, <2>2, InvParts, LastCheckpointRight
    <2>4. \A p \in Page : Final(log, p, Redo(cache).pages[p])
      BY <2>1, <2>3, InvParts, RedoIsRight
    <2>5. \A p \in Page : Final(log, p, cache'[p])
      <3>1. \A p \in Page : cache'[p].lsn = Redo(cache).pages[p].lsn
        BY <1>1 DEF Restored
      <3>2. QED
        BY <2>4, <3>1 DEF Final
    <2>6. \A i \in (Len(log) + 1)..Len(log') : log'[i].kind \notin Writes \cup {"checkpoint"}
      BY <1>5 DEF Writes
    <2>7. /\ \A i \in 1..Len(log') : log'[i].kind = "checkpoint" => i <= c
          /\ \E rep2 : Prolongs(log', log, c, rep, rep2, rep[Len(log)])
          /\ \A p, page : Final(log, p, page) => Final(log', p, page)
      BY <1>5, <2>1, <2>2, <2>6, AccountsQuiet
    <2>8. PICK rep2 : Prolongs(log', log, c, rep, rep2, rep[Len(log)])
      BY <2>7
    <2>9. \A p \in Page : \A page : Kept(log, c, rep, p, page) => Kept(log', c, rep2, p, page)
      <3> DEFINE m == log'
                 last == rep[Len(log)]
      <3>1. Len(m) \in Nat /\ Len(log) \in Nat /\ Len(log) <= Len(m) /\ Prolongs(m, log, c, rep, rep2, last)
        BY <1>5, <2>8, InvParts DEF Extends
      <3>2. \A p, page : Final(log, p, page) => Final(m, p, page)
        BY <2>7
      <3> HIDE DEF m, last
      <3>3. \A p, page : Stage(log, c, rep, p, page) => Stage(m, c, rep2, p, page)
        BY <2>2, <3>1, StageLater
      <3>4. \A p \in Page : \A page : Kept(log, c, rep, p, page) => Kept(m, c, rep2, p, page)
        BY <3>2, <3>3 DEF Kept
      <3>5. QED
        BY <3>4 DEF m
    <2>10. Accounts(log', durable', phase', cache', os', disk')
      <3>1. \A p \in Page : Kept(log', c, rep2, p, os'[p]) /\ Kept(log', c, rep2, p, disk'[p])
        BY <1>1, <2>1, <2>9
      <3>2. \A p \in Page : Final(log', p, cache'[p])
        BY <2>5, <2>7
      <3>3. Replays(log', c, rep2)
        BY <2>8 DEF Prolongs
      <3>4. c \in 0..durable'
        BY <1>1, <2>2
      <3>5. QED
        BY <1>5, <2>7, <3>1, <3>2, <3>3, <3>4 DEF Accounts, Accounting
    <2>11. QED
      BY <1>3, <1>5, <2>10 DEF Accounted
  <1>6. QED
    BY <1>1, <1>4, <1>5

(* The end of recovery leaves the disk with every record of the log.       *)
LEMMA RestartAccounted ==
  ASSUME WalInv, Accounted, Restart
  PROVE  Accounted'
  <1>1. /\ phase = "recovered" /\ os = cache /\ disk' = cache /\ os' = cache
        /\ durable' = Len(log) /\ phase' = "up" /\ UNCHANGED <<log, cache, tx, crashes>>
    BY DEF Restart, Sync
  <1>2. crashes > 0 /\ Live = {} /\ Told(log, crashes)
    BY <1>1 DEF Accounted, Told
  <1>3. crashes' > 0 /\ Live' = {} /\ Told(log', crashes')
    BY <1>1, <1>2 DEF Live, Told
  <1>4. crashes' # 0
    <2>1. crashes \in Nat /\ crashes' = crashes
      BY <1>1, InvParts DEF Numbered
    <2>2. QED
      BY <1>2, <2>1
  <1>5. \A p \in Page : Final(log, p, cache[p])
    BY <1>1, <1>2 DEF Accounted, Accounts, Accounting
  <1>6. Len(log) \in Nat /\ cache \in Pages /\ \A p \in Page : cache[p].lsn <= Len(log)
    BY InvParts
  <1>7. PICK rep : /\ Replays(log, Len(log), rep) /\ rep[Len(log)] = cache
                   /\ \A p \in Page : Stage(log, Len(log), rep, p, cache[p])
    BY <1>5, <1>6, ReplaysFrom
  <1>8. Len(log) \in 0..durable' /\ \A i \in 1..Len(log) : i <= Len(log)
    BY <1>1, <1>6
  <1>9. Accounts(log', durable', phase', cache', os', disk')
    BY <1>1, <1>7, <1>8 DEF Accounts, Accounting
  <1>10. QED
    BY <1>1, <1>3, <1>4, <1>9 DEF Accounted

(* Every step keeps the account.                                           *)
LEMMA AccountedStays ==
  ASSUME WalInv, Accounted, Careful, [Next]_vars
  PROVE  Accounted'
  <1>1. CASE UNCHANGED vars
    BY <1>1 DEF vars, Accounted, Live
  <1>2. ASSUME NEW t \in Tx, Begin(t) \/ Commit(t) \/ Rollback(t) PROVE Accounted'
    BY <1>2, BeginAccounted, CommitAccounted, RollbackAccounted
  <1>3. ASSUME NEW t \in Tx, NEW p \in Page, Insert(t, p) PROVE Accounted'
    BY <1>3, InsertWrote, WroteAccounted
  <1>4. ASSUME NEW t \in Tx, NEW rid \in Rid, Update(t, rid) PROVE Accounted'
    BY <1>4, UpdateWrote, WroteAccounted
  <1>5. ASSUME NEW t \in Tx, NEW rid \in Rid, Delete(t, rid) PROVE Accounted'
    BY <1>5, DeleteWrote, WroteAccounted
  <1>6. ASSUME NEW t \in Tx, NEW rid \in Rid, NEW p \in Page, UpdateMoves(t, rid, p) PROVE Accounted'
    BY <1>6, MoveWrote, WroteAccounted
  <1>7. ASSUME NEW p \in Page, FlushPage(p) PROVE Accounted'
    BY <1>7, FlushAccounted
  <1>8. ASSUME Checkpoint \/ Crash \/ Recover \/ Restart PROVE Accounted'
    BY <1>8, CheckpointAccounted, CrashAccounted, RecoverAccounted, RestartAccounted
  <1>9. QED
    BY <1>1, <1>2, <1>3, <1>4, <1>5, <1>6, <1>7, <1>8 DEF Next

(* When the database is down, the pages are versions that redo completes.  *)
LEMMA AccountedExact ==
  ASSUME WalInv, Accounted
  PROVE  RedoIsExact
  <1> SUFFICES ASSUME phase = "down" PROVE Redo(cache).exact
    BY DEF RedoIsExact
  <1>1. Told(log, crashes)
    BY DEF Accounted, Told
  <1>c. PICK c \in 0..durable : \E rep : Accounting(log, c, rep, phase, cache, os, disk)
    BY <1>1 DEF Accounted, Accounts
  <1>r. PICK rep : Accounting(log, c, rep, phase, cache, os, disk)
    BY <1>c
  <1>2. /\ c \in 0..durable
        /\ Replays(log, c, rep)
        /\ \A i \in 1..Len(log) : log[i].kind = "checkpoint" => i <= c
        /\ \A p \in Page : Kept(log, c, rep, p, os[p])
        /\ cache = os
    BY <1>1, <1>r DEF Accounting
  <1>3. c \in Nat
    BY InvParts
  <1>4. LastCheckpoint <= c
    BY <1>2, <1>3, InvParts, LastCheckpointRight
  <1>5. QED
    BY <1>2, <1>4, InvParts, RedoIsRight

(* Redo puts every row back into the slot its record names, the condition  *)
(* that redo_insert asserts, whatever mix of page versions a crash left,   *)
(* with any number of crashes, during recovery too, if clients do not roll *)
(* back before a crash and pages with rows have a stamp before one writes  *)
(* again.                                                                  *)
THEOREM RedoRight ==
  ASSUME Careful
  PROVE  Spec => []RedoIsExact
  <1>1. Spec => []Accounted
    BY WalAlways, AccountedInit, AccountedStays, PTL DEF Spec
  <1>2. WalInv /\ Accounted => RedoIsExact
    BY AccountedExact
  <1>3. QED
    BY <1>1, <1>2, WalAlways, PTL
=============================================================================
