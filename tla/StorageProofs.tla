------------------------------ MODULE StorageProofs ------------------------------
(***************************************************************************)
(* Proofs about Storage.  Pages first: the rows of a page never overlap,   *)
(* and to compact it never takes room.  Then the tables: every page has    *)
(* one owner, whatever a statement does and however far it comes.          *)
(***************************************************************************)
EXTENDS Storage, InductionLemmas, SequenceTheorems

------------------------------------------------------------------------------
(* Pages.                                                                  *)

\* A row has a header, and so a length; that tells it from no row.
ARow     == Tuples \cap [key : Nat, len : Nat \ {0}]
LiveSlot == [offset : Int, row : ARow]
ASlot    == LiveSlot \cup {Tombstone}
APage    == [slots : Seq(ASlot), start : Int]

PageOk(page) ==
    /\ page \in APage
    /\ WellFormed(page)
    /\ page.start <= Compact(page).start

(* A slot with a row is no tombstone. *)
LEMMA SlotKinds ==
  /\ \A slot \in LiveSlot : slot # Tombstone /\ slot.row \in ARow /\ slot.row.len > 0 /\ slot.offset \in Int
  /\ \A slot \in ASlot : (slot # Tombstone <=> slot \in LiveSlot) /\ slot.row.len \in Nat
  /\ Tombstone.row.len = 0
  <1>1. Tombstone.row.len = 0
    BY DEF Tombstone
  <1>2. \A slot \in LiveSlot : slot.row \in ARow /\ slot.row.len > 0 /\ slot.row.len \in Nat /\ slot.offset \in Int
    BY DEF LiveSlot, ARow
  <1>3. QED
    BY <1>1, <1>2 DEF ASlot

Packs(f, m, page) ==
    f = [k \in 0..m |-> IF k = 0 THEN EmptyPage ELSE Packed(f[k - 1], page.slots[k])]

(* The recursion of Compact has a solution. *)
LEMMA PacksExist ==
  ASSUME NEW page, NEW n \in Nat
  PROVE  \E f : Packs(f, n, page)
  <1> DEFINE Good == {m \in 0..n : \E f : Packs(f, m, page)}
  <1>1. 0 \in Good
    <2> DEFINE f == [k \in 0..0 |-> EmptyPage]
    <2>1. Packs(f, 0, page)
      BY DEF Packs
    <2>2. QED
      BY <2>1
  <1>2. ASSUME NEW m \in 1..n, m - 1 \in Good PROVE m \in Good
    <2>1. PICK f : Packs(f, m - 1, page)
      BY <1>2
    <2> DEFINE g == [k \in 0..m |-> IF k = m THEN Packed(f[m - 1], page.slots[m]) ELSE f[k]]
    <2>2. \A k \in 0..(m - 1) : g[k] = f[k] /\ f[k] = IF k = 0 THEN EmptyPage ELSE Packed(f[k - 1], page.slots[k])
      BY <2>1 DEF Packs
    <2>3. ASSUME NEW k \in 0..m
          PROVE  g[k] = IF k = 0 THEN EmptyPage ELSE Packed(g[k - 1], page.slots[k])
      <3>1. CASE k = m
        BY <2>2, <3>1
      <3>2. CASE k # m
        <4>1. k \in 0..(m - 1) /\ (k # 0 => k - 1 \in 0..(m - 1))
          BY <3>2
        <4>2. QED
          BY <2>2, <4>1
      <3>3. QED
        BY <3>1, <3>2
    <2>4. Packs(g, m, page)
      BY <2>3 DEF Packs
    <2>5. QED
      BY <2>4
  <1> HIDE DEF Good
  <1>3. n \in Good
    BY <1>1, <1>2, Climbs
  <1>4. QED
    BY <1>3 DEF Good

(* Compact slot by slot: each row goes right below the one before. *)
LEMMA CompactSteps ==
  ASSUME NEW page \in APage
  PROVE  \E f : /\ f[0] = EmptyPage
                /\ \A k \in 1..Len(page.slots) : f[k] = Packed(f[k - 1], page.slots[k])
                /\ Compact(page) = f[Len(page.slots)]
  <1> DEFINE n == Len(page.slots)
             packed[k \in 0..n] == IF k = 0 THEN EmptyPage ELSE Packed(packed[k - 1], page.slots[k])
  <1>1. Compact(page) = packed[n]
    BY DEF Compact
  <1>2. n \in Nat
    BY DEF APage
  <1>3. Packs(packed, n, page)
    <2>1. packed = CHOOSE f : Packs(f, n, page)
      BY DEF Packs
    <2> HIDE DEF n
    <2>2. \E f : Packs(f, n, page)
      BY <1>2, PacksExist
    <2>3. QED
      BY <2>1, <2>2
  <1> HIDE DEF packed
  <1>4. packed[0] = EmptyPage /\ \A k \in 1..n : packed[k] = Packed(packed[k - 1], page.slots[k])
    BY <1>2, <1>3 DEF Packs
  <1>5. QED
    BY <1>1, <1>4

(* What a page looks like after k slots. *)
PackedTo(f, page, k) ==
    /\ f[k] \in APage
    /\ Len(f[k].slots) = k
    /\ \A j \in 1..k : f[k].slots[j] = IF page.slots[j] = Tombstone THEN Tombstone
                                       ELSE [offset |-> f[j].start, row |-> page.slots[j].row]

(* What compaction has packed after k slots: the rows end at the end of the payload. *)
LEMMA PackedShape ==
  ASSUME NEW page \in APage, NEW f, f[0] = EmptyPage,
         \A k \in 1..Len(page.slots) : f[k] = Packed(f[k - 1], page.slots[k])
  PROVE  /\ \A k \in 0..Len(page.slots) : PackedTo(f, page, k)
         /\ \A k \in 1..Len(page.slots) : f[k].start = f[k - 1].start - page.slots[k].row.len
  <1> DEFINE n == Len(page.slots)
             Good == {k \in 0..n : PackedTo(f, page, k)}
  <1>1. n \in Nat /\ page.slots \in Seq(ASlot) /\ \A k \in 1..n : page.slots[k] \in ASlot
    BY DEF APage
  <1>2. PackedTo(f, page, 0)
    <2>1. EmptyPage \in APage /\ Len(EmptyPage.slots) = 0
      BY LayoutAssumption DEF EmptyPage, APage
    <2>2. QED
      BY <2>1 DEF PackedTo
  <1>3. ASSUME NEW k \in 1..n, PackedTo(f, page, k - 1)
        PROVE  PackedTo(f, page, k) /\ f[k].start = f[k - 1].start - page.slots[k].row.len
    <2> DEFINE slot == page.slots[k]
               old  == f[k - 1]
    <2>1. /\ slot \in ASlot /\ old \in APage /\ old.slots \in Seq(ASlot) /\ old.start \in Int
          /\ Len(old.slots) = k - 1 /\ f[k] = Packed(old, slot)
      BY <1>1, <1>3 DEF PackedTo, APage
    <2>2. slot.row.len \in Nat
      BY <2>1, SlotKinds
    <2>3. CASE slot = Tombstone
      <3>1. f[k] = [slots |-> Append(old.slots, Tombstone), start |-> old.start]
        BY <2>1, <2>3 DEF Packed
      <3>2. f[k].slots = Append(old.slots, Tombstone) /\ f[k].start = old.start /\ f[k] \in APage
        BY <2>1, <3>1 DEF APage, ASlot
      <3>3. Len(f[k].slots) = k /\ f[k].slots[k] = Tombstone
            /\ \A j \in 1..(k - 1) : f[k].slots[j] = old.slots[j]
        BY <2>1, <3>2
      <3>4. f[k].start = old.start - slot.row.len
        BY <2>1, <2>3, <3>2, SlotKinds
      <3> HIDE DEF slot, old
      <3>5. QED
        BY <1>3, <2>3, <3>2, <3>3, <3>4 DEF PackedTo, slot, old
    <2>4. CASE slot # Tombstone
      <3> DEFINE new == [offset |-> old.start - slot.row.len, row |-> slot.row]
      <3>1. slot \in LiveSlot
        BY <2>1, <2>4, SlotKinds
      <3>2. [slot EXCEPT !.offset = old.start - slot.row.len] = new
        BY <3>1 DEF LiveSlot
      <3>3. f[k] = [slots |-> Append(old.slots, new), start |-> old.start - slot.row.len]
        BY <2>1, <2>4, <3>2 DEF Packed
      <3>4. new \in LiveSlot
        BY <2>1, <2>2, <3>1 DEF LiveSlot
      <3>5. f[k].slots = Append(old.slots, new) /\ f[k].start = old.start - slot.row.len /\ f[k] \in APage
        BY <2>1, <2>2, <3>3, <3>4 DEF APage, ASlot
      <3>6. Len(f[k].slots) = k /\ f[k].slots[k] = [offset |-> f[k].start, row |-> slot.row]
            /\ \A j \in 1..(k - 1) : f[k].slots[j] = old.slots[j]
        BY <2>1, <3>5
      <3> HIDE DEF slot, old, new
      <3>7. QED
        BY <1>3, <2>4, <3>5, <3>6 DEF PackedTo, slot, old
    <2>5. QED
      BY <2>3, <2>4
  <1>4. 0..n \subseteq Good
    <2>1. 0 \in Good /\ \A k \in 1..n : k - 1 \in Good => k \in Good
      BY <1>1, <1>2, <1>3
    <2> HIDE DEF Good
    <2>2. QED
      BY <1>1, <2>1, Climbs
  <1>5. \A k \in 1..n : k - 1 \in 0..n
    BY <1>1
  <1>6. QED
    BY <1>3, <1>4, <1>5

(* A page and what compacting it gives, in terms of where the rows go. *)
LEMMA CompactShape ==
  ASSUME NEW page \in APage
  PROVE  \E s : /\ s \in [0..Len(page.slots) -> Int] /\ s[0] = PayloadSize
                /\ \A k \in 1..Len(page.slots) : s[k] = s[k - 1] - page.slots[k].row.len
                /\ Compact(page) \in APage
                /\ Compact(page).start = s[Len(page.slots)]
                /\ Len(Compact(page).slots) = Len(page.slots)
                /\ \A j \in 1..Len(page.slots) :
                      Compact(page).slots[j] = IF page.slots[j] = Tombstone THEN Tombstone
                                               ELSE [offset |-> s[j], row |-> page.slots[j].row]
  <1> DEFINE n == Len(page.slots)
  <1>1. PICK f : /\ f[0] = EmptyPage
                 /\ \A k \in 1..n : f[k] = Packed(f[k - 1], page.slots[k])
                 /\ Compact(page) = f[n]
    BY CompactSteps
  <1>2. /\ \A k \in 0..n : PackedTo(f, page, k)
        /\ \A k \in 1..n : f[k].start = f[k - 1].start - page.slots[k].row.len
    BY <1>1, PackedShape
  <1> DEFINE s == [k \in 0..n |-> f[k].start]
  <1>3. n \in Nat
    BY DEF APage
  <1>4. \A k \in 0..n : f[k].start \in Int
    BY <1>2 DEF PackedTo, APage
  <1>5. s \in [0..n -> Int] /\ s[0] = PayloadSize
    BY <1>1, <1>3, <1>4 DEF EmptyPage
  <1>6. \A k \in 1..n : k \in 0..n /\ k - 1 \in 0..n
    BY <1>3
  <1>7. \A k \in 1..n : s[k] = s[k - 1] - page.slots[k].row.len
    BY <1>2, <1>6
  <1>8. /\ Compact(page) \in APage
        /\ Compact(page).start = s[n]
        /\ Len(Compact(page).slots) = n
        /\ \A j \in 1..n : Compact(page).slots[j] = IF page.slots[j] = Tombstone THEN Tombstone
                                               ELSE [offset |-> s[j], row |-> page.slots[j].row]
    <2>1. n \in 0..n
      BY <1>3
    <2>2. PackedTo(f, page, n)
      BY <1>2, <2>1
    <2> HIDE DEF n
    <2>3. QED
      BY <1>1, <1>6, <2>1, <2>2 DEF PackedTo
  <1> HIDE DEF s
  <1>9. QED
    BY <1>5, <1>7, <1>8

(* Lower and lower. *)
LEMMA Falls ==
  ASSUME NEW n \in Nat, NEW s \in [0..n -> Int], \A k \in 1..n : s[k] <= s[k - 1],
         NEW i \in 0..n, NEW j \in 0..n, i <= j
  PROVE  s[j] <= s[i]
  <1> DEFINE Good == {m \in 0..n : i <= m => s[m] <= s[i]}
  <1>1. 0 \in Good
    OBVIOUS
  <1>2. ASSUME NEW m \in 1..n, m - 1 \in Good PROVE m \in Good
    <2>1. CASE i = m
      BY <2>1
    <2>2. CASE i # m
      <3>1. i <= m => s[m - 1] <= s[i]
        BY <1>2, <2>2
      <3>2. s[m] <= s[m - 1] /\ s[m] \in Int /\ s[m - 1] \in Int /\ s[i] \in Int
        OBVIOUS
      <3>3. QED
        BY <3>1, <3>2
    <2>3. QED
      BY <2>1, <2>2
  <1> HIDE DEF Good
  <1>3. j \in Good
    BY <1>1, <1>2, Climbs
  <1>4. QED
    BY <1>3 DEF Good

(* The slots of a page by what they hold. *)
LEMMA PageFacts ==
  ASSUME NEW page \in APage
  PROVE  /\ page.start \in Int /\ Len(page.slots) \in Nat /\ page.slots \in Seq(ASlot)
         /\ DOMAIN page.slots = 1..Len(page.slots)
         /\ \A j \in 1..Len(page.slots) : page.slots[j] \in ASlot /\ page.slots[j].row.len \in Nat
         /\ \A j : j \in Occupied(page) <=> j \in 1..Len(page.slots) /\ page.slots[j] # Tombstone
         /\ \A j \in Occupied(page) : page.slots[j] \in LiveSlot /\ RowAt(page, j) \in ARow
         /\ DirectoryEnd(Len(page.slots)) \in Nat /\ DirectoryEnd(Len(page.slots)) > 0
  <1>1. page.start \in Int /\ Len(page.slots) \in Nat /\ page.slots \in Seq(ASlot)
         /\ DOMAIN page.slots = 1..Len(page.slots)
         /\ \A j \in 1..Len(page.slots) : page.slots[j] \in ASlot
    BY DEF APage
  <1>2. \A j : j \in Occupied(page) <=> j \in 1..Len(page.slots) /\ page.slots[j] # Tombstone
    BY <1>1 DEF Occupied, Tombstones
  <1>3. DirectoryEnd(Len(page.slots)) \in Nat /\ DirectoryEnd(Len(page.slots)) > 0
    <2>1. HeaderSize \in Nat /\ HeaderSize > 0 /\ EntrySize \in Nat
      BY LayoutAssumption
    <2>2. Len(page.slots) * EntrySize \in Nat
      BY <1>1, <2>1
    <2>3. QED
      BY <2>1, <2>2 DEF DirectoryEnd
  <1>4. \A j \in Occupied(page) : page.slots[j] \in LiveSlot
    BY <1>1, <1>2, SlotKinds
  <1>5. QED
    BY <1>1, <1>2, <1>3, <1>4, SlotKinds DEF RowAt

(* Compacting keeps every row in its slot. *)
LEMMA CompactKeeps ==
  ASSUME NEW page \in APage
  PROVE  /\ Compact(page) \in APage
         /\ Len(Compact(page).slots) = Len(page.slots)
         /\ Occupied(Compact(page)) = Occupied(page)
         /\ \A j \in 1..Len(page.slots) : Compact(page).slots[j].row = page.slots[j].row
  <1> DEFINE n == Len(page.slots)
  <1>1. PICK s : /\ s \in [0..n -> Int] /\ s[0] = PayloadSize
                 /\ \A k \in 1..n : s[k] = s[k - 1] - page.slots[k].row.len
                 /\ Compact(page) \in APage
                 /\ Compact(page).start = s[n]
                 /\ Len(Compact(page).slots) = n
                 /\ \A j \in 1..n : Compact(page).slots[j] = IF page.slots[j] = Tombstone THEN Tombstone
                                               ELSE [offset |-> s[j], row |-> page.slots[j].row]
    BY CompactShape
  <1>2. \A j \in 1..n : Compact(page).slots[j].row = page.slots[j].row
    <2>1. \A j \in 1..n : page.slots[j] = Tombstone => Compact(page).slots[j].row = page.slots[j].row
      BY <1>1
    <2>2. \A j \in 1..n : page.slots[j] # Tombstone => Compact(page).slots[j].row = page.slots[j].row
      <3> SUFFICES ASSUME NEW j \in 1..n, page.slots[j] # Tombstone
                   PROVE  Compact(page).slots[j].row = page.slots[j].row
        OBVIOUS
      <3>1. Compact(page).slots[j] = [offset |-> s[j], row |-> page.slots[j].row]
        BY <1>1
      <3>2. QED
        BY <3>1
    <2>3. QED
      BY <2>1, <2>2
  <1>3. \A j \in 1..n : Compact(page).slots[j] = Tombstone <=> page.slots[j] = Tombstone
    <2> SUFFICES ASSUME NEW j \in 1..n, page.slots[j] # Tombstone PROVE Compact(page).slots[j] # Tombstone
      BY <1>1
    <2>1. page.slots[j].row.len > 0
      BY PageFacts, SlotKinds
    <2>2. Compact(page).slots[j].row.len > 0
      BY <1>2, <2>1
    <2>3. Tombstone.row.len = 0
      BY SlotKinds
    <2>4. QED
      BY <2>2, <2>3
  <1>4. Occupied(Compact(page)) = Occupied(page)
    <2>1. \A j : j \in Occupied(Compact(page)) <=> j \in 1..n /\ Compact(page).slots[j] # Tombstone
      BY <1>1, PageFacts
    <2>2. \A j : j \in Occupied(page) <=> j \in 1..n /\ page.slots[j] # Tombstone
      BY PageFacts
    <2>3. QED
      BY <1>3, <2>1, <2>2
  <1>5. QED
    BY <1>1, <1>2, <1>4

(* Two descents by steps that differ in one place. *)
Descends(s, a, n) ==
    /\ n \in Nat /\ s \in [0..n -> Int] /\ a \in [1..n -> Nat]
    /\ \A k \in 1..n : s[k] = s[k - 1] - a[k]

DifferAt(a, n, b, m, i, d) ==
    /\ n <= m /\ i \in Nat /\ d \in Int
    /\ \A j \in 1..m : j # i => j <= n /\ b[j] = a[j]
    /\ i \in 1..n => b[i] = d + a[i]
    /\ i \in 1..m /\ i > n => b[i] = d
    /\ i \notin 1..m => d = 0

(* Two sums over rows that differ in one row differ by that row. *)
LEMMA DescentsDiffer ==
  ASSUME NEW n, NEW m, NEW s, NEW r, NEW a, NEW b, NEW i, NEW d,
         Descends(s, a, n), Descends(r, b, m), s[0] = r[0], DifferAt(a, n, b, m, i, d)
  PROVE  r[m] = s[n] - d
  <1>1. /\ n \in Nat /\ m \in Nat /\ n <= m
        /\ s \in [0..n -> Int] /\ r \in [0..m -> Int]
        /\ a \in [1..n -> Nat] /\ b \in [1..m -> Nat]
        /\ \A k \in 1..n : s[k] = s[k - 1] - a[k]
        /\ \A k \in 1..m : r[k] = r[k - 1] - b[k]
        /\ i \in Nat /\ d \in Int
        /\ \A j \in 1..m : j # i => j <= n /\ b[j] = a[j]
        /\ i \in 1..n => b[i] = d + a[i]
        /\ i \in 1..m /\ i > n => b[i] = d
        /\ i \notin 1..m => d = 0
    BY DEF Descends, DifferAt
  <1> DEFINE Good == {k \in 0..n : r[k] = IF i # 0 /\ i <= k THEN s[k] - d ELSE s[k]}
  <1>4. 0 \in Good
    BY <1>1
  <1>5. ASSUME NEW k \in 1..n, k - 1 \in Good PROVE k \in Good
    <2>1. k \in 1..m /\ k - 1 \in 0..n /\ k \in 0..n /\ k \in 0..m /\ k - 1 \in 0..m
      BY <1>1
    <2>2. r[k] = r[k - 1] - b[k] /\ s[k] = s[k - 1] - a[k]
      BY <1>1, <2>1
    <2>3. r[k] \in Int /\ r[k - 1] \in Int /\ s[k] \in Int /\ s[k - 1] \in Int /\ b[k] \in Nat /\ a[k] \in Nat
      BY <1>1, <2>1
    <2>4. r[k - 1] = IF i # 0 /\ i <= k - 1 THEN s[k - 1] - d ELSE s[k - 1]
      BY <1>1, <1>5
    <2>5. CASE k = i
      BY <1>1, <2>1, <2>2, <2>3, <2>4, <2>5
    <2>6. CASE k # i
      <3>1. b[k] = a[k]
        BY <1>1, <2>1, <2>6
      <3>2. CASE i # 0 /\ i <= k
        <4>1. i <= k - 1
          BY <1>1, <2>6, <3>2
        <4>2. r[k] = s[k] - d
          BY <1>1, <2>2, <2>3, <2>4, <3>1, <3>2, <4>1
        <4>3. QED
          BY <1>1, <2>1, <3>2, <4>2
      <3>3. CASE ~ (i # 0 /\ i <= k)
        <4>1. ~ (i # 0 /\ i <= k - 1)
          BY <1>1, <3>3
        <4>2. r[k] = s[k]
          BY <1>1, <2>2, <2>3, <2>4, <3>1, <4>1
        <4>3. QED
          BY <1>1, <2>1, <3>3, <4>2
      <3>4. QED
        BY <1>1, <3>2, <3>3
    <2>7. QED
      BY <1>1, <2>5, <2>6
  <1> HIDE DEF Good
  <1>6. n \in Good
    <2>1. 0..n \subseteq Good
      BY <1>1, <1>4, <1>5, Climbs
    <2>2. QED
      BY <1>1, <2>1
  <1>7. r[n] = IF i # 0 /\ i <= n THEN s[n] - d ELSE s[n]
    BY <1>1, <1>6 DEF Good
  <1>8. CASE m = n
    BY <1>1, <1>7, <1>8
  <1>9. CASE m # n
    <2>1. m > n /\ m \in 1..m
      BY <1>1, <1>9
    <2>2. m = i
      BY <1>1, <2>1
    <2>3. m = n + 1
      <3>1. SUFFICES ASSUME m # n + 1 PROVE FALSE
        OBVIOUS
      <3>2. m - 1 \in 1..m /\ m - 1 # i /\ ~ (m - 1 <= n)
        BY <1>1, <2>1, <2>2, <3>1
      <3>3. QED
        BY <1>1, <3>2
    <2>4. b[m] = d
      BY <1>1, <2>1, <2>2
    <2>5. r[m] = r[n] - d
      <3>1. m - 1 = n
        BY <1>1, <2>3
      <3>2. r[m] = r[m - 1] - b[m]
        BY <1>1, <2>1
      <3>3. QED
        BY <1>1, <3>1, <3>2, <2>4
    <2>6. r[n] = s[n]
      BY <1>1, <1>7, <2>1, <2>2
    <2>7. QED
      BY <1>1, <2>5, <2>6
  <1>10. QED
    BY <1>1, <1>8, <1>9

(* Where the rows of two pages end up, when they differ in one slot. *)
LEMMA CompactStart ==
  ASSUME NEW p \in APage, NEW q \in APage, NEW i \in Nat, NEW d \in Int,
         Len(p.slots) <= Len(q.slots),
         \A j \in 1..Len(q.slots) : j # i => j <= Len(p.slots) /\ q.slots[j].row.len = p.slots[j].row.len,
         i \in 1..Len(q.slots) =>
            q.slots[i].row.len = d + (IF i <= Len(p.slots) THEN p.slots[i].row.len ELSE 0),
         i \notin 1..Len(q.slots) => d = 0
  PROVE  Compact(q).start = Compact(p).start - d
  <1> DEFINE n == Len(p.slots)
             m == Len(q.slots)
  <1>1. PICK s : /\ s \in [0..n -> Int] /\ s[0] = PayloadSize
                 /\ \A k \in 1..n : s[k] = s[k - 1] - p.slots[k].row.len
                 /\ Compact(p).start = s[n]
    BY CompactShape
  <1>2. PICK r : /\ r \in [0..m -> Int] /\ r[0] = PayloadSize
                 /\ \A k \in 1..m : r[k] = r[k - 1] - q.slots[k].row.len
                 /\ Compact(q).start = r[m]
    BY CompactShape
  <1>3. /\ n \in Nat /\ m \in Nat
        /\ \A j \in 1..n : p.slots[j].row.len \in Nat
        /\ \A j \in 1..m : q.slots[j].row.len \in Nat
    BY PageFacts
  <1> DEFINE a == [k \in 1..n |-> p.slots[k].row.len]
             b == [k \in 1..m |-> q.slots[k].row.len]
  <1>4. a \in [1..n -> Nat] /\ b \in [1..m -> Nat]
    BY <1>3
  <1>5. /\ \A k \in 1..n : a[k] = p.slots[k].row.len
        /\ \A k \in 1..m : b[k] = q.slots[k].row.len
    OBVIOUS
  <1> HIDE DEF a, b
  <1>6. /\ \A k \in 1..n : s[k] = s[k - 1] - a[k]
        /\ \A k \in 1..m : r[k] = r[k - 1] - b[k]
    BY <1>1, <1>2, <1>5
  <1>7. \A j \in 1..m : j # i => j <= n /\ b[j] = a[j]
    <2> SUFFICES ASSUME NEW j \in 1..m, j # i PROVE j <= n /\ b[j] = a[j]
      OBVIOUS
    <2>1. j <= n /\ q.slots[j].row.len = p.slots[j].row.len
      OBVIOUS
    <2>2. j \in 1..n
      BY <1>3, <2>1
    <2>3. QED
      BY <1>5, <2>1, <2>2
  <1>8. i \in 1..n => b[i] = d + a[i]
    <2> SUFFICES ASSUME i \in 1..n PROVE b[i] = d + a[i]
      OBVIOUS
    <2>1. i \in 1..m /\ i <= n
      BY <1>3
    <2>2. q.slots[i].row.len = d + p.slots[i].row.len
      BY <2>1
    <2>3. QED
      BY <1>5, <2>1, <2>2
  <1>9. i \in 1..m /\ i > n => b[i] = d
    <2> SUFFICES ASSUME i \in 1..m, i > n PROVE b[i] = d
      OBVIOUS
    <2>1. ~ (i <= n)
      BY <1>3
    <2>2. q.slots[i].row.len = d + 0
      BY <2>1
    <2>3. QED
      BY <1>5, <2>2
  <1>10. r[m] = s[n] - d
    <2>1. n <= m /\ s[0] = r[0] /\ (i \notin 1..m => d = 0)
      BY <1>1, <1>2
    <2> HIDE DEF n, m
    <2>2. Descends(s, a, n) /\ Descends(r, b, m)
      BY <1>1, <1>2, <1>3, <1>4, <1>6 DEF Descends
    <2>3. DifferAt(a, n, b, m, i, d)
      BY <1>7, <1>8, <1>9, <2>1 DEF DifferAt
    <2>4. QED
      BY <2>1, <2>2, <2>3, DescentsDiffer
  <1>11. QED
    BY <1>1, <1>2, <1>10

\* The rows of a page by slot.
SameRows(p, q) ==
    /\ Occupied(q) = Occupied(p)
    /\ \A j \in Occupied(p) : RowAt(q, j) = RowAt(p, j)

RowsWith(p, q, i, row) ==
    /\ Occupied(q) = Occupied(p) \cup {i}
    /\ RowAt(q, i) = row
    /\ \A j \in Occupied(p) \ {i} : RowAt(q, j) = RowAt(p, j)

(* Compacting makes room and keeps the rows. *)
LEMMA CompactOk ==
  ASSUME NEW page, PageOk(page)
  PROVE  /\ PageOk(Compact(page))
         /\ FreeSpace(page) <= FreeSpace(Compact(page))
         /\ Len(Compact(page).slots) = Len(page.slots)
         /\ SameRows(page, Compact(page))
  <1> DEFINE n == Len(page.slots)
             c == Compact(page)
  <1>1. page \in APage /\ WellFormed(page) /\ page.start <= c.start
    BY DEF PageOk
  <1>2. PICK s : /\ s \in [0..n -> Int] /\ s[0] = PayloadSize
                 /\ \A k \in 1..n : s[k] = s[k - 1] - page.slots[k].row.len
                 /\ c \in APage /\ c.start = s[n]
                 /\ Len(c.slots) = n
                 /\ \A j \in 1..n : c.slots[j] = IF page.slots[j] = Tombstone THEN Tombstone
                                                 ELSE [offset |-> s[j], row |-> page.slots[j].row]
    BY <1>1, CompactShape
  <1>3. Occupied(c) = Occupied(page) /\ \A j \in 1..n : c.slots[j].row = page.slots[j].row
    BY <1>1, CompactKeeps
  <1>4. /\ page.start \in Int /\ n \in Nat /\ DirectoryEnd(n) \in Nat
        /\ \A j \in 1..n : page.slots[j].row.len \in Nat
        /\ \A j : j \in Occupied(page) <=> j \in 1..n /\ page.slots[j] # Tombstone
    BY <1>1, PageFacts
  <1>5. \A k \in 1..n : k \in 0..n /\ k - 1 \in 0..n /\ s[k] \in Int /\ s[k - 1] \in Int
    <2>1. \A k \in 1..n : k \in 0..n /\ k - 1 \in 0..n
      BY <1>4
    <2>2. \A k \in 0..n : s[k] \in Int
      BY <1>2
    <2> HIDE DEF n
    <2>3. QED
      BY <2>1, <2>2
  <1>6. \A k \in 1..n : s[k] <= s[k - 1]
    <2> SUFFICES ASSUME NEW k \in 1..n PROVE s[k] <= s[k - 1]
      OBVIOUS
    <2> DEFINE len == page.slots[k].row.len
    <2>1. len \in Nat /\ s[k] = s[k - 1] - len
      BY <1>2, <1>4
    <2> HIDE DEF len
    <2>2. QED
      BY <1>5, <2>1
  <1> HIDE DEF n, c
  <1>7. \A i, j \in 0..n : i <= j => s[j] <= s[i]
    BY <1>2, <1>4, <1>6, Falls
  <1>8. \A j \in Occupied(c) : /\ j \in 1..n /\ c.slots[j].offset = s[j]
                               /\ c.slots[j].offset + RowAt(c, j).len = s[j - 1]
    <2> SUFFICES ASSUME NEW j \in Occupied(c)
                 PROVE  /\ j \in 1..n /\ c.slots[j].offset = s[j]
                        /\ c.slots[j].offset + RowAt(c, j).len = s[j - 1]
      OBVIOUS
    <2>1. j \in 1..n /\ page.slots[j] # Tombstone
      BY <1>3, <1>4
    <2>2. c.slots[j] = [offset |-> s[j], row |-> page.slots[j].row]
      BY <1>2, <2>1
    <2>3. c.slots[j].offset = s[j] /\ RowAt(c, j) = page.slots[j].row
      BY <2>2 DEF RowAt
    <2> DEFINE len == page.slots[j].row.len
    <2>4. len \in Nat /\ s[j] = s[j - 1] - len /\ RowAt(c, j).len = len
      BY <1>2, <1>4, <2>1, <2>3
    <2> HIDE DEF len
    <2>5. QED
      BY <1>5, <2>1, <2>3, <2>4
  <1>9. s[n] <= PayloadSize /\ n \in 0..n /\ s[n] \in Int
    BY <1>2, <1>4, <1>7
  <1>10. DirectoryEnd(n) <= page.start /\ page.start <= s[n]
    BY <1>1, <1>2 DEF WellFormed, n
  <1>11. WellFormed(c)
    <2>1. c.start <= PayloadSize /\ DirectoryEnd(Len(c.slots)) <= c.start
      BY <1>2, <1>4, <1>9, <1>10
    <2>2. \A j \in Occupied(c) : c.slots[j].offset >= c.start /\ c.slots[j].offset + RowAt(c, j).len <= PayloadSize
      <3> SUFFICES ASSUME NEW j \in Occupied(c)
                   PROVE  s[j] >= s[n] /\ s[j - 1] <= s[0]
        BY <1>2, <1>8
      <3>1. j \in 0..n /\ j - 1 \in 0..n /\ n \in 0..n /\ 0 \in 0..n /\ j <= n /\ 0 <= j - 1
        BY <1>4, <1>8
      <3>2. s[j] \in Int /\ s[n] \in Int /\ s[n] <= s[j] /\ s[j - 1] <= s[0]
        BY <1>2, <1>7, <3>1
      <3>3. QED
        BY <3>2
    <2>3. \A i, j \in Occupied(c) : i # j => \/ c.slots[i].offset + RowAt(c, i).len <= c.slots[j].offset
                                             \/ c.slots[j].offset + RowAt(c, j).len <= c.slots[i].offset
      <3> SUFFICES ASSUME NEW i \in Occupied(c), NEW j \in Occupied(c), i # j
                   PROVE  s[i - 1] <= s[j] \/ s[j - 1] <= s[i]
        BY <1>8
      <3>1. i \in 1..n /\ j \in 1..n
        BY <1>8
      <3>2. CASE i < j
        <4>1. i \in 0..n /\ j - 1 \in 0..n /\ i <= j - 1
          BY <1>4, <3>1, <3>2
        <4>2. QED
          BY <1>7, <4>1
      <3>3. CASE j < i
        <4>1. j \in 0..n /\ i - 1 \in 0..n /\ j <= i - 1
          BY <1>4, <3>1, <3>3
        <4>2. QED
          BY <1>7, <4>1
      <3>4. QED
        BY <3>1, <3>2, <3>3
    <2>4. QED
      BY <2>1, <2>2, <2>3 DEF WellFormed
  <1>12. Compact(c).start = c.start
    <2>1. c \in APage /\ page \in APage /\ Len(page.slots) = n /\ Compact(page) = c
      BY <1>1, <1>2 DEF n, c
    <2>2. Compact(c).start = Compact(page).start - 0
      <3>1. \A j \in 1..Len(c.slots) : j <= Len(page.slots) /\ c.slots[j].row.len = page.slots[j].row.len
        BY <1>2, <1>3, <1>4, <2>1
      <3>2. Len(page.slots) <= Len(c.slots) /\ 0 \notin 1..Len(c.slots)
        BY <1>2, <1>4, <2>1
      <3>3. QED
        BY <2>1, <3>1, <3>2, CompactStart
    <2>3. QED
      BY <1>2, <1>9, <2>1, <2>2
  <1>13. PageOk(c)
    BY <1>2, <1>9, <1>11, <1>12 DEF PageOk
  <1>14. FreeSpace(page) <= FreeSpace(c)
    BY <1>2, <1>4, <1>9, <1>10 DEF FreeSpace, n
  <1>15. SameRows(page, c)
    BY <1>3, <1>4 DEF SameRows, RowAt
  <1>16. QED
    BY <1>2, <1>13, <1>14, <1>15 DEF n, c

(* A row that fits is written: the others stay, the gap gets smaller. *)
LEMMA WriteOk ==
  ASSUME NEW page, PageOk(page), NEW row \in ARow, NEW i \in 1..(Len(page.slots) + 1),
         Fits(page, i, row.len)
  PROVE  /\ PageOk(Write(page, i, row))
         /\ RowsWith(page, Write(page, i, row), i, row)
  <1> DEFINE n == Len(page.slots)
             q == Write(page, i, row)
             m == IF i > n THEN n + 1 ELSE n
             slot == [offset |-> page.start - row.len, row |-> row]
  <1>1. page \in APage /\ WellFormed(page) /\ page.start <= Compact(page).start
    BY DEF PageOk
  <1>2. /\ page.start \in Int /\ n \in Nat /\ page.slots \in Seq(ASlot)
        /\ \A j \in 1..n : page.slots[j] \in ASlot /\ page.slots[j].row.len \in Nat
        /\ \A j : j \in Occupied(page) <=> j \in 1..n /\ page.slots[j] # Tombstone
        /\ \A j \in Occupied(page) : page.slots[j] \in LiveSlot
    BY <1>1, PageFacts
  <1>3. row.len \in Nat /\ row.len > 0 /\ slot \in LiveSlot /\ slot \in ASlot /\ slot # Tombstone
    <2>1. row.len \in Nat /\ row.len > 0
      BY DEF ARow
    <2>2. slot \in LiveSlot
      BY <1>2, <2>1 DEF LiveSlot
    <2>3. QED
      BY <2>1, <2>2, SlotKinds DEF ASlot
  <1>4. q = [slots |-> IF i > n THEN Append(page.slots, slot) ELSE [page.slots EXCEPT ![i] = slot],
             start |-> page.start - row.len]
    BY DEF Write
  <1>5. /\ q.start = page.start - row.len
        /\ q.slots = IF i > n THEN Append(page.slots, slot) ELSE [page.slots EXCEPT ![i] = slot]
    BY <1>4
  <1>6. i \in 1..(n + 1) /\ i \in Nat /\ m \in Nat
    BY <1>2
  <1> HIDE DEF n, q, slot
  <1>7. /\ q.slots \in Seq(ASlot) /\ Len(q.slots) = m /\ q.slots[i] = slot
        /\ \A j \in 1..m : j # i => j \in 1..n /\ q.slots[j] = page.slots[j]
        /\ i \in 1..m
    <2>1. CASE i > n
      BY <1>2, <1>3, <1>5, <1>6, <2>1 DEF n
    <2>2. CASE ~ (i > n)
      BY <1>2, <1>3, <1>5, <1>6, <2>2 DEF n
    <2>3. QED
      BY <2>1, <2>2
  <1>8. q \in APage
    BY <1>2, <1>3, <1>4, <1>5, <1>7 DEF APage
  <1>9. /\ q.start \in Int
        /\ \A j : j \in Occupied(q) <=> j \in 1..m /\ q.slots[j] # Tombstone
    BY <1>7, <1>8, PageFacts
  <1>10. DirectoryEnd(m) + row.len <= page.start /\ DirectoryEnd(m) \in Nat
    <2>1. DirectoryEnd(m) \in Nat
      BY <1>7, <1>8, PageFacts
    <2>2. m = IF i > Len(page.slots) THEN i ELSE Len(page.slots)
      BY <1>2, <1>6 DEF n
    <2> HIDE DEF m
    <2>3. QED
      BY <2>1, <2>2 DEF Fits
  <1>11. Occupied(q) = Occupied(page) \cup {i}
    <2>1. \A j : j \in 1..n => j \in 1..m
      BY <1>2, <1>6
    <2>2. q.slots[i] # Tombstone
      BY <1>3, <1>7
    <2> HIDE DEF m
    <2>3. \A j : j \in Occupied(q) <=> j \in Occupied(page) \cup {i}
      BY <1>2, <1>7, <1>9, <2>1, <2>2
    <2>4. QED
      BY <2>3
  <1> HIDE DEF m
  <1>12. /\ RowAt(q, i) = row /\ q.slots[i].offset = page.start - row.len
         /\ \A j \in Occupied(page) \ {i} :
              q.slots[j].offset = page.slots[j].offset /\ RowAt(q, j) = RowAt(page, j)
    <2>1. \A j \in Occupied(page) \ {i} : j \in 1..m
      BY <1>9, <1>11
    <2>2. QED
      BY <1>7, <2>1 DEF RowAt, slot
  <1>13. WellFormed(q)
    <2>1. /\ page.start <= PayloadSize
          /\ \A j \in Occupied(page) : /\ page.slots[j].offset >= page.start
                                       /\ page.slots[j].offset + RowAt(page, j).len <= PayloadSize
          /\ \A j, k \in Occupied(page) : j # k =>
                  \/ page.slots[j].offset + RowAt(page, j).len <= page.slots[k].offset
                  \/ page.slots[k].offset + RowAt(page, k).len <= page.slots[j].offset
      BY <1>1 DEF WellFormed
    <2>2. q.start <= PayloadSize /\ DirectoryEnd(Len(q.slots)) <= q.start /\ PayloadSize \in Int
      BY <1>2, <1>3, <1>5, <1>7, <1>10, <2>1, LayoutAssumption
    <2>3. /\ q.slots[i].offset >= q.start /\ q.slots[i].offset + RowAt(q, i).len = page.start
      BY <1>2, <1>3, <1>5, <1>12
    <2>4. \A j \in Occupied(page) \ {i} : q.slots[j].offset >= page.start /\ q.slots[j].offset >= q.start
      <3> SUFFICES ASSUME NEW j \in Occupied(page) \ {i}
                   PROVE  q.slots[j].offset >= page.start /\ q.slots[j].offset >= q.start
        OBVIOUS
      <3>1. q.slots[j].offset = page.slots[j].offset /\ page.slots[j].offset \in Int
        BY <1>2, <1>12, SlotKinds
      <3>2. QED
        BY <1>2, <1>3, <1>5, <2>1, <3>1
    <2>5. \A j \in Occupied(q) :
              q.slots[j].offset >= q.start /\ q.slots[j].offset + RowAt(q, j).len <= PayloadSize
      BY <1>11, <1>12, <2>1, <2>3, <2>4
    <2>6. \A j, k \in Occupied(q) : j # k =>
                  \/ q.slots[j].offset + RowAt(q, j).len <= q.slots[k].offset
                  \/ q.slots[k].offset + RowAt(q, k).len <= q.slots[j].offset
      <3> SUFFICES ASSUME NEW j \in Occupied(q), NEW k \in Occupied(q), j # k
                   PROVE  \/ q.slots[j].offset + RowAt(q, j).len <= q.slots[k].offset
                          \/ q.slots[k].offset + RowAt(q, k).len <= q.slots[j].offset
        OBVIOUS
      <3>1. CASE j = i
        BY <1>11, <2>3, <2>4, <3>1
      <3>2. CASE k = i
        BY <1>11, <2>3, <2>4, <3>2
      <3>3. CASE j # i /\ k # i
        BY <1>11, <1>12, <2>1, <3>3
      <3>4. QED
        BY <3>1, <3>2, <3>3
    <2>7. QED
      BY <2>2, <2>5, <2>6 DEF WellFormed
  <1>14. q.start <= Compact(q).start
    <2> DEFINE old == IF i <= n THEN page.slots[i].row.len ELSE 0
    <2>1. old \in Nat
      BY <1>2, <1>6
    <2> HIDE DEF old
    <2>2. row.len - old \in Int
      BY <1>3, <2>1
    <2>3. Len(page.slots) <= Len(q.slots)
      BY <1>2, <1>7 DEF m, n
    <2>4. \A j \in 1..Len(q.slots) : j # i => j <= Len(page.slots) /\ q.slots[j].row.len = page.slots[j].row.len
      BY <1>2, <1>7 DEF n
    <2>5. q.slots[i].row.len = (row.len - old) + (IF i <= Len(page.slots) THEN page.slots[i].row.len ELSE 0)
      <3>1. q.slots[i].row.len = row.len
        BY <1>7 DEF slot
      <3>2. old = IF i <= Len(page.slots) THEN page.slots[i].row.len ELSE 0
        BY DEF old, n
      <3>3. QED
        BY <1>3, <2>1, <3>1, <3>2
    <2>6. Compact(q).start = Compact(page).start - (row.len - old)
      BY <1>1, <1>6, <1>7, <1>8, <2>2, <2>3, <2>4, <2>5, CompactStart
    <2>7. Compact(page).start \in Int
      BY <1>1, CompactKeeps, PageFacts
    <2>8. QED
      BY <1>1, <1>2, <1>3, <1>5, <2>1, <2>6, <2>7
  <1>15. PageOk(q)
    BY <1>8, <1>13, <1>14 DEF PageOk
  <1>16. RowsWith(page, q, i, row)
    BY <1>11, <1>12 DEF RowsWith
  <1>17. QED
    BY <1>15, <1>16 DEF q

(* An empty page, and the first row on it. *)
LEMMA EmptyOk == PageOk(EmptyPage) /\ Occupied(EmptyPage) = {}
  <1>1. EmptyPage \in APage /\ Len(EmptyPage.slots) = 0 /\ EmptyPage.start = PayloadSize
    BY LayoutAssumption DEF EmptyPage, APage
  <1>2. Occupied(EmptyPage) = {}
    BY <1>1, PageFacts
  <1>3. WellFormed(EmptyPage)
    <2>1. DirectoryEnd(0) <= PayloadSize /\ PayloadSize \in Nat
      BY LayoutAssumption DEF DirectoryEnd
    <2>2. QED
      BY <1>1, <1>2, <2>1 DEF WellFormed
  <1>4. Compact(EmptyPage).start = PayloadSize
    BY <1>1, CompactShape
  <1>5. QED
    BY <1>1, <1>2, <1>3, <1>4, LayoutAssumption DEF PageOk

(* A page with nothing but one row (try_insert_into_fresh_page). *)
LEMMA FreshOk ==
  ASSUME NEW row \in ARow, row.len <= MaxLenForFreshPage
  PROVE  /\ PageOk(Write(EmptyPage, 1, row))
         /\ RowsWith(EmptyPage, Write(EmptyPage, 1, row), 1, row)
  <1>1. PageOk(EmptyPage) /\ Len(EmptyPage.slots) = 0 /\ EmptyPage.start = PayloadSize
    BY EmptyOk DEF EmptyPage
  <1>2. Fits(EmptyPage, 1, row.len)
    <2>1. row.len \in Nat /\ PayloadSize \in Nat
      BY LayoutAssumption DEF ARow
    <2>2. DirectoryEnd(1) \in Nat
      BY LayoutAssumption DEF DirectoryEnd
    <2>3. QED
      BY <1>1, <2>1, <2>2 DEF Fits, MaxLenForFreshPage
  <1>3. QED
    BY <1>1, <1>2, WriteOk

(* A tombstone in place of a row. *)
LEMMA DeleteOk ==
  ASSUME NEW page, PageOk(page), NEW i \in Occupied(page)
  PROVE  /\ PageOk(DeleteFrom(page, i))
         /\ FreeSpace(DeleteFrom(page, i)) = FreeSpace(page)
         /\ Occupied(DeleteFrom(page, i)) = Occupied(page) \ {i}
         /\ \A j \in Occupied(page) \ {i} : RowAt(DeleteFrom(page, i), j) = RowAt(page, j)
  <1> DEFINE n == Len(page.slots)
             q == DeleteFrom(page, i)
  <1>1. page \in APage /\ WellFormed(page) /\ page.start <= Compact(page).start
    BY DEF PageOk
  <1>2. /\ page.start \in Int /\ n \in Nat /\ page.slots \in Seq(ASlot)
        /\ \A j \in 1..n : page.slots[j] \in ASlot /\ page.slots[j].row.len \in Nat
        /\ \A j : j \in Occupied(page) <=> j \in 1..n /\ page.slots[j] # Tombstone
    BY <1>1, PageFacts
  <1>3. i \in 1..n /\ Tombstone \in ASlot
    BY <1>2 DEF ASlot
  <1>4. q = [page EXCEPT !.slots = [page.slots EXCEPT ![i] = Tombstone]]
    BY DEF DeleteFrom
  <1>5. q.start = page.start /\ q.slots = [page.slots EXCEPT ![i] = Tombstone] /\ q \in APage
    <2>1. [page.slots EXCEPT ![i] = Tombstone] \in Seq(ASlot)
      BY <1>2, <1>3
    <2>2. QED
      BY <1>1, <1>4, <2>1 DEF APage
  <1> HIDE DEF q, n
  <1>6. /\ Len(q.slots) = n /\ q.slots[i] = Tombstone
        /\ \A j \in 1..n : j # i => q.slots[j] = page.slots[j]
    BY <1>2, <1>3, <1>5 DEF n
  <1>7. Occupied(q) = Occupied(page) \ {i}
    <2>1. \A j : j \in Occupied(q) <=> j \in 1..n /\ q.slots[j] # Tombstone
      BY <1>5, <1>6, PageFacts
    <2>2. QED
      BY <1>2, <1>6, <2>1
  <1>8. \A j \in Occupied(page) \ {i} : q.slots[j] = page.slots[j] /\ RowAt(q, j) = RowAt(page, j)
    BY <1>2, <1>6 DEF RowAt
  <1>9. WellFormed(q)
    BY <1>1, <1>5, <1>6, <1>7, <1>8 DEF WellFormed, n
  <1>10. q.start <= Compact(q).start
    <2> DEFINE len == page.slots[i].row.len
    <2>1. len \in Nat /\ 0 - len \in Int
      BY <1>2, <1>3
    <2>2. q.slots[i].row.len = (0 - len) + len
      BY <1>6, <2>1, SlotKinds
    <2>3. \A j \in 1..Len(q.slots) : j # i => j <= Len(page.slots) /\ q.slots[j].row.len = page.slots[j].row.len
      BY <1>2, <1>6 DEF n
    <2>4. Len(page.slots) <= Len(q.slots) /\ i \in 1..Len(q.slots) /\ i <= Len(page.slots) /\ i \in Nat
      BY <1>2, <1>3, <1>6 DEF n
    <2>5. q.slots[i].row.len = (0 - len) + (IF i <= Len(page.slots) THEN page.slots[i].row.len ELSE 0)
      BY <2>2, <2>4
    <2> HIDE DEF len
    <2>6. Compact(q).start = Compact(page).start - (0 - len)
      BY <1>1, <1>5, <2>1, <2>3, <2>4, <2>5, CompactStart
    <2>7. Compact(page).start \in Int
      BY <1>1, CompactKeeps, PageFacts
    <2>8. QED
      BY <1>1, <1>2, <1>5, <2>1, <2>6, <2>7
  <1>11. PageOk(q)
    BY <1>5, <1>9, <1>10 DEF PageOk
  <1>12. FreeSpace(q) = FreeSpace(page)
    BY <1>5, <1>6 DEF FreeSpace, n
  <1>13. QED
    BY <1>7, <1>8, <1>11, <1>12 DEF q

\* What came of trying to put a row into slot i.
TriedWell(page, tried, i, row) ==
    /\ PageOk(tried.page)
    /\ tried.slot \in {NoSlot, i}
    /\ tried.slot = NoSlot => SameRows(page, tried.page) /\ FreeSpace(page) <= FreeSpace(tried.page)
    /\ tried.slot # NoSlot => RowsWith(page, tried.page, i, row)

(* try_insert and try_relocate, with compaction or without, leave a sound page. *)
LEMMA WriteOrCompactOk ==
  ASSUME NEW page, PageOk(page), NEW row \in ARow, NEW i \in 1..(Len(page.slots) + 1)
  PROVE  TriedWell(page, WriteOrCompact(page, Compact(page), i, row), i, row)
  <1> DEFINE c == Compact(page)
  <1>1. /\ PageOk(c) /\ FreeSpace(page) <= FreeSpace(c)
        /\ Len(c.slots) = Len(page.slots) /\ SameRows(page, c)
    BY CompactOk
  <1>2. i # NoSlot
    <2>1. Len(page.slots) \in Nat
      BY PageFacts DEF PageOk
    <2>2. QED
      BY <2>1 DEF NoSlot
  <1> HIDE DEF c
  <1>3. CASE Fits(page, i, row.len)
    <2>1. WriteOrCompact(page, c, i, row) = [page |-> Write(page, i, row), slot |-> i]
      BY <1>3 DEF WriteOrCompact
    <2>2. PageOk(Write(page, i, row)) /\ RowsWith(page, Write(page, i, row), i, row)
      BY <1>3, WriteOk
    <2>3. QED
      BY <1>2, <2>1, <2>2 DEF TriedWell, c
  <1>4. CASE ~ Fits(page, i, row.len) /\ Fits(c, i, row.len)
    <2>1. WriteOrCompact(page, c, i, row) = [page |-> Write(c, i, row), slot |-> i]
      BY <1>4 DEF WriteOrCompact
    <2>2. PageOk(Write(c, i, row)) /\ RowsWith(c, Write(c, i, row), i, row)
      BY <1>1, <1>4, WriteOk
    <2>3. RowsWith(page, Write(c, i, row), i, row)
      BY <1>1, <2>2 DEF RowsWith, SameRows
    <2>4. QED
      BY <1>2, <2>1, <2>2, <2>3 DEF TriedWell, c
  <1>5. CASE ~ Fits(page, i, row.len) /\ ~ Fits(c, i, row.len)
    <2>1. WriteOrCompact(page, c, i, row) = [page |-> c, slot |-> NoSlot]
      BY <1>5 DEF WriteOrCompact
    <2>2. QED
      BY <1>1, <2>1 DEF TriedWell, c
  <1>6. QED
    BY <1>3, <1>4, <1>5

(* SlottedPage::insert, into a slot without a row. *)
LEMMA InsertIntoOk ==
  ASSUME NEW page, PageOk(page), NEW row \in ARow
  PROVE  /\ TriedWell(page, InsertInto(page, row), SlotToFill(page), row)
         /\ SlotToFill(page) \in Nat \ {0} /\ SlotToFill(page) \notin Occupied(page)
  <1> DEFINE n == Len(page.slots)
             S == Tombstones(page) \cup {n + 1}
  <1>1. page \in APage
    BY DEF PageOk
  <1>2. n \in Nat /\ DOMAIN page.slots = 1..n
        /\ \A j : j \in Occupied(page) <=> j \in 1..n /\ page.slots[j] # Tombstone
    BY <1>1, PageFacts
  <1>3. S \in SUBSET (1..(n + 1)) /\ S # {}
    BY <1>2 DEF Tombstones
  <1>4. \A j \in S : j \notin Occupied(page)
    BY <1>2 DEF Tombstones
  <1>5. SlotToFill(page) = Min(S)
    BY DEF SlotToFill
  <1> HIDE DEF S, n
  <1>6. S \in SUBSET Nat
    BY <1>2, <1>3
  <1>7. SlotToFill(page) \in S
    BY <1>3, <1>5, <1>6, MinRight
  <1>8. SlotToFill(page) \in 1..(Len(page.slots) + 1)
    BY <1>3, <1>7 DEF n
  <1>9. TriedWell(page, InsertInto(page, row), SlotToFill(page), row)
    BY <1>8, WriteOrCompactOk DEF InsertInto
  <1>10. \A k \in 1..(n + 1) : k \in Nat \ {0}
    BY <1>2
  <1>11. QED
    BY <1>3, <1>4, <1>7, <1>9, <1>10

(* SlottedPage::update, of a slot with a row: it always fits when it has the same length. *)
LEMMA UpdateInOk ==
  ASSUME NEW page, PageOk(page), NEW row \in ARow, NEW i \in Occupied(page)
  PROVE  /\ TriedWell(page, UpdateIn(page, i, row), i, row)
         /\ RowAt(page, i).len = row.len => UpdateIn(page, i, row).slot = i
         /\ i \in Nat \ {0}
  <1> DEFINE n == Len(page.slots)
             q == [page EXCEPT !.slots[i].row = row]
  <1>1. page \in APage /\ WellFormed(page) /\ page.start <= Compact(page).start
    BY DEF PageOk
  <1>2. /\ page.start \in Int /\ n \in Nat /\ page.slots \in Seq(ASlot)
        /\ \A j \in 1..n : page.slots[j] \in ASlot /\ page.slots[j].row.len \in Nat
        /\ \A j : j \in Occupied(page) <=> j \in 1..n /\ page.slots[j] # Tombstone
        /\ \A j \in Occupied(page) : page.slots[j] \in LiveSlot
    BY <1>1, PageFacts
  <1>3. i \in 1..n /\ i \in Nat /\ i # 0
    BY <1>2
  <1>4. CASE RowAt(page, i).len # row.len
    <2>1. UpdateIn(page, i, row) = WriteOrCompact(page, Compact(page), i, row)
      BY <1>4 DEF UpdateIn
    <2>2. i \in 1..(Len(page.slots) + 1)
      BY <1>2, <1>3
    <2>3. QED
      BY <1>3, <1>4, <2>1, <2>2, WriteOrCompactOk
  <1>5. CASE RowAt(page, i).len = row.len
    <2> DEFINE new == [page.slots[i] EXCEPT !.row = row]
    <2>1. UpdateIn(page, i, row) = [page |-> q, slot |-> i]
      BY <1>5 DEF UpdateIn
    <2>2. new \in LiveSlot /\ new.row = row /\ new.offset = page.slots[i].offset
      BY <1>2 DEF LiveSlot
    <2>3. q = [page EXCEPT !.slots = [page.slots EXCEPT ![i] = new]]
      OBVIOUS
    <2>4. new # Tombstone /\ new \in ASlot
      BY <2>2, SlotKinds DEF ASlot
    <2> HIDE DEF new
    <2>5. q.start = page.start /\ q.slots = [page.slots EXCEPT ![i] = new] /\ q \in APage
      <3>1. [page.slots EXCEPT ![i] = new] \in Seq(ASlot)
        BY <1>2, <1>3, <2>4
      <3>2. QED
        BY <1>1, <2>3, <3>1 DEF APage
    <2> HIDE DEF q, n
    <2>6. /\ Len(q.slots) = n /\ q.slots[i] = new
          /\ \A j \in 1..n : j # i => q.slots[j] = page.slots[j]
      BY <1>2, <1>3, <2>5 DEF n
    <2>7. Occupied(q) = Occupied(page)
      <3>1. \A j : j \in Occupied(q) <=> j \in 1..n /\ q.slots[j] # Tombstone
        BY <2>5, <2>6, PageFacts
      <3>2. QED
        BY <1>2, <1>3, <2>4, <2>6, <3>1
    <2>8. \A j \in Occupied(page) \ {i} : q.slots[j] = page.slots[j] /\ RowAt(q, j) = RowAt(page, j)
      BY <1>2, <2>6 DEF RowAt
    <2>9. RowAt(q, i) = row /\ RowAt(q, i).len = RowAt(page, i).len /\ q.slots[i].offset = page.slots[i].offset
      BY <1>5, <2>2, <2>6 DEF RowAt
    <2>10. \A j \in Occupied(page) :
              RowAt(q, j).len = RowAt(page, j).len /\ q.slots[j].offset = page.slots[j].offset
      BY <2>8, <2>9
    <2>11. WellFormed(q)
      BY <1>1, <2>5, <2>6, <2>7, <2>10 DEF WellFormed, n
    <2>12. Compact(q).start = Compact(page).start
      <3>1. \A j \in 1..Len(q.slots) : j <= Len(page.slots) /\ q.slots[j].row.len = page.slots[j].row.len
        <4>1. q.slots[i].row.len = page.slots[i].row.len
          BY <2>9 DEF RowAt
        <4>2. QED
          BY <1>2, <2>6, <4>1 DEF n
      <3>2. Len(page.slots) <= Len(q.slots) /\ 0 \notin 1..Len(q.slots)
        BY <1>2, <2>6 DEF n
      <3>3. Compact(q).start = Compact(page).start - 0
        BY <1>1, <2>5, <3>1, <3>2, CompactStart
      <3>4. Compact(page).start \in Int
        BY <1>1, CompactKeeps, PageFacts
      <3>5. QED
        BY <3>3, <3>4
    <2>13. PageOk(q)
      BY <1>1, <2>5, <2>11, <2>12 DEF PageOk
    <2>14. RowsWith(page, q, i, row)
      BY <2>7, <2>8, <2>9 DEF RowsWith
    <2>15. QED
      BY <1>3, <2>1, <2>13, <2>14 DEF TriedWell, NoSlot, q
  <1>6. QED
    BY <1>3, <1>4, <1>5

------------------------------------------------------------------------------
(* What is always true of the storage.                                     *)

ARid    == Nat \X Nat
ARecord ==
    [kind : {"insert"}, table : Nat, old : ARid, rid : ARid, before : {NoRow}, after : ARow]
    \cup [kind : {"update", "delete"}, table : Nat, old : ARid, rid : ARid,
          before : ARow, after : ARow \cup {NoRow}]

IsDb(d) == {"next", "tables", "free", "fsm", "indexes", "trees", "stats", "pages", "files",
            "catalog"} \subseteq DOMAIN d

\* Each page belongs to one table, or to the free list, once.
TablesTyped(T) ==
    /\ DOMAIN T \subseteq Nat
    /\ \A t \in DOMAIN T : {"name", "pk", "pages"} \subseteq DOMAIN T[t] /\ T[t].pages \in Seq(Nat)

Owner(T, t, p) == t \in DOMAIN T /\ p \in ToSet(T[t].pages)

OneOwner(T, free, D) ==
    /\ TablesTyped(T)
    /\ free \in Seq(Nat) /\ IsInjective(free) /\ ToSet(free) \subseteq D
    /\ \A t \in DOMAIN T : IsInjective(T[t].pages)
    /\ \A t, u, p : Owner(T, t, p) /\ Owner(T, u, p) => t = u
    /\ \A t, p : Owner(T, t, p) => p \in D /\ p \notin ToSet(free)

Named(T, next, stats) ==
    /\ next \in Nat /\ stats \subseteq DOMAIN T
    /\ \A t \in DOMAIN T : t < next
    /\ \A t, u \in DOMAIN T : T[t].name = T[u].name => t = u

\* A catalog and the file it is about.
Consistent(c, D, files) ==
    /\ {"next", "tables", "free", "indexes", "stats"} \subseteq DOMAIN c
    /\ OneOwner(c.tables, c.free, D)
    /\ Named(c.tables, c.next, c.stats)
    /\ DOMAIN c.indexes = files

\* The pages of the file without a gap, and well formed.
PagesOk(P) ==
    /\ \E n \in Nat : DOMAIN P = (CatalogPage + 1)..(CatalogPage + n)
    /\ \A p \in DOMAIN P : PageOk(P[p])

SpaceOk(T, fsm, P) ==
    /\ \A t, p : Owner(T, t, p) => p \in DOMAIN fsm
    /\ DOMAIN fsm \subseteq DOMAIN P
    /\ \A p \in DOMAIN fsm : fsm[p] \in Int /\ fsm[p] <= FreeSpace(P[p])

\* The catalog in memory, and the one on disk, which may be another one
\* until it is persisted.
Sound(d) ==
    /\ IsDb(d)
    /\ Consistent(d, DOMAIN d.pages, d.files)
    /\ PagesOk(d.pages)
    /\ SpaceOk(d.tables, d.fsm, d.pages)

DbOk(d) == Sound(d) /\ Consistent(d.catalog, DOMAIN d.pages, d.files)

\* Where undo has put rows.
MovesTyped(moves) == IsFiniteSet(DOMAIN moves) /\ \A rid \in DOMAIN moves : moves[rid] \in ARid

WorkTyped(w) ==
    /\ {"db", "ok", "rid", "log", "moves", "crossed"} \subseteq DOMAIN w
    /\ w.ok \in BOOLEAN /\ w.rid \in ARid /\ w.log \in Seq(ARecord)
    /\ MovesTyped(w.moves)
    /\ IsDb(w.db)

WorkOk(w) == WorkTyped(w) /\ DbOk(w.db)

\* What changes in a record at most.
SameBut(d, e, S) == DOMAIN e = DOMAIN d /\ \A x \in DOMAIN d \ S : e[x] = d[x]

\* What one row does to the storage: the tables stay, and the log.
Step(w, v) == WorkOk(v) /\ v.log = w.log /\ DOMAIN v.db.tables = DOMAIN w.db.tables

(* Pages are numbers, and the next one is new. *)
LEMMA PagesAre ==
  ASSUME NEW P, PagesOk(P)
  PROVE  /\ DOMAIN P \subseteq Nat
         /\ CatalogPage + 1 + Cardinality(DOMAIN P) \in Nat \ DOMAIN P
         /\ \A f : DOMAIN f = DOMAIN P \cup {CatalogPage + 1 + Cardinality(DOMAIN P)}
                   /\ (\A p \in DOMAIN f : PageOk(f[p])) => PagesOk(f)
  <1>1. PICK n \in Nat : DOMAIN P = (CatalogPage + 1)..(CatalogPage + n)
    BY DEF PagesOk
  <1>2. CatalogPage = 1
    BY DEF CatalogPage
  <1>3. DOMAIN P = 2..(n + 1)
    BY <1>1, <1>2
  <1>4. Cardinality(DOMAIN P) = n
    <2>1. Cardinality(2..(n + 1)) = IF 2 > n + 1 THEN 0 ELSE (n + 1) - 2 + 1
      BY FS_Interval
    <2>2. n = 0 \/ n >= 1
      OBVIOUS
    <2>3. QED
      BY <1>3, <2>1, <2>2
  <1>5. CatalogPage + 1 + Cardinality(DOMAIN P) = n + 2
    BY <1>2, <1>4
  <1>6. ASSUME NEW f, DOMAIN f = DOMAIN P \cup {n + 2}, \A p \in DOMAIN f : PageOk(f[p])
        PROVE  PagesOk(f)
    <2>1. DOMAIN f = (CatalogPage + 1)..(CatalogPage + (n + 1))
      BY <1>2, <1>3, <1>6
    <2>2. n + 1 \in Nat
      OBVIOUS
    <2>3. QED
      BY <1>6, <2>1, <2>2 DEF PagesOk
  <1>7. n + 2 \in Nat /\ n + 2 \notin DOMAIN P /\ DOMAIN P \subseteq Nat
    BY <1>3
  <1>8. QED
    BY <1>5, <1>6, <1>7

(* A page of the file is written anew, and the map hears of it or need not. *)
LEMMA PageWritten ==
  ASSUME NEW T, NEW fsm, NEW P, NEW p \in DOMAIN P, NEW page, PageOk(page),
         PagesOk(P), SpaceOk(T, fsm, P)
  PROVE  /\ PagesOk(With(P, p, page)) /\ DOMAIN With(P, p, page) = DOMAIN P
         /\ SpaceOk(T, With(fsm, p, FreeSpace(page)), With(P, p, page))
         /\ PagesOk([P EXCEPT ![p] = page])
         /\ FreeSpace(P[p]) <= FreeSpace(page) => SpaceOk(T, fsm, [P EXCEPT ![p] = page])
  <1>1. FreeSpace(page) \in Int /\ FreeSpace(P[p]) \in Int
    <2>1. page \in APage /\ P[p] \in APage
      BY DEF PageOk, PagesOk
    <2>2. QED
      BY <2>1, PageFacts DEF FreeSpace
  <1>2. DOMAIN With(P, p, page) = DOMAIN P /\ \A q \in DOMAIN P : With(P, p, page)[q] = IF q = p THEN page ELSE P[q]
    BY DEF With
  <1>3. PagesOk(With(P, p, page))
    BY <1>2 DEF PagesOk
  <1>4. PagesOk([P EXCEPT ![p] = page])
    BY DEF PagesOk
  <1>5. SpaceOk(T, With(fsm, p, FreeSpace(page)), With(P, p, page))
    <2> DEFINE g == With(fsm, p, FreeSpace(page))
    <2>1. DOMAIN g = DOMAIN fsm \cup {p} /\ \A q \in DOMAIN g : g[q] = IF q = p THEN FreeSpace(page) ELSE fsm[q]
      BY DEF With
    <2> HIDE DEF g
    <2>2. /\ DOMAIN fsm \subseteq DOMAIN P
          /\ \A t, q : Owner(T, t, q) => q \in DOMAIN fsm
          /\ \A q \in DOMAIN fsm : fsm[q] \in Int /\ fsm[q] <= FreeSpace(P[q])
      BY DEF SpaceOk
    <2>3. \A q \in DOMAIN g : g[q] \in Int /\ g[q] <= FreeSpace(With(P, p, page)[q])
      <3> SUFFICES ASSUME NEW q \in DOMAIN g PROVE g[q] \in Int /\ g[q] <= FreeSpace(With(P, p, page)[q])
        OBVIOUS
      <3>1. CASE q = p
        BY <1>1, <1>2, <2>1, <3>1
      <3>2. CASE q # p
        BY <1>2, <2>1, <2>2, <3>2
      <3>3. QED
        BY <3>1, <3>2
    <2>4. QED
      BY <1>2, <2>1, <2>2, <2>3 DEF SpaceOk, g
  <1>6. ASSUME FreeSpace(P[p]) <= FreeSpace(page) PROVE SpaceOk(T, fsm, [P EXCEPT ![p] = page])
    <2> DEFINE Q == [P EXCEPT ![p] = page]
    <2>1. DOMAIN Q = DOMAIN P /\ \A q \in DOMAIN P : Q[q] = IF q = p THEN page ELSE P[q]
      OBVIOUS
    <2> HIDE DEF Q
    <2>2. \A q \in DOMAIN fsm : fsm[q] \in Int /\ fsm[q] <= FreeSpace(Q[q])
      <3> SUFFICES ASSUME NEW q \in DOMAIN fsm PROVE fsm[q] \in Int /\ fsm[q] <= FreeSpace(Q[q])
        OBVIOUS
      <3>1. fsm[q] \in Int /\ fsm[q] <= FreeSpace(P[q]) /\ q \in DOMAIN P
        BY DEF SpaceOk
      <3>2. CASE q = p
        BY <1>1, <1>6, <2>1, <3>1, <3>2
      <3>3. CASE q # p
        BY <2>1, <3>1, <3>3
      <3>4. QED
        BY <3>2, <3>3
    <2>3. QED
      BY <2>1, <2>2 DEF SpaceOk, Q
  <1>7. QED
    BY <1>2, <1>3, <1>4, <1>5, <1>6

(* A sequence with one more element. *)
LEMMA Appended ==
  ASSUME NEW A, NEW s \in Seq(A), NEW p \in A
  PROVE  /\ Append(s, p) \in Seq(A)
         /\ \A q : q \in ToSet(Append(s, p)) <=> q \in ToSet(s) \/ q = p
         /\ IsInjective(s) /\ p \notin ToSet(s) => IsInjective(Append(s, p))
  <1> DEFINE n == Len(s)
             a == Append(s, p)
  <1>1. /\ n \in Nat /\ DOMAIN s = 1..n
        /\ a \in Seq(A) /\ DOMAIN a = 1..(n + 1)
        /\ \A j \in 1..n : a[j] = s[j]
        /\ a[n + 1] = p
    OBVIOUS
  <1> HIDE DEF n, a
  <1>2. \A q : q \in ToSet(a) <=> q \in ToSet(s) \/ q = p
    <2>1. \A j \in 1..(n + 1) : j \in 1..n \/ j = n + 1
      BY <1>1
    <2>2. \A j \in 1..n : j \in 1..(n + 1)
      BY <1>1
    <2>3. n + 1 \in 1..(n + 1)
      BY <1>1
    <2>4. QED
      BY <1>1, <2>1, <2>2, <2>3 DEF ToSet
  <1>3. ASSUME IsInjective(s), p \notin ToSet(s) PROVE IsInjective(a)
    <2>1. \A j \in 1..n : s[j] # p
      BY <1>1, <1>3 DEF ToSet
    <2>2. \A j, k \in 1..n : s[j] = s[k] => j = k
      BY <1>1, <1>3 DEF IsInjective
    <2>3. \A j \in 1..(n + 1) : j \in 1..n \/ j = n + 1
      BY <1>1
    <2>4. \A j, k \in 1..(n + 1) : a[j] = a[k] => j = k
      BY <1>1, <2>1, <2>2, <2>3
    <2>5. QED
      BY <1>1, <2>4 DEF IsInjective
  <1>4. QED
    BY <1>1, <1>2, <1>3 DEF a

(* A sequence without its last element. *)
LEMMA Shortened ==
  ASSUME NEW s \in Seq(Nat), s # <<>>, IsInjective(s)
  PROVE  /\ Front(s) \in Seq(Nat) /\ IsInjective(Front(s))
         /\ Last(s) \in ToSet(s) /\ Last(s) \in Nat /\ Last(s) \notin ToSet(Front(s))
         /\ ToSet(Front(s)) \subseteq ToSet(s)
  <1> DEFINE n == Len(s)
             f == Front(s)
  <1>1. n \in Nat \ {0} /\ DOMAIN s = 1..n
    OBVIOUS
  <1>2. f = SubSeq(s, 1, n - 1)
    BY DEF Front
  <1>3. f \in Seq(Nat) /\ Len(f) = n - 1 /\ \A j \in 1..(n - 1) : f[j] = s[j]
    BY <1>1, <1>2
  <1>4. DOMAIN f = 1..(n - 1)
    BY <1>3
  <1> HIDE DEF f, n
  <1>5. \A j \in 1..(n - 1) : j \in 1..n /\ j # n
    BY <1>1
  <1>6. n \in 1..n /\ Last(s) = s[n] /\ Last(s) \in Nat
    BY <1>1 DEF Last, n
  <1>7. IsInjective(f)
    BY <1>1, <1>3, <1>4, <1>5 DEF IsInjective
  <1>8. ToSet(f) \subseteq ToSet(s) /\ Last(s) \in ToSet(s)
    BY <1>1, <1>3, <1>4, <1>5, <1>6 DEF ToSet
  <1>9. Last(s) \notin ToSet(f)
    BY <1>1, <1>3, <1>4, <1>5, <1>6 DEF ToSet, IsInjective
  <1>10. QED
    BY <1>3, <1>6, <1>7, <1>8, <1>9 DEF f

WithPage(T, t, p) == [T EXCEPT ![t].pages = Append(T[t].pages, p)]

(* attach_page_to_table: one owner more. *)
LEMMA Attached ==
  ASSUME NEW T, TablesTyped(T), NEW t \in DOMAIN T, NEW p \in Nat
  PROVE  /\ TablesTyped(WithPage(T, t, p)) /\ DOMAIN WithPage(T, t, p) = DOMAIN T
         /\ \A u, q : Owner(WithPage(T, t, p), u, q) <=> Owner(T, u, q) \/ (u = t /\ q = p)
         /\ \A u \in DOMAIN T : /\ WithPage(T, t, p)[u].pk = T[u].pk
                                /\ WithPage(T, t, p)[u].name = T[u].name
         /\ (\A u \in DOMAIN T : IsInjective(T[u].pages)) /\ p \notin ToSet(T[t].pages)
              => \A u \in DOMAIN T : IsInjective(WithPage(T, t, p)[u].pages)
  <1> DEFINE U == WithPage(T, t, p)
             s == T[t].pages
  <1>1. DOMAIN T \subseteq Nat
        /\ \A u \in DOMAIN T : {"name", "pk", "pages"} \subseteq DOMAIN T[u] /\ T[u].pages \in Seq(Nat)
    BY DEF TablesTyped
  <1>2. U = [T EXCEPT ![t] = [T[t] EXCEPT !.pages = Append(s, p)]]
    BY DEF WithPage
  <1>3. /\ DOMAIN U = DOMAIN T /\ \A u \in DOMAIN T : u # t => U[u] = T[u]
        /\ U[t] = [T[t] EXCEPT !.pages = Append(s, p)]
    BY <1>2
  <1>4. /\ DOMAIN U[t] = DOMAIN T[t] /\ U[t].pages = Append(s, p)
        /\ U[t].name = T[t].name /\ U[t].pk = T[t].pk
    BY <1>1, <1>3
  <1>5. s \in Seq(Nat)
    BY <1>1
  <1>6. /\ Append(s, p) \in Seq(Nat)
        /\ \A q : q \in ToSet(Append(s, p)) <=> q \in ToSet(s) \/ q = p
        /\ IsInjective(s) /\ p \notin ToSet(s) => IsInjective(Append(s, p))
    BY <1>5, Appended
  <1> HIDE DEF U
  <1>7. TablesTyped(U)
    BY <1>1, <1>3, <1>4, <1>6 DEF TablesTyped
  <1>8. \A u, q : Owner(U, u, q) <=> Owner(T, u, q) \/ (u = t /\ q = p)
    BY <1>3, <1>4, <1>6 DEF Owner
  <1>9. \A u \in DOMAIN T : U[u].pk = T[u].pk /\ U[u].name = T[u].name
    BY <1>3, <1>4
  <1>10. ASSUME \A u \in DOMAIN T : IsInjective(T[u].pages), p \notin ToSet(T[t].pages)
         PROVE  \A u \in DOMAIN T : IsInjective(U[u].pages)
    BY <1>3, <1>4, <1>6, <1>10
  <1>11. QED
    BY <1>3, <1>7, <1>8, <1>9, <1>10 DEF U

(* Nothing but the trees, and whether all went well. *)
LEMMA TreesOnly ==
  ASSUME NEW w, WorkOk(w), NEW v, SameBut(w, v, {"db", "ok"}), v.ok \in BOOLEAN,
         SameBut(w.db, v.db, {"trees"})
  PROVE  Step(w, v)
  <1>1. WorkTyped(w) /\ IsDb(w.db) /\ DbOk(w.db)
    BY DEF WorkOk, WorkTyped
  <1>2. /\ DOMAIN v.db = DOMAIN w.db
        /\ v.db.next = w.db.next /\ v.db.tables = w.db.tables /\ v.db.free = w.db.free
        /\ v.db.fsm = w.db.fsm /\ v.db.indexes = w.db.indexes
        /\ v.db.stats = w.db.stats /\ v.db.pages = w.db.pages /\ v.db.files = w.db.files
        /\ v.db.catalog = w.db.catalog
    BY <1>1 DEF SameBut, IsDb
  <1>3. DOMAIN v = DOMAIN w /\ v.log = w.log /\ v.rid = w.rid /\ v.moves = w.moves
    BY <1>1 DEF SameBut, WorkTyped
  <1>4. WorkTyped(v)
    BY <1>1, <1>2, <1>3 DEF WorkTyped, IsDb
  <1>5. DbOk(v.db)
    BY <1>1, <1>2 DEF DbOk, Sound, IsDb, Consistent
  <1>6. QED
    BY <1>2, <1>3, <1>4, <1>5 DEF Step, WorkOk

(* persist_catalog, of a state and of what is left when it does not fit. *)
LEMMA Persists ==
  ASSUME NEW w, NEW undone, WorkTyped(w), Sound(w.db), WorkOk(undone)
  PROVE  /\ WorkOk(Persist(w, undone))
         /\ \/ Persist(w, undone).log = w.log /\ Persist(w, undone).db.tables = w.db.tables
            \/ Persist(w, undone).log = undone.log /\ Persist(w, undone).db = undone.db
  <1> DEFINE v == Persist(w, undone)
             c == CatalogImage(w.db)
  <1>1. CASE CatalogSize(w.db) <= Capacity
    <2>1. v = [w EXCEPT !.db = [w.db EXCEPT !.catalog = c]]
      BY <1>1 DEF Persist
    <2>2. SameBut(w, v, {"db"}) /\ SameBut(w.db, v.db, {"catalog"}) /\ v.db.catalog = c
      BY <2>1 DEF SameBut, WorkTyped, IsDb
    <2> HIDE DEF v
    <2>3. WorkTyped(v) /\ v.log = w.log
      BY <2>2 DEF WorkTyped, IsDb, SameBut
    <2>4. /\ v.db.next = w.db.next /\ v.db.tables = w.db.tables /\ v.db.free = w.db.free
          /\ v.db.fsm = w.db.fsm /\ v.db.indexes = w.db.indexes
          /\ v.db.stats = w.db.stats /\ v.db.pages = w.db.pages /\ v.db.files = w.db.files
      BY <2>2 DEF SameBut, Sound, IsDb
    <2>5. Sound(v.db)
      BY <2>2, <2>3, <2>4 DEF Sound, Consistent, WorkTyped, IsDb
    <2>6. Consistent(c, DOMAIN w.db.pages, w.db.files)
      BY DEF Sound, Consistent, CatalogImage
    <2>7. WorkOk(v)
      BY <2>2, <2>3, <2>4, <2>5, <2>6 DEF WorkOk, DbOk
    <2>8. QED
      BY <2>3, <2>4, <2>7 DEF v
  <1>2. CASE ~ (CatalogSize(w.db) <= Capacity)
    <2>1. v = [undone EXCEPT !.ok = FALSE]
      BY <1>2 DEF Persist, Fail
    <2>2. SameBut(undone, v, {"ok"}) /\ v.ok = FALSE /\ v.db = undone.db
      BY <2>1 DEF SameBut, WorkOk, WorkTyped
    <2> HIDE DEF v
    <2>3. Step(undone, v)
      BY <2>2, TreesOnly DEF SameBut
    <2>4. QED
      BY <2>2, <2>3 DEF v, Step
  <1>3. QED
    BY <1>1, <1>2

(* Giving up. *)
LEMMA Fails ==
  ASSUME NEW w, WorkOk(w)
  PROVE  Step(w, Fail(w)) /\ ~ Fail(w).ok /\ Fail(w).db = w.db
  <1> DEFINE v == [w EXCEPT !.ok = FALSE]
  <1>1. SameBut(w, v, {"ok"}) /\ v.ok = FALSE /\ v.db = w.db
    BY DEF SameBut, WorkOk, WorkTyped
  <1> HIDE DEF v
  <1>2. Step(w, v)
    BY <1>1, TreesOnly DEF SameBut
  <1>3. QED
    BY <1>1, <1>2 DEF v, Fail

(* Steps follow each other. *)
LEMMA Steps ==
  /\ \A w : WorkOk(w) => Step(w, w)
  /\ \A w, v, x : Step(w, v) /\ Step(v, x) => Step(w, x)
  BY DEF Step

(* Nothing but what is on the pages, as long as the map is told of it. *)
LEMMA PagesOnly ==
  ASSUME NEW w, WorkOk(w), NEW v, SameBut(w, v, {"db", "rid"}), v.rid \in ARid,
         SameBut(w.db, v.db, {"pages", "fsm"}), DOMAIN v.db.pages = DOMAIN w.db.pages,
         PagesOk(v.db.pages), SpaceOk(w.db.tables, v.db.fsm, v.db.pages)
  PROVE  Step(w, v)
  <1>1. WorkTyped(w) /\ IsDb(w.db) /\ DbOk(w.db)
    BY DEF WorkOk, WorkTyped
  <1>2. /\ DOMAIN v.db = DOMAIN w.db
        /\ v.db.next = w.db.next /\ v.db.tables = w.db.tables /\ v.db.free = w.db.free
        /\ v.db.indexes = w.db.indexes /\ v.db.stats = w.db.stats /\ v.db.files = w.db.files
        /\ v.db.catalog = w.db.catalog
    BY <1>1 DEF SameBut, IsDb
  <1>3. DOMAIN v = DOMAIN w /\ v.log = w.log /\ v.ok = w.ok /\ v.moves = w.moves
    BY <1>1 DEF SameBut, WorkTyped
  <1>4. WorkTyped(v)
    BY <1>1, <1>2, <1>3 DEF WorkTyped, IsDb
  <1>5. DbOk(v.db)
    BY <1>1, <1>2 DEF DbOk, Sound, IsDb, Consistent
  <1>6. QED
    BY <1>2, <1>3, <1>4, <1>5 DEF Step, WorkOk

(* A page of a table is written: the map is told, or has promised no more. *)
LEMMA Rewrites ==
  ASSUME NEW w, WorkOk(w), NEW p \in DOMAIN w.db.pages, NEW page, PageOk(page)
  PROVE  /\ Step(w, Rewrite(w, p, page))
         /\ \A rid \in ARid : Step(w, [Rewrite(w, p, page) EXCEPT !.rid = rid])
         /\ FreeSpace(w.db.pages[p]) <= FreeSpace(page) => Step(w, [w EXCEPT !.db.pages[p] = page])
  <1> DEFINE P == w.db.pages
             T == w.db.tables
             g == w.db.fsm
             Q == With(P, p, page)
             h == With(g, p, FreeSpace(page))
             R == [P EXCEPT ![p] = page]
  <1>1. /\ WorkTyped(w) /\ IsDb(w.db) /\ PagesOk(P) /\ SpaceOk(T, g, P)
    BY DEF WorkOk, WorkTyped, DbOk, Sound
  <1>2. R = [q \in DOMAIN P |-> IF q = p THEN page ELSE P[q]]
    OBVIOUS
  <1>3. DOMAIN R = DOMAIN P
    BY <1>2
  <1> HIDE DEF P, T, g
  <1>4. /\ PagesOk(Q) /\ DOMAIN Q = DOMAIN P
        /\ SpaceOk(T, h, Q)
        /\ PagesOk(R)
        /\ FreeSpace(P[p]) <= FreeSpace(page) => SpaceOk(T, g, R)
    BY <1>1, PageWritten DEF P
  <1>5. ASSUME NEW rid \in ARid PROVE Step(w, [Rewrite(w, p, page) EXCEPT !.rid = rid])
    <2> DEFINE v == [Rewrite(w, p, page) EXCEPT !.rid = rid]
    <2>1. v = [w EXCEPT !.db = [w.db EXCEPT !.pages = Q, !.fsm = h], !.rid = rid]
      BY <1>1 DEF Rewrite, WorkTyped, IsDb, P, g
    <2> HIDE DEF Q, h, R
    <2>2. SameBut(w, v, {"db", "rid"}) /\ SameBut(w.db, v.db, {"pages", "fsm"})
          /\ v.rid = rid /\ v.db.pages = Q /\ v.db.fsm = h
      BY <1>1, <2>1 DEF SameBut, WorkTyped, IsDb
    <2> HIDE DEF v
    <2>3. Step(w, v)
      BY <1>4, <2>2, PagesOnly DEF P, T
    <2>4. QED
      BY <2>3 DEF v
  <1>6. Step(w, Rewrite(w, p, page))
    <2> DEFINE v == Rewrite(w, p, page)
    <2>1. v = [w EXCEPT !.db = [w.db EXCEPT !.pages = Q, !.fsm = h]]
      BY <1>1 DEF Rewrite, WorkTyped, IsDb, P, g
    <2> HIDE DEF Q, h, R
    <2>2. SameBut(w, v, {"db", "rid"}) /\ SameBut(w.db, v.db, {"pages", "fsm"})
          /\ v.rid \in ARid /\ v.db.pages = Q /\ v.db.fsm = h
      BY <1>1, <2>1 DEF SameBut, WorkTyped, IsDb
    <2> HIDE DEF v
    <2>3. Step(w, v)
      BY <1>4, <2>2, PagesOnly DEF P, T
    <2>4. QED
      BY <2>3 DEF v
  <1>7. ASSUME FreeSpace(P[p]) <= FreeSpace(page) PROVE Step(w, [w EXCEPT !.db.pages[p] = page])
    <2> DEFINE v == [w EXCEPT !.db.pages[p] = page]
    <2>1. v = [w EXCEPT !.db = [w.db EXCEPT !.pages = R]]
      BY DEF P
    <2> HIDE DEF Q, h, R
    <2>2. SameBut(w, v, {"db", "rid"}) /\ SameBut(w.db, v.db, {"pages", "fsm"})
          /\ v.rid \in ARid /\ v.db.pages = R /\ v.db.fsm = g
      BY <1>1, <2>1 DEF SameBut, WorkTyped, IsDb, g
    <2> HIDE DEF v
    <2>3. Step(w, v)
      BY <1>3, <1>4, <1>7, <2>2, PagesOnly DEF P, T, R
    <2>4. QED
      BY <2>3 DEF v
  <1>8. QED
    BY <1>5, <1>6, <1>7 DEF P

(* A page that no table has, filled with a row, the free list being as it is
   or shorter. *)
FreshPage(row) == Write(EmptyPage, 1, row)

FilledFrom(w, v, p, row, free) ==
    /\ SameBut(w, v, {"db", "rid"}) /\ v.rid = <<p, 1>>
    /\ SameBut(w.db, v.db, {"pages", "fsm", "free"})
    /\ v.db.free = free
    /\ v.db.pages = With(w.db.pages, p, FreshPage(row))
    /\ v.db.fsm = With(w.db.fsm, p, FreeSpace(FreshPage(row)))

Unowned(d, p) ==
    /\ p \in Nat /\ \A t : ~ Owner(d.tables, t, p)
    /\ p \in DOMAIN d.pages \/ p = CatalogPage + 1 + Cardinality(DOMAIN d.pages)

(* A page of nobody is filled with a row: the map knows it, and it is still nobody's. *)
LEMMA FilledOk ==
  ASSUME NEW w, WorkOk(w), NEW row \in ARow, row.len <= MaxLenForFreshPage,
         NEW p, Unowned(w.db, p), NEW free \in Seq(Nat), IsInjective(free),
         ToSet(free) \subseteq ToSet(w.db.free), NEW v, FilledFrom(w, v, p, row, free)
  PROVE  /\ Step(w, v) /\ v.db.tables = w.db.tables /\ v.db.free = free
         /\ p \in DOMAIN v.db.fsm /\ p \in DOMAIN v.db.pages /\ p \in Nat
  <1> DEFINE P == w.db.pages
             T == w.db.tables
             g == w.db.fsm
             Q == v.db.pages
             h == v.db.fsm
             fresh == FreshPage(row)
  <1>1. /\ WorkTyped(w) /\ IsDb(w.db) /\ DbOk(w.db) /\ PagesOk(P) /\ SpaceOk(T, g, P)
        /\ OneOwner(T, w.db.free, DOMAIN P)
        /\ p \in Nat /\ (\A t : ~ Owner(T, t, p))
        /\ (p \in DOMAIN P \/ p = CatalogPage + 1 + Cardinality(DOMAIN P))
    BY DEF WorkOk, WorkTyped, DbOk, Sound, Consistent, Unowned
  <1>2. PageOk(fresh) /\ FreeSpace(fresh) \in Int
    <2>1. PageOk(fresh)
      BY FreshOk DEF FreshPage
    <2>2. fresh \in APage
      BY <2>1 DEF PageOk
    <2>3. QED
      BY <2>1, <2>2, PageFacts DEF FreeSpace
  <1>3. /\ Q = With(P, p, fresh) /\ h = With(g, p, FreeSpace(fresh)) /\ v.db.free = free
        /\ SameBut(w, v, {"db", "rid"}) /\ v.rid = <<p, 1>>
        /\ SameBut(w.db, v.db, {"pages", "fsm", "free"})
    BY DEF FilledFrom
  <1> HIDE DEF fresh
  <1>4. /\ DOMAIN Q = DOMAIN P \cup {p} /\ Q[p] = fresh
        /\ \A q \in DOMAIN P : q # p => Q[q] = P[q]
    BY <1>3 DEF With
  <1>5. /\ DOMAIN h = DOMAIN g \cup {p} /\ h[p] = FreeSpace(fresh)
        /\ \A q \in DOMAIN g : q # p => h[q] = g[q]
    BY <1>3 DEF With
  <1>6. /\ DOMAIN v.db = DOMAIN w.db
        /\ v.db.next = w.db.next /\ v.db.tables = T
        /\ v.db.indexes = w.db.indexes /\ v.db.stats = w.db.stats /\ v.db.files = w.db.files
        /\ v.db.catalog = w.db.catalog
    BY <1>1, <1>3 DEF SameBut, IsDb
  <1>7. DOMAIN v = DOMAIN w /\ v.log = w.log /\ v.ok = w.ok /\ v.moves = w.moves
    BY <1>1, <1>3 DEF SameBut, WorkTyped
  <1>8. v.rid \in ARid
    BY <1>1, <1>3 DEF ARid
  <1>9. WorkTyped(v)
    BY <1>1, <1>6, <1>7, <1>8 DEF WorkTyped, IsDb
  <1>10. Consistent(w.db, DOMAIN P, w.db.files) /\ Consistent(w.db.catalog, DOMAIN P, w.db.files)
    BY <1>1 DEF DbOk, Sound
  <1> HIDE DEF P, Q, g, h, T
  <1>11. \A q \in DOMAIN Q : PageOk(Q[q])
    BY <1>1, <1>2, <1>4 DEF PagesOk
  <1>12. PagesOk(Q)
    <2>1. CASE p \in DOMAIN P
      <3>1. DOMAIN Q = DOMAIN P
        BY <1>4, <2>1
      <3>2. QED
        BY <1>1, <1>11, <3>1 DEF PagesOk
    <2>2. CASE p = CatalogPage + 1 + Cardinality(DOMAIN P)
      BY <1>1, <1>4, <1>11, <2>2, PagesAre
    <2>3. QED
      BY <1>1, <2>1, <2>2
  <1>13. SpaceOk(T, h, Q)
    <2>1. /\ \A t, q : Owner(T, t, q) => q \in DOMAIN g
          /\ DOMAIN g \subseteq DOMAIN P
          /\ \A q \in DOMAIN g : g[q] \in Int /\ g[q] <= FreeSpace(P[q])
      BY <1>1 DEF SpaceOk
    <2>2. \A q \in DOMAIN h : h[q] \in Int /\ h[q] <= FreeSpace(Q[q])
      <3> SUFFICES ASSUME NEW q \in DOMAIN h PROVE h[q] \in Int /\ h[q] <= FreeSpace(Q[q])
        OBVIOUS
      <3>1. CASE q = p
        BY <1>2, <1>4, <1>5, <3>1
      <3>2. CASE q # p
        <4>1. q \in DOMAIN g /\ q \in DOMAIN P
          BY <1>5, <2>1, <3>2
        <4>2. QED
          BY <1>4, <1>5, <2>1, <3>2, <4>1
      <3>3. QED
        BY <3>1, <3>2
    <2>3. QED
      BY <1>4, <1>5, <2>1, <2>2 DEF SpaceOk
  <1>14. OneOwner(T, free, DOMAIN Q)
    BY <1>1, <1>4 DEF OneOwner
  <1>15. Consistent(v.db, DOMAIN Q, v.db.files)
    BY <1>1, <1>3, <1>6, <1>10, <1>14 DEF Consistent, IsDb, T
  <1>16. Consistent(v.db.catalog, DOMAIN Q, v.db.files)
    <2>1. \A U, f : OneOwner(U, f, DOMAIN P) => OneOwner(U, f, DOMAIN Q)
      BY <1>4 DEF OneOwner
    <2>2. QED
      BY <1>6, <1>10, <2>1 DEF Consistent
  <1>17. DbOk(v.db)
    BY <1>6, <1>9, <1>12, <1>13, <1>15, <1>16 DEF DbOk, Sound, WorkTyped, Q, h, T
  <1>18. QED
    BY <1>1, <1>3, <1>4, <1>5, <1>6, <1>7, <1>9, <1>17 DEF Step, WorkOk, T, Q, h

(* The page gets an owner, if the catalog has room for that. *)
LEMMA AttachOk ==
  ASSUME NEW filled, WorkOk(filled), NEW t \in DOMAIN filled.db.tables, NEW p \in Nat,
         p \in DOMAIN filled.db.fsm, p \in DOMAIN filled.db.pages, p \notin ToSet(filled.db.free),
         \A u : ~ Owner(filled.db.tables, u, p),
         NEW undone, WorkOk(undone), undone.log = filled.log,
         DOMAIN undone.db.tables = DOMAIN filled.db.tables
  PROVE  Step(filled, Attach(filled, t, p, undone))
  <1> DEFINE T == filled.db.tables
             U == WithPage(T, t, p)
             x == [filled EXCEPT !.db.tables[t].pages = Append(@, p)]
             D == DOMAIN filled.db.pages
  <1>1. /\ WorkTyped(filled) /\ IsDb(filled.db) /\ PagesOk(filled.db.pages)
        /\ SpaceOk(T, filled.db.fsm, filled.db.pages)
        /\ Consistent(filled.db, D, filled.db.files)
    BY DEF WorkOk, WorkTyped, DbOk, Sound
  <1>2. OneOwner(T, filled.db.free, D) /\ Named(T, filled.db.next, filled.db.stats)
    BY <1>1 DEF Consistent
  <1>3. x = [filled EXCEPT !.db = [filled.db EXCEPT !.tables = U]]
    BY DEF WithPage
  <1> HIDE DEF T, U
  <1>4. /\ TablesTyped(T) /\ t \in DOMAIN T /\ p \notin ToSet(T[t].pages)
        /\ \A u \in DOMAIN T : IsInjective(T[u].pages)
    BY <1>2 DEF OneOwner, Owner, T
  <1>5. /\ TablesTyped(U) /\ DOMAIN U = DOMAIN T
        /\ \A u, q : Owner(U, u, q) <=> Owner(T, u, q) \/ (u = t /\ q = p)
        /\ \A u \in DOMAIN T : U[u].pk = T[u].pk /\ U[u].name = T[u].name
    BY <1>4, Attached DEF U
  <1>6. \A u \in DOMAIN T : IsInjective(U[u].pages)
    BY <1>4, Attached DEF U
  <1>7. SameBut(filled, x, {"db"}) /\ SameBut(filled.db, x.db, {"tables"}) /\ x.db.tables = U
    BY <1>1, <1>3 DEF SameBut, WorkTyped, IsDb
  <1> HIDE DEF x
  <1>8. /\ DOMAIN x.db = DOMAIN filled.db
        /\ x.db.next = filled.db.next /\ x.db.free = filled.db.free /\ x.db.fsm = filled.db.fsm
        /\ x.db.indexes = filled.db.indexes /\ x.db.stats = filled.db.stats
        /\ x.db.files = filled.db.files /\ x.db.pages = filled.db.pages
    BY <1>1, <1>7 DEF SameBut, IsDb
  <1>9. WorkTyped(x) /\ x.log = filled.log
    BY <1>1, <1>7, <1>8 DEF WorkTyped, IsDb, SameBut
  <1>10. OneOwner(U, filled.db.free, D)
    <2>1. \A u, y, q : Owner(U, u, q) /\ Owner(U, y, q) => u = y
      <3>1. \A u : ~ Owner(T, u, p)
        BY DEF T
      <3>2. QED
        BY <1>2, <1>5, <3>1 DEF OneOwner
    <2>2. \A u, q : Owner(U, u, q) => q \in D /\ q \notin ToSet(filled.db.free)
      BY <1>2, <1>5 DEF OneOwner
    <2>3. QED
      BY <1>2, <1>5, <1>6, <2>1, <2>2 DEF OneOwner
  <1>11. Named(U, filled.db.next, filled.db.stats)
    BY <1>2, <1>5 DEF Named
  <1>12. SpaceOk(U, filled.db.fsm, filled.db.pages)
    BY <1>1, <1>5 DEF SpaceOk
  <1>13. Sound(x.db)
    BY <1>1, <1>7, <1>8, <1>9, <1>10, <1>11, <1>12 DEF Sound, Consistent, WorkTyped, IsDb
  <1>14. WorkOk(Persist(x, undone)) /\ \/ Persist(x, undone).log = x.log /\ Persist(x, undone).db.tables = x.db.tables
                                       \/ Persist(x, undone).log = undone.log /\ Persist(x, undone).db = undone.db
    BY <1>9, <1>13, Persists
  <1>15. Attach(filled, t, p, undone) = Persist(x, undone)
    BY DEF Attach, x
  <1>16. QED
    BY <1>5, <1>7, <1>9, <1>14, <1>15 DEF Step, T

(* A row on a page of its own: one of the free list, or a new one. *)
LEMMA OnFreshPageOk ==
  ASSUME NEW w, WorkOk(w), NEW row \in ARow, row.len <= MaxLenForFreshPage,
         NEW t \in DOMAIN w.db.tables
  PROVE  Step(w, OnFreshPage(w, t, row))
  <1> DEFINE free == w.db.free
             v == OnFreshPage(w, t, row)
  <1>1. /\ WorkTyped(w) /\ IsDb(w.db) /\ PagesOk(w.db.pages)
        /\ OneOwner(w.db.tables, free, DOMAIN w.db.pages)
    BY DEF WorkOk, WorkTyped, DbOk, Sound, Consistent
  <1>2. free \in Seq(Nat) /\ IsInjective(free) /\ ToSet(free) \subseteq DOMAIN w.db.pages
        /\ \A u, q : Owner(w.db.tables, u, q) => q \in DOMAIN w.db.pages /\ q \notin ToSet(free)
    BY <1>1 DEF OneOwner
  <1>3. ASSUME NEW x, SameBut(w, x, {"db"}), SameBut(w.db, x.db, {"free"}), NEW p
        PROVE  FilledFrom(w, FillFresh(x, p, row), p, row, x.db.free)
    <2> DEFINE y == FillFresh(x, p, row)
               pages == With(x.db.pages, p, FreshPage(row))
               fsm == With(x.db.fsm, p, FreeSpace(FreshPage(row)))
    <2>1. y = [x EXCEPT !.db = [x.db EXCEPT !.pages = pages, !.fsm = fsm], !.rid = <<p, 1>>]
      BY <1>1, <1>3 DEF FillFresh, Rewrite, FreshPage, WorkTyped, IsDb, SameBut
    <2>2. x.db.pages = w.db.pages /\ x.db.fsm = w.db.fsm
      BY <1>1, <1>3 DEF IsDb, SameBut
    <2>3. pages = With(w.db.pages, p, FreshPage(row)) /\ fsm = With(w.db.fsm, p, FreeSpace(FreshPage(row)))
      BY <2>2
    <2> HIDE DEF y, pages, fsm
    <2>4. /\ SameBut(x, y, {"db", "rid"}) /\ y.rid = <<p, 1>> /\ SameBut(x.db, y.db, {"pages", "fsm"})
          /\ y.db.pages = pages /\ y.db.fsm = fsm
      BY <1>1, <1>3, <2>1 DEF SameBut, WorkTyped, IsDb
    <2>5. y.db.free = x.db.free
      BY <1>1, <1>3, <2>4 DEF SameBut, IsDb
    <2>6. SameBut(w, y, {"db", "rid"}) /\ SameBut(w.db, y.db, {"pages", "fsm", "free"})
      BY <1>3, <2>4 DEF SameBut
    <2>7. QED
      BY <2>3, <2>4, <2>5, <2>6 DEF FilledFrom, y
  <1>4. CASE free # <<>>
    <2> DEFINE p == Last(free)
               x == [w EXCEPT !.db = [w.db EXCEPT !.free = Front(free)]]
               filled == FillFresh(x, p, row)
               undone == [filled EXCEPT !.db = [filled.db EXCEPT !.free = free]]
    <2>1. v = Attach(filled, t, p, undone)
      BY <1>4 DEF OnFreshPage
    <2>2. /\ Front(free) \in Seq(Nat) /\ IsInjective(Front(free)) /\ p \in ToSet(free) /\ p \in Nat
          /\ p \notin ToSet(Front(free)) /\ ToSet(Front(free)) \subseteq ToSet(free)
      BY <1>2, <1>4, Shortened
    <2>3. SameBut(w, x, {"db"}) /\ SameBut(w.db, x.db, {"free"}) /\ x.db.free = Front(free)
      BY <1>1 DEF WorkTyped, IsDb, SameBut
    <2> HIDE DEF x
    <2>4. FilledFrom(w, filled, p, row, Front(free))
      BY <1>3, <2>3
    <2> HIDE DEF filled
    <2>5. SameBut(filled, undone, {"db"}) /\ SameBut(filled.db, undone.db, {"free"}) /\ undone.db.free = free
      BY <1>1, <2>4 DEF WorkTyped, IsDb, SameBut, FilledFrom
    <2> HIDE DEF undone
    <2>6. FilledFrom(w, undone, p, row, free)
      <3>1. undone.rid = filled.rid /\ undone.db.pages = filled.db.pages /\ undone.db.fsm = filled.db.fsm
        BY <1>1, <2>4, <2>5 DEF SameBut, FilledFrom, WorkTyped, IsDb
      <3>2. SameBut(w, undone, {"db", "rid"}) /\ SameBut(w.db, undone.db, {"pages", "fsm", "free"})
        BY <2>4, <2>5 DEF SameBut, FilledFrom
      <3>3. QED
        BY <2>4, <2>5, <3>1, <3>2 DEF FilledFrom
    <2>7. Unowned(w.db, p) /\ \A u : ~ Owner(w.db.tables, u, p)
      BY <1>2, <2>2 DEF Unowned
    <2> HIDE DEF p, v, free
    <2>8. /\ Step(w, filled) /\ filled.db.tables = w.db.tables /\ filled.db.free = Front(free)
          /\ p \in DOMAIN filled.db.fsm /\ p \in DOMAIN filled.db.pages /\ p \in Nat
      <3> DEFINE shorter == Front(free)
      <3>1. shorter \in Seq(Nat) /\ IsInjective(shorter) /\ ToSet(shorter) \subseteq ToSet(w.db.free)
        BY <2>2 DEF free
      <3>2. FilledFrom(w, filled, p, row, shorter)
        BY <2>4
      <3> HIDE DEF shorter
      <3>3. /\ Step(w, filled) /\ filled.db.tables = w.db.tables /\ filled.db.free = shorter
            /\ p \in DOMAIN filled.db.fsm /\ p \in DOMAIN filled.db.pages /\ p \in Nat
        BY <2>7, <3>1, <3>2, FilledOk
      <3>4. QED
        BY <3>3 DEF shorter
    <2>9. Step(w, undone)
      BY <1>2, <2>6, <2>7, FilledOk DEF free
    <2>10. /\ WorkOk(filled) /\ filled.log = w.log /\ t \in DOMAIN filled.db.tables
           /\ WorkOk(undone) /\ undone.log = filled.log
           /\ DOMAIN undone.db.tables = DOMAIN filled.db.tables
           /\ p \notin ToSet(filled.db.free) /\ \A u : ~ Owner(filled.db.tables, u, p)
      BY <2>2, <2>7, <2>8, <2>9 DEF Step
    <2>11. Step(filled, Attach(filled, t, p, undone))
      BY <2>2, <2>8, <2>10, AttachOk
    <2>12. QED
      BY <2>1, <2>8, <2>11, Steps DEF v
  <1>5. CASE free = <<>>
    <2> DEFINE p == CatalogPage + 1 + Cardinality(DOMAIN w.db.pages)
               filled == FillFresh(w, p, row)
    <2>1. v = Attach(filled, t, p, filled)
      BY <1>5 DEF OnFreshPage
    <2>2. p \in Nat /\ p \notin DOMAIN w.db.pages
      BY <1>1, PagesAre
    <2>3. FilledFrom(w, filled, p, row, free)
      BY <1>3 DEF SameBut
    <2>4. Unowned(w.db, p) /\ (\A u : ~ Owner(w.db.tables, u, p)) /\ p \notin ToSet(free)
      BY <1>2, <2>2 DEF Unowned
    <2> HIDE DEF p, v, filled, free
    <2>5. /\ Step(w, filled) /\ filled.db.tables = w.db.tables /\ filled.db.free = free
          /\ p \in DOMAIN filled.db.fsm /\ p \in DOMAIN filled.db.pages /\ p \in Nat
      <3>1. free \in Seq(Nat) /\ IsInjective(free) /\ ToSet(free) \subseteq ToSet(w.db.free)
        BY <1>2 DEF free
      <3>2. QED
        BY <2>3, <2>4, <3>1, FilledOk
    <2>6. /\ WorkOk(filled) /\ t \in DOMAIN filled.db.tables
          /\ p \notin ToSet(filled.db.free) /\ \A u : ~ Owner(filled.db.tables, u, p)
      BY <2>4, <2>5 DEF Step
    <2>7. Step(filled, Attach(filled, t, p, filled))
      BY <2>2, <2>5, <2>6, AttachOk
    <2>8. QED
      BY <2>1, <2>5, <2>7, Steps DEF v
  <1>6. QED
    BY <1>4, <1>5

(* The map's candidates are pages of the table, and the first one is one. *)
LEMMA CandidatesAre ==
  ASSUME NEW d, DbOk(d), NEW t \in DOMAIN d.tables, NEW row
  PROVE  /\ \A k \in Candidates(d, t, row) : d.tables[t].pages[k] \in DOMAIN d.pages
         /\ Candidates(d, t, row) # {} => Min(Candidates(d, t, row)) \in Candidates(d, t, row)
  <1> DEFINE pages == d.tables[t].pages
             C == Candidates(d, t, row)
  <1>1. pages \in Seq(Nat) /\ \A u, p : Owner(d.tables, u, p) => p \in DOMAIN d.pages
    BY DEF DbOk, Sound, Consistent, OneOwner, TablesTyped
  <1>2. C = {k \in DOMAIN pages : pages[k] \in DOMAIN d.fsm /\ d.fsm[pages[k]] >= row.len}
    BY DEF Candidates
  <1> HIDE DEF C
  <1>3. C \in SUBSET Nat
    BY <1>1, <1>2
  <1>4. \A k \in C : Owner(d.tables, t, pages[k])
    BY <1>2 DEF Owner, ToSet
  <1>5. QED
    BY <1>1, <1>3, <1>4, MinRight DEF C

(* Storage::insert *)
LEMMA InsertRowOk ==
  ASSUME NEW w, WorkOk(w), NEW row \in ARow, NEW t \in DOMAIN w.db.tables
  PROVE  Step(w, InsertRow(w, t, row))
  <1> DEFINE v == InsertRow(w, t, row)
             C == Candidates(w.db, t, row)
             p == w.db.tables[t].pages[Min(C)]
             tried == InsertInto(w.db.pages[p], row)
  <1>1. DbOk(w.db) /\ PagesOk(w.db.pages) /\ row.len \in Nat /\ MaxLenForFreshPage \in Int
    BY LayoutAssumption DEF WorkOk, DbOk, Sound, ARow, MaxLenForFreshPage, DirectoryEnd
  <1>2. CASE row.len > MaxLenForFreshPage
    <2>1. v = Fail(w)
      BY <1>1, <1>2 DEF InsertRow
    <2>2. QED
      BY <2>1, Fails
  <1>3. CASE row.len <= MaxLenForFreshPage /\ C = {}
    <2>1. v = OnFreshPage(w, t, row)
      BY <1>1, <1>3 DEF InsertRow
    <2>2. QED
      BY <1>3, <2>1, OnFreshPageOk
  <1>4. CASE row.len <= MaxLenForFreshPage /\ C # {}
    <2>1. v = OnOpenPage(w, t, row, p, tried)
      BY <1>1, <1>4 DEF InsertRow, InsertOn
    <2>2. p \in DOMAIN w.db.pages
      BY <1>1, <1>4, CandidatesAre
    <2> HIDE DEF p, C, v
    <2>3. PageOk(w.db.pages[p])
      BY <1>1, <2>2 DEF PagesOk
    <2>4. TriedWell(w.db.pages[p], tried, SlotToFill(w.db.pages[p]), row) /\ SlotToFill(w.db.pages[p]) \in Nat \ {0}
      BY <2>3, InsertIntoOk
    <2>5. CASE tried.slot # NoSlot
      <3>1. PageOk(tried.page) /\ tried.slot \in Nat
        BY <2>4 DEF TriedWell, NoSlot
      <3>2. <<p, tried.slot>> \in ARid
        BY <1>1, <2>2, <3>1, PagesAre DEF ARid
      <3> HIDE DEF tried
      <3>3. Step(w, [Rewrite(w, p, tried.page) EXCEPT !.rid = <<p, tried.slot>>])
        BY <2>2, <3>1, <3>2, Rewrites
      <3>4. QED
        BY <2>1, <2>5, <3>3 DEF OnOpenPage, v
    <2>6. CASE tried.slot = NoSlot
      <3>1. PageOk(tried.page) /\ FreeSpace(w.db.pages[p]) <= FreeSpace(tried.page)
        BY <2>4, <2>6 DEF TriedWell
      <3> DEFINE x == [w EXCEPT !.db.pages[p] = tried.page]
      <3> HIDE DEF tried
      <3>2. Step(w, x)
        BY <2>2, <3>1, Rewrites
      <3>3. v = OnFreshPage(x, t, row)
        BY <2>1, <2>6 DEF OnOpenPage
      <3> HIDE DEF x
      <3>4. WorkOk(x) /\ t \in DOMAIN x.db.tables
        BY <3>2 DEF Step
      <3>5. Step(x, v)
        BY <1>4, <3>3, <3>4, OnFreshPageOk
      <3>6. QED
        BY <3>2, <3>5, Steps DEF v
    <2>7. QED
      BY <2>5, <2>6
  <1>5. QED
    BY <1>1, <1>2, <1>3, <1>4

(* The rows of a table are on pages, and rows. *)
LEMMA PositionsAre ==
  ASSUME NEW d, DbOk(d), NEW t \in DOMAIN d.tables
  PROVE  /\ \A rid \in ARid : Owned(d, t, rid) => rid[1] \in DOMAIN d.pages /\ PageOk(d.pages[rid[1]])
         /\ \A rid \in Positions(d, t) : /\ rid \in ARid /\ Owned(d, t, rid) /\ Filled(d, rid)
                                         /\ RowOf(d, rid) \in ARow
  <1>1. PagesOk(d.pages) /\ TablesTyped(d.tables) /\ \A u, p : Owner(d.tables, u, p) => p \in DOMAIN d.pages
    BY DEF DbOk, Sound, Consistent, OneOwner
  <1>2. \A rid : Owned(d, t, rid) => rid[1] \in DOMAIN d.pages /\ PageOk(d.pages[rid[1]])
    BY <1>1 DEF Owned, Owner, PagesOk
  <1>3. ASSUME NEW rid \in Positions(d, t)
        PROVE  rid \in ARid /\ Owned(d, t, rid) /\ Filled(d, rid) /\ RowOf(d, rid) \in ARow
    <2>1. PICK p \in ToSet(d.tables[t].pages) : rid \in {p} \X Occupied(d.pages[p])
      BY DEF Positions
    <2>2. rid[1] = p /\ rid[2] \in Occupied(d.pages[p]) /\ rid = <<rid[1], rid[2]>>
      BY <2>1
    <2>3. Owned(d, t, rid) /\ Filled(d, rid)
      BY <2>1, <2>2 DEF Owned, Filled
    <2>4. p \in DOMAIN d.pages /\ d.pages[p] \in APage
      BY <1>2, <2>2, <2>3 DEF PageOk
    <2>5. rid[2] \in Nat /\ RowOf(d, rid) \in ARow
      BY <2>2, <2>4, PageFacts DEF RowOf
    <2>6. p \in Nat
      BY <1>1, <2>4, PagesAre
    <2>7. QED
      BY <2>2, <2>3, <2>5, <2>6 DEF ARid
  <1>4. QED
    BY <1>2, <1>3

(* Storage::delete *)
LEMMA DeleteRowOk ==
  ASSUME NEW w, WorkOk(w), NEW t \in DOMAIN w.db.tables, NEW rid \in ARid
  PROVE  Step(w, DeleteRow(w, t, rid))
  <1> DEFINE p == rid[1]
             q == DeleteFrom(w.db.pages[p], rid[2])
  <1>1. CASE ~ Owned(w.db, t, rid)
    BY <1>1, Fails DEF DeleteRow
  <1>2. CASE Owned(w.db, t, rid) /\ ~ Filled(w.db, rid)
    BY <1>2, Steps DEF DeleteRow
  <1>3. CASE Owned(w.db, t, rid) /\ Filled(w.db, rid)
    <2>1. p \in DOMAIN w.db.pages /\ PageOk(w.db.pages[p])
      BY <1>3, PositionsAre DEF WorkOk
    <2>2. rid[2] \in Occupied(w.db.pages[p])
      BY <1>3 DEF Filled
    <2>3. PageOk(q)
      BY <2>1, <2>2, DeleteOk
    <2> HIDE DEF p, q
    <2>4. Step(w, Rewrite(w, p, q))
      BY <2>1, <2>3, Rewrites
    <2>5. QED
      BY <1>3, <2>4 DEF DeleteRow, p, q
  <1>4. QED
    BY <1>1, <1>2, <1>3

(* Storage::update *)
LEMMA UpdateRowOk ==
  ASSUME NEW w, WorkOk(w), NEW row \in ARow, NEW t \in DOMAIN w.db.tables, NEW rid \in ARid
  PROVE  Step(w, UpdateRow(w, t, rid, row))
  <1> DEFINE p == rid[1]
             tried == UpdateIn(w.db.pages[p], rid[2], row)
             v == UpdateRow(w, t, rid, row)
  <1>1. CASE ~ Owned(w.db, t, rid)
    BY <1>1, Fails DEF UpdateRow
  <1>2. CASE Owned(w.db, t, rid) /\ ~ Filled(w.db, rid)
    <2> DEFINE x == [w EXCEPT !.rid = rid]
    <2>1. SameBut(w, x, {"db", "rid"}) /\ x.db = w.db /\ x.rid = rid
      BY DEF SameBut, WorkOk, WorkTyped
    <2> HIDE DEF x
    <2>2. PagesOk(w.db.pages) /\ SpaceOk(w.db.tables, w.db.fsm, w.db.pages)
      BY DEF WorkOk, DbOk, Sound
    <2>3. Step(w, x)
      BY <2>1, <2>2, PagesOnly DEF SameBut
    <2>4. QED
      BY <1>2, <2>3 DEF UpdateRow, x
  <1>3. CASE Owned(w.db, t, rid) /\ Filled(w.db, rid) /\ row.len > MaxLenForFreshPage
    BY <1>3, Fails DEF UpdateRow
  <1>4. CASE Owned(w.db, t, rid) /\ Filled(w.db, rid) /\ ~ (row.len > MaxLenForFreshPage)
    <2>1. p \in DOMAIN w.db.pages /\ PageOk(w.db.pages[p])
      BY <1>4, PositionsAre DEF WorkOk
    <2>2. rid[2] \in Occupied(w.db.pages[p])
      BY <1>4 DEF Filled
    <2>3. v = InPlaceOrMoved(w, t, rid, row, tried)
      BY <1>4 DEF UpdateRow
    <2>4. TriedWell(w.db.pages[p], tried, rid[2], row)
      BY <2>1, <2>2, UpdateInOk
    <2> HIDE DEF p, tried, v
    <2>5. CASE tried.slot # NoSlot
      <3>1. PageOk(tried.page)
        BY <2>4 DEF TriedWell
      <3>2. Step(w, [Rewrite(w, p, tried.page) EXCEPT !.rid = rid])
        BY <2>1, <3>1, Rewrites
      <3>3. QED
        BY <2>3, <2>5, <3>2 DEF InPlaceOrMoved, p, v
    <2>6. CASE tried.slot = NoSlot
      <3>1. PageOk(tried.page) /\ FreeSpace(w.db.pages[p]) <= FreeSpace(tried.page)
        BY <2>4, <2>6 DEF TriedWell
      <3> DEFINE x == [w EXCEPT !.db.pages[p] = tried.page]
                 y == InsertRow(x, t, row)
      <3>2. Step(w, x)
        BY <2>1, <3>1, Rewrites
      <3>3. v = Moved(y, t, rid)
        BY <2>3, <2>6 DEF InPlaceOrMoved, p
      <3> HIDE DEF x
      <3>4. WorkOk(x) /\ t \in DOMAIN x.db.tables
        BY <3>2 DEF Step
      <3>5. Step(x, y)
        BY <3>4, InsertRowOk
      <3> HIDE DEF y
      <3>6. WorkOk(y) /\ t \in DOMAIN y.db.tables
        BY <3>4, <3>5 DEF Step
      <3>7. Step(y, v)
        BY <3>3, <3>6, DeleteRowOk, Steps DEF Moved
      <3>8. QED
        BY <3>2, <3>5, <3>7, Steps DEF v
    <2>7. QED
      BY <2>5, <2>6 DEF v
  <1>5. QED
    BY <1>1, <1>2, <1>3, <1>4

------------------------------------------------------------------------------
(* INSERT, UPDATE, DELETE, row by row.                                     *)

\* The tables stay; the log may get a record.
Keeps(w, v) == WorkOk(v) /\ DOMAIN v.db.tables = DOMAIN w.db.tables

(* A step keeps the tables, and so do steps one after the other. *)
LEMMA Keeping ==
  /\ \A w : WorkOk(w) => Keeps(w, w)
  /\ \A w, v : Step(w, v) => Keeps(w, v)
  /\ \A w, v, x : Keeps(w, v) /\ Keeps(v, x) => Keeps(w, x)
  BY DEF Step, Keeps

(* Entries put into trees or taken out change nothing else. *)
LEMMA EntriesStep ==
  ASSUME NEW w, WorkOk(w), NEW is, NEW entry
  PROVE  Step(w, EnteredIn(w, is, entry)) /\ Step(w, TakenFrom(w, is, entry))
  <1>1. ASSUME NEW trees PROVE Step(w, [w EXCEPT !.db = [w.db EXCEPT !.trees = trees]])
    <2> DEFINE v == [w EXCEPT !.db = [w.db EXCEPT !.trees = trees]]
    <2>1. SameBut(w, v, {"db"}) /\ SameBut(w.db, v.db, {"trees"}) /\ v.ok = w.ok
      BY DEF SameBut, WorkOk, WorkTyped, IsDb
    <2> HIDE DEF v
    <2>2. v.ok \in BOOLEAN /\ SameBut(w, v, {"db", "ok"})
      BY <2>1 DEF SameBut, WorkOk, WorkTyped
    <2>3. Step(w, v)
      BY <2>1, <2>2, TreesOnly
    <2>4. QED
      BY <2>3 DEF v
  <1>2. QED
    BY <1>1 DEF EnteredIn, TakenFrom

LEMMA IndexStep ==
  ASSUME NEW w, WorkOk(w), NEW t, NEW row, NEW rid
  PROVE  Step(w, IndexInsert(w, t, row, rid)) /\ Step(w, IndexDelete(w, t, row, rid))
  <1>2. Step(w, IndexDelete(w, t, row, rid))
    BY EntriesStep DEF IndexDelete
  <1>3. CASE row.key = Null
    BY <1>2, <1>3, Steps DEF IndexInsert
  <1> DEFINE taking  == {i \in IndexesOf(w.db, t) : TreeTakes(w.db, i, row)}
             entered == EnteredIn(w, taking, <<row.key, rid>>)
             taken   == TakenFrom(entered, taking, <<row.key, rid>>)
  <1>4. Step(w, entered)
    BY EntriesStep
  <1>5. Step(entered, taken)
    BY <1>4, EntriesStep DEF Step
  <1>6. CASE row.key # Null /\ taking = IndexesOf(w.db, t)
    BY <1>2, <1>4, <1>6 DEF IndexInsert
  <1>7. CASE row.key # Null /\ taking # IndexesOf(w.db, t)
    <2>1. IndexInsert(w, t, row, rid) = Fail(taken)
      BY <1>7 DEF IndexInsert
    <2> HIDE DEF taken
    <2>2. Step(taken, Fail(taken))
      BY <1>5, Fails DEF Step
    <2>3. QED
      BY <1>2, <1>4, <1>5, <2>1, <2>2, Steps
  <1>8. QED
    BY <1>3, <1>6, <1>7

(* A record for the log. *)
LEMMA Logs ==
  ASSUME NEW w, WorkOk(w), NEW r \in ARecord
  PROVE  Keeps(w, Logged(w, r))
  <1>1. CASE w.ok
    <2> DEFINE v == [w EXCEPT !.log = Append(w.log, r)]
    <2>1. SameBut(w, v, {"log"}) /\ v.log = Append(w.log, r)
      BY DEF SameBut, WorkOk, WorkTyped
    <2>2. v.log \in Seq(ARecord)
      BY <2>1 DEF WorkOk, WorkTyped
    <2> HIDE DEF v
    <2>3. v.db = w.db /\ WorkOk(v)
      BY <2>1, <2>2 DEF SameBut, WorkOk, WorkTyped
    <2>4. QED
      BY <1>1, <2>3 DEF Logged, Keeps, v
  <1>2. CASE ~ w.ok
    BY <1>2 DEF Logged, Keeps
  <1>3. QED
    BY <1>1, <1>2

(* Ids of tables are numbers. *)
LEMMA TableIsNat == \A w : WorkOk(w) => DOMAIN w.db.tables \subseteq Nat
  BY DEF WorkOk, DbOk, Sound, Consistent, OneOwner, TablesTyped

(* What statements write to the log are records. *)
LEMMA Records ==
  ASSUME NEW t \in Nat, NEW rid \in ARid, NEW old \in ARid, NEW row \in ARow, NEW other \in ARow
  PROVE  /\ Record("insert", t, NoRid, rid, NoRow, row) \in ARecord
         /\ Record("update", t, old, rid, row, other) \in ARecord
         /\ Record("delete", t, NoRid, rid, row, NoRow) \in ARecord
  <1>1. NoRid \in ARid
    BY DEF NoRid, ARid
  <1>2. QED
    BY <1>1 DEF Record, ARecord

(* storage_insert, one row, whether an index refuses it or not. *)
LEMMA InsertOneOk ==
  ASSUME NEW w, WorkOk(w), NEW t \in DOMAIN w.db.tables, NEW row \in ARow
  PROVE  Keeps(w, InsertOne(w, t, row))
  <1> DEFINE x == InsertRow(w, t, row)
             indexed == IndexInsert(x, t, row, x.rid)
  <1>1. CASE ~ w.ok
    BY <1>1, Keeping DEF InsertOne
  <1>2. CASE w.ok
    <2>1. Step(w, x)
      BY InsertRowOk
    <2>2. InsertOne(w, t, row) = IndexedIfIn(x, t, row)
      BY <1>2 DEF InsertOne
    <2> HIDE DEF x
    <2>3. WorkOk(x) /\ t \in DOMAIN x.db.tables /\ Keeps(w, x)
      BY <2>1, Keeping DEF Step
    <2>4. Step(x, indexed)
      BY <2>3, IndexStep
    <2>5. CASE ~ x.ok
      BY <2>2, <2>3, <2>5 DEF IndexedIfIn
    <2>6. CASE x.ok /\ indexed.ok
      <3>1. InsertOne(w, t, row) = Logged(indexed, Record("insert", t, NoRid, x.rid, NoRow, row))
        BY <2>2, <2>6 DEF IndexedIfIn, IndexedOrDropped
      <3>2. x.rid \in ARid /\ t \in Nat
        BY <2>3, TableIsNat DEF WorkOk, WorkTyped
      <3>3. Record("insert", t, NoRid, x.rid, NoRow, row) \in ARecord
        BY <3>2, Records
      <3> HIDE DEF indexed
      <3>4. WorkOk(indexed) /\ Keeps(x, indexed)
        BY <2>4, Keeping DEF Step
      <3>5. Keeps(indexed, InsertOne(w, t, row))
        BY <3>1, <3>3, <3>4, Logs
      <3>6. QED
        BY <2>3, <3>4, <3>5, Keeping
    <2>7. CASE x.ok /\ ~ indexed.ok
      <3> DEFINE y == DeleteRow(indexed, t, x.rid)
      <3>1. InsertOne(w, t, row) = Fail(y)
        BY <2>2, <2>7 DEF IndexedIfIn, IndexedOrDropped
      <3> HIDE DEF indexed
      <3>2. x.rid \in ARid /\ WorkOk(indexed) /\ t \in DOMAIN indexed.db.tables
        BY <2>3, <2>4 DEF Step, WorkOk, WorkTyped
      <3>3. Step(indexed, y)
        BY <3>2, DeleteRowOk
      <3> HIDE DEF y
      <3>4. Step(y, Fail(y))
        BY <3>3, Fails DEF Step
      <3>5. QED
        BY <2>3, <2>4, <3>1, <3>3, <3>4, Keeping
    <2>8. QED
      BY <2>5, <2>6, <2>7
  <1>3. QED
    BY <1>1, <1>2

(* storage_update, one row, and what follows a refused key. *)
LEMMA UpdateOneOk ==
  ASSUME NEW w, WorkOk(w), NEW t \in DOMAIN w.db.tables, NEW rid \in ARid,
         NEW before \in ARow, NEW after \in ARow
  PROVE  Keeps(w, UpdateOne(w, t, rid, before, after))
  <1> DEFINE v == UpdateOne(w, t, rid, before, after)
             x == UpdateRow(w, t, rid, after)
             z == IndexDelete(x, t, before, rid)
             indexed == IndexInsert(z, t, after, x.rid)
  <1>1. CASE ~ w.ok
    BY <1>1, Keeping DEF UpdateOne
  <1>2. CASE w.ok
    <2>1. Step(w, x)
      BY UpdateRowOk
    <2>2. v = ReindexedIfIn(x, t, rid, before, after)
      BY <1>2 DEF UpdateOne
    <2> HIDE DEF x, v
    <2>3. WorkOk(x) /\ t \in DOMAIN x.db.tables /\ Keeps(w, x)
      BY <2>1, Keeping DEF Step
    <2>4. x.rid \in ARid /\ t \in Nat
      BY <2>3, TableIsNat DEF WorkOk, WorkTyped
    <2>5. Step(x, z)
      BY <2>3, IndexStep
    <2>6. CASE ~ x.ok
      BY <2>2, <2>3, <2>6 DEF ReindexedIfIn, v
    <2>7. CASE x.ok
      <3>1. v = Reindexed(indexed, t, rid, x.rid, before, after)
        BY <2>2, <2>7 DEF ReindexedIfIn
      <3> HIDE DEF z
      <3>2. WorkOk(z) /\ Keeps(x, z) /\ t \in DOMAIN z.db.tables
        BY <2>3, <2>5, Keeping DEF Step
      <3>3. Step(z, indexed)
        BY <3>2, IndexStep
      <3>4. CASE indexed.ok
        <4>1. v = Logged(indexed, Record("update", t, rid, x.rid, before, after))
          BY <3>1, <3>4 DEF Reindexed
        <4>2. Record("update", t, rid, x.rid, before, after) \in ARecord
          BY <2>4, Records
        <4> HIDE DEF indexed
        <4>3. WorkOk(indexed) /\ Keeps(z, indexed)
          BY <3>3, Keeping DEF Step
        <4>4. Keeps(indexed, v)
          BY <4>1, <4>2, <4>3, Logs
        <4>5. QED
          BY <2>3, <3>2, <4>3, <4>4, Keeping DEF v
      <3>5. CASE ~ indexed.ok
        <4> DEFINE back == IndexInsert(indexed, t, before, x.rid)
                   again == [back EXCEPT !.ok = TRUE]
                   last == UpdateRow(again, t, x.rid, before)
        <4>1. v = Fail(last)
          BY <3>1, <3>5 DEF Reindexed
        <4> HIDE DEF indexed
        <4>2. Step(indexed, back)
          BY <3>3, IndexStep DEF Step
        <4> HIDE DEF back
        <4>3. WorkOk(back) /\ t \in DOMAIN back.db.tables
          BY <3>2, <3>3, <4>2 DEF Step
        <4>4. SameBut(back, again, {"ok"}) /\ again.ok = TRUE /\ again.db = back.db
          BY <4>3 DEF SameBut, WorkOk, WorkTyped
        <4> HIDE DEF again
        <4>5. Step(back, again)
          BY <4>3, <4>4, TreesOnly DEF SameBut
        <4>6. WorkOk(again) /\ t \in DOMAIN again.db.tables
          BY <4>3, <4>5 DEF Step
        <4>7. Step(again, last)
          BY <2>4, <4>6, UpdateRowOk
        <4> HIDE DEF last
        <4>8. Step(last, Fail(last))
          BY <4>7, Fails DEF Step
        <4>9. Keeps(z, v)
          BY <3>3, <4>1, <4>2, <4>5, <4>7, <4>8, Keeping
        <4>10. QED
          BY <2>3, <3>2, <4>9, Keeping DEF v
      <3>6. QED
        BY <3>4, <3>5
    <2>8. QED
      BY <2>6, <2>7
  <1>3. QED
    BY <1>1, <1>2

(* storage_delete, one row. *)
LEMMA DeleteOneOk ==
  ASSUME NEW w, WorkOk(w), NEW t \in DOMAIN w.db.tables, NEW rid \in ARid, NEW row \in ARow
  PROVE  Keeps(w, DeleteOne(w, t, rid, row))
  <1> DEFINE x == DeleteRow(w, t, rid)
             y == IndexDelete(x, t, row, rid)
  <1>1. Step(w, x)
    BY DeleteRowOk
  <1>2. DeleteOne(w, t, rid, row) = Logged(y, Record("delete", t, NoRid, rid, row, NoRow))
    BY DEF DeleteOne
  <1> HIDE DEF x
  <1>3. Step(x, y)
    BY <1>1, IndexStep DEF Step
  <1> HIDE DEF y
  <1>4. WorkOk(y) /\ Keeps(w, y) /\ t \in Nat
    BY <1>1, <1>3, Keeping, TableIsNat DEF Step
  <1>5. Record("delete", t, NoRid, rid, row, NoRow) \in ARecord
    BY <1>4, Records
  <1>6. QED
    BY <1>2, <1>4, <1>5, Logs, Keeping

------------------------------------------------------------------------------
(* Row after row.                                                          *)

\* What the recursions of Storage do in one step, from what they had before.
OneStep(job, x, k) ==
    CASE job.does = "slots"  -> x \o RidsOn(job.pages[job.list[k]], job.list[k])
      [] job.does = "among"  -> IF job.list[k] \in job.set THEN Append(x, job.list[k]) ELSE x
      [] job.does = "hop"    -> IF x \in DOMAIN job.moves THEN job.moves[x] ELSE x
      [] job.does = "insert" -> InsertOne(x, job.table, job.rows[k])
      [] job.does = "update" -> UpdateOne(x, job.table, job.rids[k], job.rows[k], job.new[k])
      [] job.does = "delete" -> DeleteOne(x, job.table, job.rids[k], RowOf(job.db, job.rids[k]))
      [] job.does = "undo"   -> UndoOne(x, job.log[Len(job.log) + 1 - k])
      [] OTHER               -> Perform(x, job.list[k]).db

Runs(f, m, x, job) == f = [k \in 0..m |-> IF k = 0 THEN x ELSE OneStep(job, f[k - 1], k)]

(* Every recursion of Storage has a function of its values, step by step. *)
LEMMA RunsExist ==
  ASSUME NEW x, NEW job, NEW n \in Nat
  PROVE  \E f : Runs(f, n, x, job)
  <1> DEFINE Good == {m \in 0..n : \E f : Runs(f, m, x, job)}
  <1>1. 0 \in Good
    <2> DEFINE f == [k \in 0..0 |-> x]
    <2>1. Runs(f, 0, x, job)
      BY DEF Runs
    <2>2. QED
      BY <2>1
  <1>2. ASSUME NEW m \in 1..n, m - 1 \in Good PROVE m \in Good
    <2>1. PICK f : Runs(f, m - 1, x, job)
      BY <1>2
    <2> DEFINE g == [k \in 0..m |-> IF k = m THEN OneStep(job, f[m - 1], m) ELSE f[k]]
    <2>2. \A k \in 0..(m - 1) : g[k] = f[k] /\ f[k] = IF k = 0 THEN x ELSE OneStep(job, f[k - 1], k)
      BY <2>1 DEF Runs
    <2>3. ASSUME NEW k \in 0..m
          PROVE  g[k] = IF k = 0 THEN x ELSE OneStep(job, g[k - 1], k)
      <3>1. CASE k = m
        BY <2>2, <3>1
      <3>2. CASE k # m
        <4>1. k \in 0..(m - 1) /\ (k # 0 => k - 1 \in 0..(m - 1))
          BY <3>2
        <4>2. QED
          BY <2>2, <4>1
      <3>3. QED
        BY <3>1, <3>2
    <2>4. Runs(g, m, x, job)
      BY <2>3 DEF Runs
    <2>5. QED
      BY <2>4
  <1> HIDE DEF Good
  <1>3. n \in Good
    BY <1>1, <1>2, Climbs
  <1>4. QED
    BY <1>3 DEF Good

\* What is true at first and kept by every step is true at last.
LEMMA RunsKeep ==
  ASSUME NEW x, NEW job, NEW n \in Nat, NEW f, Runs(f, n, x, job), NEW Good, x \in Good,
         \A k \in 1..n : f[k - 1] \in Good => OneStep(job, f[k - 1], k) \in Good
  PROVE  f[n] \in Good
  <1>1. \A k \in 0..n : f[k] = IF k = 0 THEN x ELSE OneStep(job, f[k - 1], k)
    BY DEF Runs
  <1> DEFINE Fine == {k \in 0..n : f[k] \in Good}
  <1>2. 0 \in Fine
    BY <1>1
  <1>3. ASSUME NEW k \in 1..n, k - 1 \in Fine PROVE k \in Fine
    <2>1. k \in 0..n /\ k # 0
      OBVIOUS
    <2>2. f[k] = OneStep(job, f[k - 1], k)
      BY <1>1, <2>1
    <2>3. QED
      BY <1>3, <2>1, <2>2
  <1> HIDE DEF Fine
  <1>4. n \in Fine
    BY <1>2, <1>3, Climbs
  <1>5. QED
    BY <1>4 DEF Fine

\* The same of works and the tables they keep.
LEMMA WorksKeep ==
  ASSUME NEW w, WorkOk(w), NEW job, NEW n \in Nat, NEW f, Runs(f, n, w, job),
         \A k \in 1..n : \A v : Keeps(w, v) => Keeps(w, OneStep(job, v, k))
  PROVE  Keeps(w, f[n])
  <1> DEFINE Good == {f[k] : k \in {j \in 0..n : Keeps(w, f[j])}}
  <1>1. \A k \in 0..n : f[k] = IF k = 0 THEN w ELSE OneStep(job, f[k - 1], k)
    BY DEF Runs
  <1>2. \A k \in 0..n : f[k] \in Good <=> Keeps(w, f[k])
    OBVIOUS
  <1> HIDE DEF Good
  <1>3. w \in Good
    BY <1>1, <1>2, Keeping
  <1>4. ASSUME NEW k \in 1..n, f[k - 1] \in Good PROVE OneStep(job, f[k - 1], k) \in Good
    <2>1. k \in 0..n /\ k - 1 \in 0..n /\ k # 0
      OBVIOUS
    <2>2. QED
      BY <1>1, <1>2, <1>4, <2>1
  <1>5. f[n] \in Good /\ n \in 0..n
    BY <1>3, <1>4, RunsKeep
  <1>6. QED
    BY <1>2, <1>5

(* What is left of a sequence. *)
LEMMA AmongIs ==
  ASSUME NEW A, NEW s \in Seq(A), NEW S
  PROVE  /\ Among(s, S) \in Seq(A) /\ Among(s, S) \in Seq(S)
         /\ ToSet(Among(s, S)) = ToSet(s) \cap S
         /\ IsInjective(s) => IsInjective(Among(s, S))
  <1> DEFINE n == Len(s)
             job == [does |-> "among", list |-> s, set |-> S]
             kept[k \in 0..n] == IF k = 0 THEN <<>> ELSE IF s[k] \in S THEN Append(kept[k - 1], s[k]) ELSE kept[k - 1]
  <1>1. n \in Nat /\ DOMAIN s = 1..n /\ \A k \in 1..n : s[k] \in A
    OBVIOUS
  <1>2. \A x, k : OneStep(job, x, k) = IF s[k] \in S THEN Append(x, s[k]) ELSE x
    BY DEF OneStep
  <1>3. Among(s, S) = kept[n]
    BY DEF Among
  <1> HIDE DEF job, n
  <1>4. kept = [k \in 0..n |-> IF k = 0 THEN <<>> ELSE IF s[k] \in S THEN Append(kept[k - 1], s[k]) ELSE kept[k - 1]]
    <2>1. PICK f : Runs(f, n, <<>>, job)
      BY <1>1, RunsExist
    <2>2. f = [k \in 0..n |-> IF k = 0 THEN <<>> ELSE IF s[k] \in S THEN Append(f[k - 1], s[k]) ELSE f[k - 1]]
      BY <1>2, <2>1 DEF Runs
    <2>3. QED
      BY <2>2
  <1> HIDE DEF kept
  <1>5. \A k \in 0..n : kept[k] = IF k = 0 THEN <<>> ELSE IF s[k] \in S THEN Append(kept[k - 1], s[k]) ELSE kept[k - 1]
    BY <1>4
  \* kept[k] is what is in S of the first k.
  <1> DEFINE Up(k) == {s[j] : j \in 1..k}
             Fine == {k \in 0..n : /\ kept[k] \in Seq(A) /\ kept[k] \in Seq(S)
                                   /\ ToSet(kept[k]) = Up(k) \cap S
                                   /\ IsInjective(s) => IsInjective(kept[k])}
  <1>6. 0 \in Fine
    <2>1. kept[0] = <<>> /\ 0 \in 0..n
      BY <1>1, <1>5
    <2>2. <<>> \in Seq(A) /\ <<>> \in Seq(S) /\ ToSet(<<>>) = {} /\ IsInjective(<<>>)
      BY DEF ToSet, IsInjective
    <2>3. Up(0) = {}
      OBVIOUS
    <2> HIDE DEF Up
    <2>4. QED
      BY <2>1, <2>2, <2>3
  <1>7. ASSUME NEW k \in 1..n, k - 1 \in Fine PROVE k \in Fine
    <2> DEFINE x == kept[k - 1]
               y == kept[k]
    <2>1. /\ x \in Seq(A) /\ x \in Seq(S) /\ ToSet(x) = Up(k - 1) \cap S
          /\ IsInjective(s) => IsInjective(x)
      BY <1>7
    <2>2. k \in 0..n /\ k # 0 /\ k \in Nat /\ k - 1 \in Nat
      BY <1>1
    <2>3. y = IF s[k] \in S THEN Append(x, s[k]) ELSE x
      BY <1>5, <2>2
    <2>4. Up(k) = Up(k - 1) \cup {s[k]}
      <3>1. \A j : j \in 1..k <=> j \in 1..(k - 1) \/ j = k
        BY <2>2
      <3>2. QED
        BY <3>1
    <2>5. IsInjective(s) => s[k] \notin Up(k - 1)
      <3>1. \A j \in 1..(k - 1) : j \in 1..n /\ j # k
        BY <1>1, <2>2
      <3>2. QED
        BY <1>1, <3>1 DEF IsInjective
    <2> HIDE DEF x, y, Up
    <2>6. CASE s[k] \in S
      <3>1. y = Append(x, s[k]) /\ s[k] \in A
        BY <1>1, <2>3, <2>6
      <3>2. y \in Seq(A) /\ y \in Seq(S)
        BY <2>1, <2>6, <3>1
      <3>3. ToSet(y) = ToSet(x) \cup {s[k]} /\ (IsInjective(x) /\ s[k] \notin ToSet(x) => IsInjective(y))
        <4>1. /\ \A q : q \in ToSet(y) <=> q \in ToSet(x) \/ q = s[k]
              /\ IsInjective(x) /\ s[k] \notin ToSet(x) => IsInjective(y)
          BY <2>1, <3>1, Appended
        <4>2. QED
          BY <4>1
      <3>4. QED
        BY <2>1, <2>2, <2>4, <2>5, <2>6, <3>2, <3>3 DEF y
    <2>7. CASE s[k] \notin S
      <3>1. y = x
        BY <2>3, <2>7
      <3>2. QED
        BY <2>1, <2>2, <2>4, <2>7, <3>1 DEF y
    <2>8. QED
      BY <2>6, <2>7
  <1> HIDE DEF Fine
  <1>8. n \in Fine
    BY <1>1, <1>6, <1>7, Climbs
  <1>9. Up(n) = ToSet(s)
    BY <1>1 DEF ToSet
  <1> HIDE DEF Up
  <1>10. QED
    BY <1>3, <1>8, <1>9 DEF Fine

(* The rows of pages are those that statements write. *)
LEMMA RowsAre == ARow = Tuples
  BY StorageAssumption DEF ARow

(* A statement's rows are rows of the table. *)
LEMMA MatchingIs ==
  ASSUME NEW d, DbOk(d), NEW t \in DOMAIN d.tables, NEW keys
  PROVE  /\ Matching(d, t, keys) \in Seq(ARid)
         /\ \A k \in DOMAIN Matching(d, t, keys) : RowOf(d, Matching(d, t, keys)[k]) \in ARow
  <1> DEFINE pages == d.tables[t].pages
             n == Len(pages)
             job == [does |-> "slots", list |-> pages, pages |-> d.pages]
             rids[k \in 0..n] ==
                 IF k = 0 THEN <<>> ELSE rids[k - 1] \o RidsOn(d.pages[pages[k]], pages[k])
  <1>1. /\ pages \in Seq(Nat) /\ n \in Nat /\ \A k \in 1..n : pages[k] \in DOMAIN d.pages
        /\ PagesOk(d.pages)
    <2>1. pages \in Seq(Nat) /\ PagesOk(d.pages) /\ \A p : Owner(d.tables, t, p) => p \in DOMAIN d.pages
      BY DEF DbOk, Sound, Consistent, OneOwner, TablesTyped
    <2>2. \A k \in 1..n : Owner(d.tables, t, pages[k])
      BY <2>1 DEF Owner, ToSet
    <2>3. QED
      BY <2>1, <2>2
  <1>2. \A x, k : OneStep(job, x, k) = x \o RidsOn(d.pages[pages[k]], pages[k])
    BY DEF OneStep
  <1>3. Slots(d, t) = rids[n]
    BY DEF Slots
  <1>4. \A k \in 1..n : RidsOn(d.pages[pages[k]], pages[k]) \in Seq(ARid)
    <2> SUFFICES ASSUME NEW k \in 1..n PROVE RidsOn(d.pages[pages[k]], pages[k]) \in Seq(ARid)
      OBVIOUS
    <2> DEFINE p == pages[k]
               m == Len(d.pages[p].slots)
    <2>1. p \in Nat /\ p \in DOMAIN d.pages
      BY <1>1, PagesAre
    <2>2. m \in Nat
      BY <1>1, <2>1, PageFacts DEF PagesOk, PageOk
    <2> HIDE DEF p
    <2>3. RidsOn(d.pages[p], p) = [i \in 1..m |-> <<p, i>>]
      BY DEF RidsOn
    <2> HIDE DEF m
    <2>4. \A i \in 1..m : <<p, i>> \in ARid
      BY <2>1, <2>2 DEF ARid
    <2>5. QED
      BY <2>2, <2>3, <2>4 DEF p
  <1> HIDE DEF job, n, pages
  <1>5. PICK f : Runs(f, n, <<>>, job)
    BY <1>1, RunsExist
  <1>6. Runs(rids, n, <<>>, job)
    <2>1. f = [k \in 0..n |-> IF k = 0 THEN <<>> ELSE f[k - 1] \o RidsOn(d.pages[pages[k]], pages[k])]
      BY <1>2, <1>5 DEF Runs
    <2>2. rids = [k \in 0..n |-> IF k = 0 THEN <<>> ELSE rids[k - 1] \o RidsOn(d.pages[pages[k]], pages[k])]
      BY <2>1
    <2> HIDE DEF rids
    <2>3. QED
      BY <1>2, <2>2 DEF Runs
  <1> HIDE DEF rids
  <1>7. rids[n] \in Seq(ARid)
    <2>1. ASSUME NEW k \in 1..n, rids[k - 1] \in Seq(ARid)
          PROVE  OneStep(job, rids[k - 1], k) \in Seq(ARid)
      <3> DEFINE more == RidsOn(d.pages[pages[k]], pages[k])
                 x == rids[k - 1]
      <3>1. more \in Seq(ARid) /\ x \in Seq(ARid) /\ OneStep(job, x, k) = x \o more
        BY <1>2, <1>4, <2>1
      <3> HIDE DEF more, x
      <3>2. x \o more \in Seq(ARid)
        BY <3>1
      <3>3. QED
        BY <3>1, <3>2 DEF x
    <2>2. <<>> \in Seq(ARid)
      OBVIOUS
    <2>3. QED
      BY <1>1, <1>6, <2>1, <2>2, RunsKeep
  <1> DEFINE S == {rid \in Positions(d, t) : RowOf(d, rid).key \in keys}
             matching == Among(Slots(d, t), S)
  <1>8. matching \in Seq(ARid) /\ matching \in Seq(S)
    BY <1>3, <1>7, AmongIs
  <1>9. \A rid \in S : RowOf(d, rid) \in ARow
    BY PositionsAre
  <1> HIDE DEF S
  <1>10. \A k \in DOMAIN matching : matching[k] \in S
    BY <1>8
  <1>11. QED
    BY <1>8, <1>9, <1>10 DEF Matching, S

(* INSERT, UPDATE and DELETE keep to the tables there are. *)
LEMMA InsertRowsOk ==
  ASSUME NEW w, WorkOk(w), NEW t \in DOMAIN w.db.tables, NEW rows \in Seq(Tuples)
  PROVE  Keeps(w, InsertRows(w, t, rows))
  <1> DEFINE n == Len(rows)
             job == [does |-> "insert", table |-> t, rows |-> rows]
             after[k \in 0..n] == IF k = 0 THEN w ELSE InsertOne(after[k - 1], t, rows[k])
  <1>1. n \in Nat /\ \A k \in 1..n : rows[k] \in ARow
    BY RowsAre
  <1>2. \A x, k : OneStep(job, x, k) = InsertOne(x, t, rows[k])
    BY DEF OneStep
  <1>3. InsertRows(w, t, rows) = IF Refused(w.db, t, rows, {}) THEN Fail(w) ELSE after[n]
    BY DEF InsertRows
  <1> HIDE DEF job, n
  <1>4. PICK f : Runs(f, n, w, job)
    BY <1>1, RunsExist
  <1>5. Runs(after, n, w, job)
    <2>1. f = [k \in 0..n |-> IF k = 0 THEN w ELSE InsertOne(f[k - 1], t, rows[k])]
      BY <1>2, <1>4 DEF Runs
    <2>2. after = [k \in 0..n |-> IF k = 0 THEN w ELSE InsertOne(after[k - 1], t, rows[k])]
      BY <2>1
    <2> HIDE DEF after
    <2>3. QED
      BY <1>2, <2>2 DEF Runs
  <1> HIDE DEF after
  <1>6. ASSUME NEW k \in 1..n, NEW v, Keeps(w, v) PROVE Keeps(w, OneStep(job, v, k))
    <2>1. WorkOk(v) /\ t \in DOMAIN v.db.tables
      BY <1>6 DEF Keeps
    <2>2. Keeps(v, InsertOne(v, t, rows[k]))
      BY <1>1, <2>1, InsertOneOk
    <2>3. QED
      BY <1>2, <1>6, <2>2, Keeping
  <1>7. Keeps(w, after[n])
    BY <1>1, <1>5, <1>6, WorksKeep
  <1>8. QED
    BY <1>3, <1>7, Fails, Keeping

(* UPDATE, whichever row it fails at. *)
LEMMA UpdateRowsOk ==
  ASSUME NEW w, WorkOk(w), NEW t \in DOMAIN w.db.tables, NEW keys, NEW to \in [Tuples -> Tuples]
  PROVE  Keeps(w, UpdateRows(w, t, keys, to))
  <1> DEFINE rids == Matching(w.db, t, keys)
             n == Len(rids)
             before == [k \in DOMAIN rids |-> RowOf(w.db, rids[k])]
             new == [k \in DOMAIN rids |-> to[before[k]]]
             job == [does |-> "update", table |-> t, rids |-> rids, rows |-> before, new |-> new]
             after[k \in 0..n] ==
                 IF k = 0 THEN w ELSE UpdateOne(after[k - 1], t, rids[k], before[k], new[k])
  <1>1. rids \in Seq(ARid) /\ \A k \in DOMAIN rids : RowOf(w.db, rids[k]) \in ARow
    BY MatchingIs DEF WorkOk
  <1>2. UpdateRows(w, t, keys, to) = IF Refused(w.db, t, new, ToSet(rids)) THEN Fail(w) ELSE after[n]
    BY DEF UpdateRows, UpdateThese
  <1> HIDE DEF rids
  <1>3. n \in Nat /\ DOMAIN rids = 1..n
        /\ \A k \in 1..n : rids[k] \in ARid /\ before[k] \in ARow /\ new[k] \in ARow
    BY <1>1, RowsAre
  <1>4. \A x, k : OneStep(job, x, k) = UpdateOne(x, t, rids[k], before[k], new[k])
    BY DEF OneStep
  <1> HIDE DEF job, n, before, new
  <1>5. PICK f : Runs(f, n, w, job)
    BY <1>3, RunsExist
  <1>6. Runs(after, n, w, job)
    <2>1. f = [k \in 0..n |-> IF k = 0 THEN w ELSE UpdateOne(f[k - 1], t, rids[k], before[k], new[k])]
      BY <1>4, <1>5 DEF Runs
    <2>2. after = [k \in 0..n |-> IF k = 0 THEN w ELSE UpdateOne(after[k - 1], t, rids[k], before[k], new[k])]
      BY <2>1
    <2> HIDE DEF after
    <2>3. QED
      BY <1>4, <2>2 DEF Runs
  <1> HIDE DEF after
  <1>7. ASSUME NEW k \in 1..n, NEW v, Keeps(w, v) PROVE Keeps(w, OneStep(job, v, k))
    <2>1. WorkOk(v) /\ t \in DOMAIN v.db.tables
      BY <1>7 DEF Keeps
    <2>2. Keeps(v, UpdateOne(v, t, rids[k], before[k], new[k]))
      BY <1>3, <2>1, UpdateOneOk
    <2>3. QED
      BY <1>4, <1>7, <2>2, Keeping
  <1>8. Keeps(w, after[n])
    BY <1>3, <1>6, <1>7, WorksKeep
  <1>9. QED
    BY <1>2, <1>8, Fails, Keeping

(* DELETE. *)
LEMMA DeleteRowsOk ==
  ASSUME NEW w, WorkOk(w), NEW t \in DOMAIN w.db.tables, NEW keys
  PROVE  Keeps(w, DeleteRows(w, t, keys))
  <1> DEFINE rids == Matching(w.db, t, keys)
             n == Len(rids)
             job == [does |-> "delete", table |-> t, rids |-> rids, db |-> w.db]
             after[k \in 0..n] ==
                 IF k = 0 THEN w ELSE DeleteOne(after[k - 1], t, rids[k], RowOf(w.db, rids[k]))
  <1>1. rids \in Seq(ARid) /\ \A k \in DOMAIN rids : RowOf(w.db, rids[k]) \in ARow
    BY MatchingIs DEF WorkOk
  <1>2. DeleteRows(w, t, keys) = after[n]
    BY DEF DeleteRows, DeleteThese
  <1> HIDE DEF rids
  <1>3. n \in Nat /\ \A k \in 1..n : rids[k] \in ARid /\ RowOf(w.db, rids[k]) \in ARow
    BY <1>1
  <1>4. \A x, k : OneStep(job, x, k) = DeleteOne(x, t, rids[k], RowOf(w.db, rids[k]))
    BY DEF OneStep
  <1> HIDE DEF job, n
  <1>5. PICK f : Runs(f, n, w, job)
    BY <1>3, RunsExist
  <1>6. Runs(after, n, w, job)
    <2>1. f = [k \in 0..n |-> IF k = 0 THEN w ELSE DeleteOne(f[k - 1], t, rids[k], RowOf(w.db, rids[k]))]
      BY <1>4, <1>5 DEF Runs
    <2>2. after = [k \in 0..n |-> IF k = 0 THEN w ELSE DeleteOne(after[k - 1], t, rids[k], RowOf(w.db, rids[k]))]
      BY <2>1
    <2> HIDE DEF after
    <2>3. QED
      BY <1>4, <2>2 DEF Runs
  <1> HIDE DEF after
  <1>7. ASSUME NEW k \in 1..n, NEW v, Keeps(w, v) PROVE Keeps(w, OneStep(job, v, k))
    <2>1. WorkOk(v) /\ t \in DOMAIN v.db.tables
      BY <1>7 DEF Keeps
    <2>2. Keeps(v, DeleteOne(v, t, rids[k], RowOf(w.db, rids[k])))
      BY <1>3, <2>1, DeleteOneOk
    <2>3. QED
      BY <1>4, <1>7, <2>2, Keeping
  <1>8. Keeps(w, after[n])
    BY <1>3, <1>6, <1>7, WorksKeep
  <1>9. QED
    BY <1>2, <1>8

------------------------------------------------------------------------------
(* Undo, record after record.                                              *)

(* Following moves ends at a position. *)
LEMMA ResolveOk ==
  ASSUME NEW moves, MovesTyped(moves), NEW rid \in ARid
  PROVE  Resolve(moves, rid) \in ARid
  <1> DEFINE n == Cardinality(DOMAIN moves)
             job == [does |-> "hop", moves |-> moves]
             hop[k \in 0..n] ==
                 IF k = 0 THEN rid
                 ELSE IF hop[k - 1] \in DOMAIN moves THEN moves[hop[k - 1]] ELSE hop[k - 1]
  <1>1. n \in Nat /\ \A x \in DOMAIN moves : moves[x] \in ARid
    BY FS_CardinalityType DEF MovesTyped
  <1>2. \A x, k : OneStep(job, x, k) = IF x \in DOMAIN moves THEN moves[x] ELSE x
    BY DEF OneStep
  <1>3. Resolve(moves, rid) = hop[n]
    BY DEF Resolve
  <1> HIDE DEF job, n
  <1>4. PICK f : Runs(f, n, rid, job)
    BY <1>1, RunsExist
  <1>5. Runs(hop, n, rid, job)
    <2>1. f = [k \in 0..n |-> IF k = 0 THEN rid
                 ELSE IF f[k - 1] \in DOMAIN moves THEN moves[f[k - 1]] ELSE f[k - 1]]
      BY <1>2, <1>4 DEF Runs
    <2>2. hop = [k \in 0..n |-> IF k = 0 THEN rid
                 ELSE IF hop[k - 1] \in DOMAIN moves THEN moves[hop[k - 1]] ELSE hop[k - 1]]
      BY <2>1
    <2> HIDE DEF hop
    <2>3. QED
      BY <1>2, <2>2 DEF Runs
  <1> HIDE DEF hop
  <1>6. \A k \in 1..n : hop[k - 1] \in ARid => OneStep(job, hop[k - 1], k) \in ARid
    BY <1>1, <1>2
  <1>7. QED
    BY <1>1, <1>3, <1>5, <1>6, RunsKeep

(* Undo remembers where a row has gone, and nothing else changes. *)
LEMMA Follows ==
  ASSUME NEW w, WorkOk(w), NEW from, NEW to \in ARid
  PROVE  Step(w, Follow(w, from, to))
  <1> DEFINE v == Follow(w, from, to)
             moves == IF from = to THEN w.moves ELSE With(w.moves, from, to)
  <1>1. SameBut(w, v, {"moves", "crossed"}) /\ v.moves = moves
    BY DEF Follow, SameBut, WorkOk, WorkTyped
  <1>2. MovesTyped(moves)
    <2>1. MovesTyped(w.moves)
      BY DEF WorkOk, WorkTyped
    <2>2. IsFiniteSet(DOMAIN w.moves \cup {from})
      BY <2>1, FS_AddElement DEF MovesTyped
    <2>3. MovesTyped(With(w.moves, from, to))
      BY <2>1, <2>2 DEF MovesTyped, With
    <2>4. QED
      BY <2>1, <2>3
  <1> HIDE DEF v, moves
  <1>3. v.db = w.db /\ v.log = w.log /\ WorkOk(v)
    BY <1>1, <1>2 DEF SameBut, WorkOk, WorkTyped
  <1>4. QED
    BY <1>3 DEF Step, v

(* The entry of a row that undo has put back. *)
LEMMA IndexedIfOkOk ==
  ASSUME NEW w, WorkOk(w), NEW t, NEW row, NEW from
  PROVE  Step(w, IndexedIfOk(w, t, row, from))
  <1>1. CASE w.ok
    <2> DEFINE x == IndexInsert(w, t, row, w.rid)
    <2>1. Step(w, x)
      BY IndexStep
    <2>2. w.rid \in ARid
      BY DEF WorkOk, WorkTyped
    <2>3. IndexedIfOk(w, t, row, from) = Follow(x, from, w.rid)
      BY <1>1 DEF IndexedIfOk
    <2> HIDE DEF x
    <2>4. Step(x, Follow(x, from, w.rid))
      BY <2>1, <2>2, Follows DEF Step
    <2>5. QED
      BY <2>1, <2>3, <2>4, Steps
  <1>2. CASE ~ w.ok
    BY <1>2, Steps DEF IndexedIfOk
  <1>3. QED
    BY <1>1, <1>2

(* One record undone, wherever its row is by now. *)
LEMMA UndoOneOk ==
  ASSUME NEW w, WorkOk(w), NEW r \in ARecord
  PROVE  Step(w, UndoOne(w, r))
  <1>1. r.rid \in ARid /\ r.kind \in {"insert", "update", "delete"}
        /\ (r.kind # "insert" => r.before \in ARow)
    BY DEF ARecord
  <1>2. Resolve(w.moves, r.rid) \in ARid
    BY <1>1, ResolveOk DEF WorkOk, WorkTyped
  <1> DEFINE rid == Resolve(w.moves, r.rid)
             t == r.table
  <1> HIDE DEF rid
  <1>3. CASE ~ w.ok
    BY <1>3, Steps DEF UndoOne
  <1>4. CASE w.ok /\ t \notin DOMAIN w.db.tables
    BY <1>4, Fails DEF UndoOne
  <1>5. CASE w.ok /\ t \in DOMAIN w.db.tables /\ r.kind = "delete"
    <2> DEFINE x == InsertRow(w, t, r.before)
    <2>1. Step(w, x)
      BY <1>1, <1>5, InsertRowOk
    <2>2. UndoOne(w, r) = IndexedIfOk(x, t, r.before, r.rid)
      BY <1>5 DEF UndoOne, UndoDelete
    <2> HIDE DEF x
    <2>3. Step(x, IndexedIfOk(x, t, r.before, r.rid))
      BY <2>1, IndexedIfOkOk DEF Step
    <2>4. QED
      BY <2>1, <2>2, <2>3, Steps
  <1>6. CASE w.ok /\ t \in DOMAIN w.db.tables /\ r.kind = "insert"
    <2> DEFINE x == DeleteRow(w, t, rid)
    <2>1. Step(w, x)
      BY <1>2, <1>6, DeleteRowOk DEF rid
    <2>2. UndoOne(w, r) = IndexDelete(x, t, r.after, rid)
      BY <1>6 DEF UndoOne, UndoInsert, rid
    <2> HIDE DEF x
    <2>3. Step(x, IndexDelete(x, t, r.after, rid))
      BY <2>1, IndexStep DEF Step
    <2>4. QED
      BY <2>1, <2>2, <2>3, Steps
  <1>7. CASE w.ok /\ t \in DOMAIN w.db.tables /\ r.kind = "update"
    <2> DEFINE x == UpdateRow(w, t, rid, r.before)
               y == IndexDelete(x, t, r.after, rid)
    <2>1. Step(w, x)
      BY <1>1, <1>2, <1>7, UpdateRowOk DEF rid
    <2>2. UndoOne(w, r) = IndexedIfOk(y, t, r.before, r.old)
      BY <1>7 DEF UndoOne, UndoUpdate, rid
    <2> HIDE DEF x
    <2>3. Step(x, y)
      BY <2>1, IndexStep DEF Step
    <2> HIDE DEF y
    <2>4. Step(y, IndexedIfOk(y, t, r.before, r.old))
      BY <2>3, IndexedIfOkOk DEF Step
    <2>5. QED
      BY <2>1, <2>2, <2>3, <2>4, Steps
  <1>8. QED
    BY <1>1, <1>3, <1>4, <1>5, <1>6, <1>7

(* A whole log undone, whichever record it fails at. *)
LEMMA UndoOk ==
  ASSUME NEW w, WorkOk(w), NEW log \in Seq(ARecord)
  PROVE  Keeps(w, Undo(w, log))
  <1> DEFINE n == Len(log)
             job == [does |-> "undo", log |-> log]
             after[k \in 0..n] == IF k = 0 THEN w ELSE UndoOne(after[k - 1], log[n + 1 - k])
  <1>1. n \in Nat /\ \A k \in 1..n : log[n + 1 - k] \in ARecord
    <2>1. n \in Nat
      OBVIOUS
    <2>2. \A k \in 1..n : n + 1 - k \in 1..n
      BY <2>1
    <2>3. \A k \in 1..n : log[k] \in ARecord
      OBVIOUS
    <2>4. QED
      BY <2>1, <2>2, <2>3
  <1>2. \A x, k : OneStep(job, x, k) = UndoOne(x, log[n + 1 - k])
    BY DEF OneStep
  <1>3. Undo(w, log) = after[n]
    BY DEF Undo
  <1> HIDE DEF job, n
  <1>4. PICK f : Runs(f, n, w, job)
    BY <1>1, RunsExist
  <1>5. Runs(after, n, w, job)
    <2>1. f = [k \in 0..n |-> IF k = 0 THEN w ELSE UndoOne(f[k - 1], log[n + 1 - k])]
      BY <1>2, <1>4 DEF Runs
    <2>2. after = [k \in 0..n |-> IF k = 0 THEN w ELSE UndoOne(after[k - 1], log[n + 1 - k])]
      BY <2>1
    <2> HIDE DEF after
    <2>3. QED
      BY <1>2, <2>2 DEF Runs
  <1> HIDE DEF after
  <1>6. ASSUME NEW k \in 1..n, NEW v, Keeps(w, v) PROVE Keeps(w, OneStep(job, v, k))
    <2> DEFINE r == log[n + 1 - k]
    <2>1. WorkOk(v) /\ r \in ARecord /\ OneStep(job, v, k) = UndoOne(v, r)
      BY <1>1, <1>2, <1>6 DEF Keeps
    <2> HIDE DEF r
    <2>2. Step(v, UndoOne(v, r))
      BY <2>1, UndoOneOk
    <2>3. QED
      BY <1>6, <2>1, <2>2, Keeping
  <1>7. QED
    BY <1>1, <1>3, <1>5, <1>6, WorksKeep

------------------------------------------------------------------------------
(* CREATE, DROP, VACUUM, ANALYZE.                                          *)

\* The storage is as it should be, but for the catalog on disk.
Ready(w, x) == WorkTyped(x) /\ Sound(x.db) /\ x.log = w.log

\* What a statement that writes no rows ends with.
Ends(w, v) == WorkOk(v) /\ v.log = w.log

(* What ends well ends well after another end. *)
LEMMA Ending ==
  /\ \A w, v : Step(w, v) => Ends(w, v)
  /\ \A w : WorkOk(w) => Ready(w, w) /\ Ends(w, w)
  /\ \A w, x, v : Ends(w, x) /\ Ends(x, v) => Ends(w, v)
  /\ \A w, x, v : Ready(w, x) /\ Ready(x, v) => Ready(w, v)
  BY DEF Step, Ends, Ready, WorkOk, DbOk

(* A change of the catalog is persisted, or taken back. *)
LEMMA PersistEnds ==
  ASSUME NEW w, WorkOk(w), NEW x, Ready(w, x)
  PROVE  Ends(w, Persist(x, w))
  BY Persists DEF Ready, Ends

(* A work with another storage. *)
LEMMA Typed ==
  ASSUME NEW w, WorkTyped(w), NEW v, SameBut(w, v, {"db"}), IsDb(v.db)
  PROVE  WorkTyped(v) /\ v.log = w.log
  BY DEF WorkTyped, SameBut

(* An index more, with its file. *)
LEMMA WithIndexOk ==
  ASSUME NEW w, WorkTyped(w), Sound(w.db), NEW i, NEW info
  PROVE  Ready(w, WithIndex(w, i, info))
  <1> DEFINE v == WithIndex(w, i, info)
             indexes == With(w.db.indexes, i, info)
             trees == With(w.db.trees, i, HeapEntries(w.db, info.table))
  <1>1. v = [w EXCEPT !.db = [w.db EXCEPT !.indexes = indexes, !.files = w.db.files \cup {i}, !.trees = trees]]
    BY DEF WithIndex, WorkTyped, IsDb
  <1>2. DOMAIN indexes = DOMAIN w.db.indexes \cup {i}
    BY DEF With
  <1> HIDE DEF indexes, trees
  <1>3. /\ SameBut(w, v, {"db"}) /\ SameBut(w.db, v.db, {"indexes", "files", "trees"})
        /\ v.db.indexes = indexes /\ v.db.files = w.db.files \cup {i}
    BY <1>1 DEF SameBut, WorkTyped, IsDb
  <1> HIDE DEF v
  <1>4. /\ IsDb(v.db) /\ v.db.next = w.db.next /\ v.db.tables = w.db.tables /\ v.db.free = w.db.free
        /\ v.db.fsm = w.db.fsm /\ v.db.stats = w.db.stats /\ v.db.pages = w.db.pages
    BY <1>3 DEF SameBut, WorkTyped, IsDb
  <1>5. DOMAIN v.db.indexes = v.db.files
    BY <1>2, <1>3 DEF Sound, Consistent
  <1>6. Sound(v.db)
    BY <1>4, <1>5 DEF Sound, Consistent, IsDb
  <1>7. QED
    BY <1>3, <1>4, <1>6, Typed DEF Ready, v

(* Indexes less, with their files. *)
LEMMA WithoutIndexesOk ==
  ASSUME NEW w, WorkTyped(w), Sound(w.db), NEW S
  PROVE  Ready(w, WithoutIndexes(w, S))
  <1> DEFINE v == WithoutIndexes(w, S)
             indexes == Without(w.db.indexes, S)
             trees == Without(w.db.trees, S)
  <1>1. v = [w EXCEPT !.db = [w.db EXCEPT !.indexes = indexes, !.trees = trees, !.files = w.db.files \ S]]
    BY DEF WithoutIndexes, WorkTyped, IsDb
  <1>2. DOMAIN indexes = DOMAIN w.db.indexes \ S
    BY DEF Without
  <1> HIDE DEF indexes, trees
  <1>3. /\ SameBut(w, v, {"db"}) /\ SameBut(w.db, v.db, {"indexes", "files", "trees"})
        /\ v.db.indexes = indexes /\ v.db.files = w.db.files \ S
    BY <1>1 DEF SameBut, WorkTyped, IsDb
  <1> HIDE DEF v
  <1>4. /\ IsDb(v.db) /\ v.db.next = w.db.next /\ v.db.tables = w.db.tables /\ v.db.free = w.db.free
        /\ v.db.fsm = w.db.fsm /\ v.db.stats = w.db.stats /\ v.db.pages = w.db.pages
    BY <1>3 DEF SameBut, WorkTyped, IsDb
  <1>5. DOMAIN v.db.indexes = v.db.files
    BY <1>2, <1>3 DEF Sound, Consistent
  <1>6. Sound(v.db)
    BY <1>4, <1>5 DEF Sound, Consistent, IsDb
  <1>7. QED
    BY <1>3, <1>4, <1>6, Typed DEF Ready, v

(* create_index *)
LEMMA CreateIndexOk ==
  ASSUME NEW w, WorkOk(w), NEW i, NEW t, NEW unique
  PROVE  Ends(w, CreateIndexOn(w, i, t, unique))
  <1>1. Ready(w, WithIndex(w, i, IndexInfo(t, unique, FALSE)))
    BY WithIndexOk DEF WorkOk, DbOk
  <1>2. QED
    BY <1>1, PersistEnds, Fails, Ending DEF CreateIndexOn

(* drop_index *)
LEMMA DropIndexOk ==
  ASSUME NEW w, WorkOk(w), NEW i
  PROVE  Ends(w, DropIndexNamed(w, i))
  <1>1. Ready(w, WithoutIndexes(w, {i}))
    BY WithoutIndexesOk DEF WorkOk, DbOk
  <1>2. QED
    BY <1>1, PersistEnds, Fails, Ending DEF DropIndexNamed

(* A table more, with an id and a name that no other has. *)
LEMMA CreateTableOk ==
  ASSUME NEW w, WorkOk(w), NEW n, NEW pk
  PROVE  Ends(w, CreateTableNamed(w, n, pk))
  <1> DEFINE T == w.db.tables
             id == w.db.next
             table == [name |-> n, pk |-> pk, pages |-> <<>>]
             U == With(T, id, table)
             x == WithTable(w, n, pk)
  <1>1. /\ WorkTyped(w) /\ IsDb(w.db) /\ Consistent(w.db, DOMAIN w.db.pages, w.db.files)
        /\ OneOwner(T, w.db.free, DOMAIN w.db.pages) /\ Named(T, id, w.db.stats)
        /\ PagesOk(w.db.pages) /\ SpaceOk(T, w.db.fsm, w.db.pages)
    BY DEF WorkOk, WorkTyped, DbOk, Sound, Consistent
  <1>2. CASE TableIds(w.db, n) # {} \/ (pk /\ Constraint[n] \in DOMAIN w.db.indexes)
    BY <1>2, Fails, Ending DEF CreateTableNamed
  <1>3. CASE ~ (TableIds(w.db, n) # {} \/ (pk /\ Constraint[n] \in DOMAIN w.db.indexes))
    <2>1. \A t \in DOMAIN T : T[t].name # n
      BY <1>3 DEF TableIds
    <2>2. x = [w EXCEPT !.db = [w.db EXCEPT !.next = id + 1, !.tables = U]]
      BY <1>1 DEF WithTable, WorkTyped, IsDb
    <2> HIDE DEF U
    <2>3. /\ SameBut(w, x, {"db"}) /\ SameBut(w.db, x.db, {"next", "tables"})
          /\ x.db.next = id + 1 /\ x.db.tables = U
      BY <1>1, <2>2 DEF SameBut, WorkTyped, IsDb
    <2> HIDE DEF x
    <2>4. /\ IsDb(x.db) /\ x.db.free = w.db.free /\ x.db.indexes = w.db.indexes /\ x.db.files = w.db.files
          /\ x.db.fsm = w.db.fsm /\ x.db.stats = w.db.stats /\ x.db.pages = w.db.pages
      BY <1>1, <2>3 DEF SameBut, IsDb
    <2>5. id \in Nat /\ id \notin DOMAIN T /\ DOMAIN T \subseteq Nat /\ \A t \in DOMAIN T : t < id
      <3>1. id \in Nat /\ DOMAIN T \subseteq Nat /\ \A t \in DOMAIN T : t < id
        BY <1>1 DEF Named, OneOwner, TablesTyped
      <3>2. id \notin DOMAIN T
        <4>1. SUFFICES ASSUME id \in DOMAIN T PROVE FALSE
          OBVIOUS
        <4>2. id < id
          BY <3>1, <4>1
        <4>3. QED
          BY <3>1, <4>2
      <3>3. QED
        BY <3>1, <3>2
    <2>6. /\ DOMAIN U = DOMAIN T \cup {id} /\ U[id] = table
          /\ \A t \in DOMAIN T : U[t] = T[t]
      BY <2>5 DEF U, With
    <2>7. table.pages = <<>> /\ table.name = n /\ {"name", "pk", "pages"} \subseteq DOMAIN table
      OBVIOUS
    <2> HIDE DEF T, id, table
    <2>8. \A t, p : Owner(U, t, p) <=> Owner(T, t, p)
      <3>1. ToSet(<<>>) = {}
        BY DEF ToSet
      <3>2. QED
        BY <2>5, <2>6, <2>7, <3>1 DEF Owner
    <2>9. TablesTyped(U)
      <3>1. <<>> \in Seq(Nat)
        OBVIOUS
      <3>2. TablesTyped(T)
        BY <1>1 DEF OneOwner
      <3>3. QED
        BY <2>5, <2>6, <2>7, <3>1, <3>2 DEF TablesTyped
    <2>10. OneOwner(U, w.db.free, DOMAIN w.db.pages)
      <3>1. IsInjective(<<>>)
        BY DEF IsInjective
      <3>2. \A t \in DOMAIN U : IsInjective(U[t].pages)
        BY <1>1, <2>6, <2>7, <3>1 DEF OneOwner
      <3>3. QED
        BY <1>1, <2>8, <2>9, <3>2 DEF OneOwner
    <2>11. Named(U, id + 1, w.db.stats)
      <3>1. \A t \in DOMAIN U : t < id + 1
        <4>1. SUFFICES ASSUME NEW t \in DOMAIN U PROVE t < id + 1
          OBVIOUS
        <4>2. t \in Nat /\ (t < id \/ t = id)
          BY <2>5, <2>6
        <4>3. QED
          BY <2>5, <4>2
      <3>2. \A t, u \in DOMAIN U : U[t].name = U[u].name => t = u
        BY <1>1, <2>1, <2>6, <2>7 DEF Named, T
      <3>3. QED
        BY <1>1, <2>5, <2>6, <3>1, <3>2 DEF Named
    <2>12. SpaceOk(U, w.db.fsm, w.db.pages)
      BY <1>1, <2>8 DEF SpaceOk
    <2>13. Consistent(x.db, DOMAIN x.db.pages, x.db.files)
      BY <1>1, <2>3, <2>4, <2>10, <2>11 DEF Consistent, IsDb
    <2>14. Sound(x.db)
      BY <1>1, <2>3, <2>4, <2>12, <2>13 DEF Sound
    <2>15. WorkTyped(x) /\ x.log = w.log
      BY <1>1, <2>3, <2>4, Typed
    <2>16. Ready(w, x) /\ Ready(x, WithIndex(x, Constraint[n], IndexInfo(id, TRUE, TRUE)))
      BY <2>14, <2>15, WithIndexOk DEF Ready
    <2>17. Ready(w, WithIndex(x, Constraint[n], IndexInfo(id, TRUE, TRUE)))
      BY <2>16, Ending
    <2>18. CreateTableNamed(w, n, pk) =
             Persist(IF pk THEN WithIndex(x, Constraint[n], IndexInfo(id, TRUE, TRUE)) ELSE x, w)
      BY <1>3 DEF CreateTableNamed, x, id
    <2>19. QED
      BY <2>16, <2>17, <2>18, PersistEnds
  <1>4. QED
    BY <1>2, <1>3

(* One sequence after another. *)
LEMMA Joined ==
  ASSUME NEW s \in Seq(Nat), NEW r \in Seq(Nat)
  PROVE  /\ s \o r \in Seq(Nat)
         /\ ToSet(s \o r) = ToSet(s) \cup ToSet(r)
         /\ IsInjective(s) /\ IsInjective(r) /\ ToSet(s) \cap ToSet(r) = {} => IsInjective(s \o r)
  <1> DEFINE n == Len(s)
             m == Len(r)
             a == s \o r
  <1>1. /\ n \in Nat /\ m \in Nat /\ DOMAIN s = 1..n /\ DOMAIN r = 1..m
        /\ a \in Seq(Nat) /\ Len(a) = n + m /\ DOMAIN a = 1..(n + m)
    OBVIOUS
  <1>2. /\ \A j \in 1..n : a[j] = s[j]
        /\ \A j \in 1..(n + m) : j > n => a[j] = r[j - n]
    OBVIOUS
  <1> HIDE DEF n, m, a
  <1>3. \A j \in 1..(n + m) : j \in 1..n \/ (j > n /\ j - n \in 1..m)
    BY <1>1
  <1>4. (\A j \in 1..n : j \in 1..(n + m)) /\ \A j \in 1..m : j + n \in 1..(n + m) /\ j + n > n /\ (j + n) - n = j
    BY <1>1
  <1>5. ToSet(a) \subseteq ToSet(s) \cup ToSet(r)
    BY <1>1, <1>2, <1>3 DEF ToSet
  <1>6. ToSet(s) \subseteq ToSet(a)
    BY <1>1, <1>2, <1>4 DEF ToSet
  <1>7. ToSet(r) \subseteq ToSet(a)
    <2>1. \A j \in 1..m : a[j + n] = r[j] /\ j + n \in DOMAIN a
      BY <1>1, <1>2, <1>4
    <2>2. QED
      BY <1>1, <2>1 DEF ToSet
  <1>8. ASSUME IsInjective(s), IsInjective(r), ToSet(s) \cap ToSet(r) = {} PROVE IsInjective(a)
    <2>1. \A j \in 1..n : \A k \in 1..m : s[j] # r[k]
      BY <1>1, <1>8 DEF ToSet
    <2>2. /\ \A j, k \in 1..n : s[j] = s[k] => j = k
          /\ \A j, k \in 1..m : r[j] = r[k] => j = k
      BY <1>1, <1>8 DEF IsInjective
    <2>3. ASSUME NEW j \in 1..(n + m), NEW k \in 1..(n + m), a[j] = a[k] PROVE j = k
      <3>1. CASE j \in 1..n /\ k \in 1..n
        BY <1>2, <2>2, <2>3, <3>1
      <3>2. CASE j > n /\ k > n
        <4>1. j - n \in 1..m /\ k - n \in 1..m /\ a[j] = r[j - n] /\ a[k] = r[k - n]
          BY <1>1, <1>2, <3>2
        <4>2. j - n = k - n
          BY <2>2, <2>3, <4>1
        <4>3. QED
          BY <1>1, <4>2
      <3>3. CASE j \in 1..n /\ k > n
        <4>1. k - n \in 1..m /\ a[k] = r[k - n] /\ a[j] = s[j]
          BY <1>1, <1>2, <3>3
        <4>2. QED
          BY <2>1, <2>3, <3>3, <4>1
      <3>4. CASE j > n /\ k \in 1..n
        <4>1. j - n \in 1..m /\ a[j] = r[j - n] /\ a[k] = s[k]
          BY <1>1, <1>2, <3>4
        <4>2. QED
          BY <2>1, <2>3, <3>4, <4>1
      <3>5. QED
        BY <1>3, <3>1, <3>2, <3>3, <3>4
    <2>4. QED
      BY <1>1, <2>3 DEF IsInjective
  <1>9. QED
    BY <1>1, <1>5, <1>6, <1>7, <1>8 DEF a


(* The room on a page is a number. *)
LEMMA SpaceIsInt ==
  ASSUME NEW page, PageOk(page)
  PROVE  FreeSpace(page) \in Int
  BY PageFacts DEF PageOk, FreeSpace

(* The pages of a table that goes are free. *)
LEMMA DropTableOk ==
  ASSUME NEW w, WorkOk(w), NEW t \in DOMAIN w.db.tables
  PROVE  Ends(w, DropTableId(w, t))
  <1> DEFINE T == w.db.tables
             s == w.db.tables[t].pages
             U == Without(T, {t})
             free == w.db.free \o s
             fsm == Without(w.db.fsm, ToSet(s))
             stats == w.db.stats \ {t}
             x == [w EXCEPT !.db.tables = Without(@, {t}), !.db.stats = @ \ {t},
                            !.db.free = @ \o w.db.tables[t].pages,
                            !.db.fsm = Without(@, ToSet(w.db.tables[t].pages))]
  <1>1. /\ WorkTyped(w) /\ IsDb(w.db) /\ Consistent(w.db, DOMAIN w.db.pages, w.db.files)
        /\ OneOwner(T, w.db.free, DOMAIN w.db.pages) /\ Named(T, w.db.next, w.db.stats)
        /\ PagesOk(w.db.pages) /\ SpaceOk(T, w.db.fsm, w.db.pages)
    BY DEF WorkOk, WorkTyped, DbOk, Sound, Consistent
  <1>2. x = [w EXCEPT !.db.tables = U, !.db.stats = stats, !.db.free = free, !.db.fsm = fsm]
    OBVIOUS
  <1> HIDE DEF U, stats, free, fsm, x
  <1>3. /\ SameBut(w, x, {"db"}) /\ SameBut(w.db, x.db, {"tables", "stats", "free", "fsm"})
        /\ x.db.tables = U /\ x.db.stats = stats /\ x.db.free = free /\ x.db.fsm = fsm
    BY <1>1, <1>2 DEF SameBut, WorkTyped, IsDb
  <1>4. DropTableId(w, t) = Persist(WithoutIndexes(x, IndexesOf(w.db, t)), w)
    BY DEF DropTableId, x
  <1>5. /\ IsDb(x.db) /\ x.db.next = w.db.next /\ x.db.indexes = w.db.indexes
        /\ x.db.files = w.db.files /\ x.db.pages = w.db.pages
    BY <1>1, <1>3 DEF SameBut, IsDb
  <1>6. /\ DOMAIN U = DOMAIN T \ {t} /\ \A u \in DOMAIN U : U[u] = T[u]
        /\ DOMAIN fsm = DOMAIN w.db.fsm \ ToSet(s) /\ \A p \in DOMAIN fsm : fsm[p] = w.db.fsm[p]
    BY DEF U, fsm, Without
  <1>7. TablesTyped(T) /\ s \in Seq(Nat) /\ w.db.free \in Seq(Nat)
    BY <1>1 DEF OneOwner, TablesTyped
  <1>8. \A p : p \in ToSet(s) <=> Owner(T, t, p)
    BY DEF Owner
  <1>9. ToSet(w.db.free) \cap ToSet(s) = {}
    BY <1>1, <1>8 DEF OneOwner
  <1> HIDE DEF s
  <1>10. free \in Seq(Nat) /\ ToSet(free) = ToSet(w.db.free) \cup ToSet(s) /\ IsInjective(free)
    <2>1. IsInjective(w.db.free) /\ IsInjective(s)
      BY <1>1 DEF OneOwner, s
    <2>2. QED
      BY <1>7, <1>9, <2>1, Joined DEF free
  <1> HIDE DEF T
  <1>11. \A u, p : Owner(U, u, p) <=> Owner(T, u, p) /\ u # t
    BY <1>6 DEF Owner
  <1>12. OneOwner(U, free, DOMAIN w.db.pages)
    <2>1. TablesTyped(U)
      BY <1>6, <1>7 DEF TablesTyped
    <2>2. \A u, p : Owner(U, u, p) => p \in DOMAIN w.db.pages /\ p \notin ToSet(free)
      BY <1>1, <1>8, <1>10, <1>11 DEF OneOwner
    <2>3. ToSet(free) \subseteq DOMAIN w.db.pages
      BY <1>1, <1>8, <1>10 DEF OneOwner
    <2>4. QED
      BY <1>1, <1>6, <1>10, <1>11, <2>1, <2>2, <2>3 DEF OneOwner
  <1>13. Named(U, w.db.next, stats)
    BY <1>1, <1>6 DEF Named, stats
  <1>14. SpaceOk(U, fsm, w.db.pages)
    BY <1>1, <1>6, <1>8, <1>11 DEF SpaceOk, OneOwner
  <1>15. Consistent(x.db, DOMAIN x.db.pages, x.db.files)
    BY <1>1, <1>3, <1>5, <1>12, <1>13 DEF Consistent, IsDb
  <1>16. Sound(x.db)
    BY <1>1, <1>3, <1>5, <1>14, <1>15 DEF Sound
  <1>17. Ready(w, x)
    BY <1>1, <1>3, <1>5, <1>16, Typed DEF Ready
  <1>18. Ready(x, WithoutIndexes(x, IndexesOf(w.db, t)))
    BY <1>17, WithoutIndexesOk DEF Ready
  <1>19. Ready(w, WithoutIndexes(x, IndexesOf(w.db, t)))
    BY <1>17, <1>18, Ending
  <1>20. QED
    BY <1>4, <1>19, PersistEnds

(* Trees made again, and nothing else. *)
LEMMA RebuiltTrees ==
  ASSUME NEW w, WorkTyped(w), NEW ts
  PROVE  /\ SameBut(w, Rebuilt(w, ts), {"db", "ok"})
         /\ SameBut(w.db, Rebuilt(w, ts).db, {"trees"})
         /\ Rebuilt(w, ts).ok \in BOOLEAN
  <1> DEFINE of == {i \in DOMAIN w.db.indexes : w.db.indexes[i].table \in ts}
             trees == [i \in DOMAIN w.db.trees |->
                         IF i \in of THEN HeapEntries(w.db, w.db.indexes[i].table) ELSE w.db.trees[i]]
             v == Rebuilt(w, ts)
  <1>1. v = [w EXCEPT !.db = [w.db EXCEPT !.trees = trees]] \/ v = [w EXCEPT !.ok = FALSE]
    BY DEF Rebuilt, Fail, WorkTyped, IsDb
  <1> HIDE DEF trees, v
  <1>2. /\ SameBut(w, v, {"db", "ok"}) /\ SameBut(w.db, v.db, {"trees"}) /\ v.ok \in BOOLEAN
    BY <1>1 DEF SameBut, WorkTyped, IsDb
  <1>3. QED
    BY <1>2 DEF v

(* Indexes rebuilt, or not. *)
LEMMA RebuiltOk ==
  ASSUME NEW w, WorkOk(w), NEW ts
  PROVE  Ends(w, Rebuilt(w, ts))
  BY RebuiltTrees, TreesOnly, Ending DEF WorkOk

(* set_table_stats *)
LEMMA AnalyzeOk ==
  ASSUME NEW w, WorkOk(w), NEW t \in DOMAIN w.db.tables
  PROVE  Ends(w, AnalyzeTable(w, t))
  <1> DEFINE x == [w EXCEPT !.db.stats = @ \cup {t}]
             stats == w.db.stats \cup {t}
  <1>1. WorkTyped(w) /\ Sound(w.db)
    BY DEF WorkOk, DbOk
  <1>2. x = [w EXCEPT !.db = [w.db EXCEPT !.stats = stats]]
    BY <1>1 DEF WorkTyped, IsDb
  <1> HIDE DEF stats
  <1>3. SameBut(w, x, {"db"}) /\ SameBut(w.db, x.db, {"stats"}) /\ x.db.stats = stats
    BY <1>1, <1>2 DEF SameBut, WorkTyped, IsDb
  <1>4. AnalyzeTable(w, t) = Persist(x, w)
    BY DEF AnalyzeTable
  <1> HIDE DEF x
  <1>5. /\ IsDb(x.db) /\ x.db.next = w.db.next /\ x.db.tables = w.db.tables /\ x.db.free = w.db.free
        /\ x.db.fsm = w.db.fsm /\ x.db.indexes = w.db.indexes
        /\ x.db.pages = w.db.pages /\ x.db.files = w.db.files
    BY <1>1, <1>3 DEF SameBut, WorkTyped, IsDb
  <1>6. Named(w.db.tables, w.db.next, stats)
    BY <1>1 DEF Sound, Consistent, Named, stats
  <1>7. Consistent(x.db, DOMAIN x.db.pages, x.db.files)
    BY <1>1, <1>3, <1>5, <1>6 DEF Sound, Consistent, IsDb
  <1>8. Sound(x.db)
    BY <1>1, <1>5, <1>7 DEF Sound
  <1>9. QED
    BY <1>1, <1>3, <1>4, <1>5, <1>8, Typed, PersistEnds DEF Ready

(* A table's pages compacted, and the empty ones given to the free list: the
   catalog on disk may still say that the table has them. *)
LEMMA VacuumedOk ==
  ASSUME NEW w, WorkOk(w), NEW t \in DOMAIN w.db.tables
  PROVE  Ends(w, Vacuumed(w, t))
  <1> DEFINE T == w.db.tables
             P == w.db.pages
             s == w.db.tables[t].pages
             emptied == Emptied(w.db, t)
             kept == Remaining(s, emptied)
             gone == Among(s, emptied)
             U == [T EXCEPT ![t].pages = kept]
             free == w.db.free \o gone
             Q == [p \in DOMAIN P |-> IF p \in ToSet(s) THEN Compact(P[p]) ELSE P[p]]
             fsm == [p \in (DOMAIN w.db.fsm \cup ToSet(s)) \ emptied |->
                       IF p \in ToSet(s) THEN FreeSpace(Q[p]) ELSE w.db.fsm[p]]
             x == Vacuumed(w, t)
  <1>1. /\ WorkTyped(w) /\ IsDb(w.db) /\ Consistent(w.db, DOMAIN P, w.db.files)
        /\ Consistent(w.db.catalog, DOMAIN P, w.db.files)
        /\ OneOwner(T, w.db.free, DOMAIN P) /\ Named(T, w.db.next, w.db.stats)
        /\ PagesOk(P) /\ SpaceOk(T, w.db.fsm, P)
    BY DEF WorkOk, WorkTyped, DbOk, Sound, Consistent
  <1>2. x = [w EXCEPT !.db = [w.db EXCEPT !.pages = Q, !.fsm = fsm, !.free = free, !.tables = U]]
    BY <1>1 DEF WorkTyped, IsDb, Vacuumed
  <1>3. TablesTyped(T) /\ s \in Seq(Nat) /\ w.db.free \in Seq(Nat) /\ IsInjective(s) /\ IsInjective(w.db.free)
    BY <1>1 DEF OneOwner, TablesTyped
  <1>4. /\ \A p : p \in ToSet(s) <=> Owner(T, t, p)
        /\ emptied \subseteq ToSet(s)
    BY DEF Owner, Emptied
  <1>5. /\ DOMAIN U = DOMAIN T /\ U[t].pages = kept
        /\ \A u \in DOMAIN T : u # t => U[u] = T[u]
        /\ \A u \in DOMAIN T : DOMAIN U[u] = DOMAIN T[u] /\ U[u].name = T[u].name
    BY <1>3 DEF TablesTyped
  <1>6. /\ DOMAIN Q = DOMAIN P
        /\ \A p \in DOMAIN P : Q[p] = IF p \in ToSet(s) THEN Compact(P[p]) ELSE P[p]
    OBVIOUS
  <1>7. /\ DOMAIN fsm = (DOMAIN w.db.fsm \cup ToSet(s)) \ emptied
        /\ \A p \in DOMAIN fsm : fsm[p] = IF p \in ToSet(s) THEN FreeSpace(Q[p]) ELSE w.db.fsm[p]
    OBVIOUS
  <1> HIDE DEF U, free, Q, fsm
  <1>8. /\ SameBut(w, x, {"db"}) /\ SameBut(w.db, x.db, {"pages", "fsm", "free", "tables"})
        /\ x.db.tables = U /\ x.db.pages = Q /\ x.db.free = free /\ x.db.fsm = fsm
    BY <1>1, <1>2 DEF SameBut, WorkTyped, IsDb
  <1> HIDE DEF x
  <1>9. /\ IsDb(x.db) /\ x.db.next = w.db.next /\ x.db.indexes = w.db.indexes
        /\ x.db.files = w.db.files /\ x.db.stats = w.db.stats /\ x.db.catalog = w.db.catalog
    BY <1>1, <1>8 DEF SameBut, IsDb
  <1> HIDE DEF emptied, s
  <1>10. /\ kept \in Seq(Nat) /\ ToSet(kept) = ToSet(s) \ emptied /\ IsInjective(kept)
    <2> DEFINE S == ToSet(s) \ emptied
    <2>1. kept = Among(s, S)
      BY DEF Remaining
    <2> HIDE DEF S
    <2>2. Among(s, S) \in Seq(Nat) /\ ToSet(Among(s, S)) = ToSet(s) \cap S /\ IsInjective(Among(s, S))
      BY <1>3, AmongIs
    <2>3. ToSet(s) \cap S = ToSet(s) \ emptied
      BY DEF S
    <2> HIDE DEF kept
    <2>4. QED
      BY <2>1, <2>2, <2>3
  <1>11. /\ gone \in Seq(Nat) /\ ToSet(gone) = emptied /\ IsInjective(gone)
    <2>1. gone \in Seq(Nat) /\ ToSet(gone) = ToSet(s) \cap emptied /\ IsInjective(gone)
      BY <1>3, AmongIs
    <2>2. ToSet(s) \cap emptied = emptied
      BY <1>4
    <2> HIDE DEF gone
    <2>3. QED
      BY <2>1, <2>2
  <1> HIDE DEF kept, gone
  <1>12. ToSet(w.db.free) \cap emptied = {}
    BY <1>1, <1>4 DEF OneOwner
  <1>13. free \in Seq(Nat) /\ ToSet(free) = ToSet(w.db.free) \cup emptied /\ IsInjective(free)
    BY <1>3, <1>11, <1>12, Joined DEF free
  <1> HIDE DEF T, P
  <1>14. \A u, p : Owner(U, u, p) <=> Owner(T, u, p) /\ ~ (u = t /\ p \in emptied)
    BY <1>4, <1>5, <1>10 DEF Owner
  <1>15. OneOwner(U, free, DOMAIN P)
    <2>1. TablesTyped(U)
      BY <1>3, <1>5, <1>10 DEF TablesTyped
    <2>2. \A u, p : Owner(U, u, p) => p \in DOMAIN P /\ p \notin ToSet(free)
      BY <1>1, <1>4, <1>13, <1>14 DEF OneOwner
    <2>3. ToSet(free) \subseteq DOMAIN P
      BY <1>1, <1>4, <1>13 DEF OneOwner
    <2>4. \A u \in DOMAIN U : IsInjective(U[u].pages)
      BY <1>1, <1>5, <1>10 DEF OneOwner
    <2>5. QED
      BY <1>1, <1>13, <1>14, <2>1, <2>2, <2>3, <2>4 DEF OneOwner
  <1>16. Named(U, w.db.next, w.db.stats)
    BY <1>1, <1>5 DEF Named
  <1>17. \A p \in DOMAIN P : PageOk(Q[p]) /\ FreeSpace(P[p]) <= FreeSpace(Q[p]) /\ FreeSpace(Q[p]) \in Int
    <2>1. SUFFICES ASSUME NEW p \in DOMAIN P
                   PROVE  PageOk(Q[p]) /\ FreeSpace(P[p]) <= FreeSpace(Q[p]) /\ FreeSpace(Q[p]) \in Int
      OBVIOUS
    <2>2. PageOk(P[p])
      BY <1>1 DEF PagesOk
    <2>3. \A page : PageOk(page) => FreeSpace(page) \in Int
      BY SpaceIsInt
    <2>4. PageOk(Compact(P[p])) /\ FreeSpace(P[p]) <= FreeSpace(Compact(P[p]))
      BY <2>2, CompactOk
    <2>5. FreeSpace(P[p]) <= FreeSpace(P[p])
      BY <2>2, <2>3
    <2>6. QED
      BY <1>6, <2>2, <2>3, <2>4, <2>5
  <1>18. PagesOk(Q)
    BY <1>1, <1>6, <1>17 DEF PagesOk
  <1>19. SpaceOk(U, fsm, Q)
    <2>1. ToSet(s) \subseteq DOMAIN P
      BY <1>1, <1>4 DEF OneOwner
    <2>2. \A u, p : Owner(U, u, p) => p \in DOMAIN fsm
      BY <1>1, <1>4, <1>7, <1>14 DEF SpaceOk, OneOwner
    <2>3. DOMAIN fsm \subseteq DOMAIN Q
      BY <1>1, <1>6, <1>7, <2>1 DEF SpaceOk
    <2>4. ASSUME NEW p \in DOMAIN fsm PROVE fsm[p] \in Int /\ fsm[p] <= FreeSpace(Q[p])
      <3>1. CASE p \in ToSet(s)
        BY <1>7, <1>17, <2>1, <2>4, <3>1
      <3>2. CASE p \notin ToSet(s)
        <4>1. /\ p \in DOMAIN w.db.fsm /\ p \in DOMAIN P
              /\ fsm[p] = w.db.fsm[p] /\ Q[p] = P[p]
          BY <1>1, <1>6, <1>7, <2>4, <3>2 DEF SpaceOk
        <4>2. QED
          BY <1>1, <4>1 DEF SpaceOk
      <3>3. QED
        BY <3>1, <3>2
    <2>5. QED
      BY <2>2, <2>3, <2>4 DEF SpaceOk
  <1>20. Consistent(x.db, DOMAIN x.db.pages, x.db.files)
    BY <1>1, <1>6, <1>8, <1>9, <1>15, <1>16 DEF Consistent, IsDb
  <1>21. DbOk(x.db)
    BY <1>1, <1>6, <1>8, <1>9, <1>18, <1>19, <1>20 DEF DbOk, Sound
  <1>22. QED
    BY <1>1, <1>8, <1>9, <1>21, Typed DEF Ends, WorkOk, x

(* vacuum_table, whether the indexes can be rebuilt or not. *)
LEMMA VacuumOk ==
  ASSUME NEW w, WorkOk(w), NEW t \in DOMAIN w.db.tables
  PROVE  Ends(w, VacuumTable(w, t))
  <1> DEFINE v == Rebuilt(Vacuumed(w, t), {t})
  <1>1. Ends(w, v)
    BY VacuumedOk, RebuiltOk, Ending DEF Ends
  <1>2. VacuumTable(w, t) = IF v.ok THEN Persist(v, v) ELSE v
    BY DEF VacuumTable
  <1> HIDE DEF v
  <1>3. Ends(v, Persist(v, v))
    BY <1>1, PersistEnds, Ending DEF Ends
  <1>4. QED
    BY <1>1, <1>2, <1>3, Ending

(* What is on disk is opened. *)
LEMMA OpenedOk ==
  ASSUME NEW w, WorkOk(w)
  PROVE  Ends(w, OpenWith(w, w.db.catalog))
  <1> DEFINE c == w.db.catalog
             P == w.db.pages
             x == OpenWith(w, c)
             trees == [i \in DOMAIN c.indexes |-> {}]
             fsm == [p \in UNION {ToSet(c.tables[t].pages) : t \in DOMAIN c.tables} |-> FreeSpace(w.db.pages[p])]
  <1>1. /\ WorkTyped(w) /\ IsDb(w.db) /\ Consistent(c, DOMAIN P, w.db.files) /\ PagesOk(P)
        /\ OneOwner(c.tables, c.free, DOMAIN P)
    BY DEF WorkOk, WorkTyped, DbOk, Sound, Consistent
  <1>2. x = [w EXCEPT !.db = [w.db EXCEPT !.next = c.next, !.tables = c.tables, !.free = c.free,
                                !.indexes = c.indexes, !.stats = c.stats, !.trees = trees, !.fsm = fsm]]
    BY <1>1 DEF WorkTyped, IsDb, OpenWith
  <1>3. /\ DOMAIN fsm = UNION {ToSet(c.tables[t].pages) : t \in DOMAIN c.tables}
        /\ \A p \in DOMAIN fsm : fsm[p] = FreeSpace(P[p])
    OBVIOUS
  <1> HIDE DEF trees, fsm, c
  <1>4. /\ SameBut(w, x, {"db"})
        /\ SameBut(w.db, x.db, {"next", "tables", "free", "indexes", "stats", "trees", "fsm"})
        /\ x.db.next = c.next /\ x.db.tables = c.tables /\ x.db.free = c.free
        /\ x.db.indexes = c.indexes /\ x.db.stats = c.stats /\ x.db.fsm = fsm
    BY <1>1, <1>2 DEF SameBut, WorkTyped, IsDb
  <1> HIDE DEF x
  <1>5. IsDb(x.db) /\ x.db.pages = P /\ x.db.files = w.db.files /\ x.db.catalog = c
    BY <1>1, <1>4 DEF SameBut, IsDb, c
  <1>6. \A p : p \in DOMAIN fsm <=> \E t : Owner(c.tables, t, p)
    BY <1>3 DEF Owner
  <1>7. SpaceOk(c.tables, fsm, P)
    <2>1. DOMAIN fsm \subseteq DOMAIN P
      BY <1>1, <1>6 DEF OneOwner
    <2>2. \A p \in DOMAIN fsm : fsm[p] \in Int /\ fsm[p] <= FreeSpace(P[p])
      <3>1. \A p \in DOMAIN fsm : FreeSpace(P[p]) \in Int
        BY <1>1, <2>1, SpaceIsInt DEF PagesOk
      <3>2. QED
        BY <1>3, <3>1
    <2>3. QED
      BY <1>6, <2>1, <2>2 DEF SpaceOk
  <1>8. Consistent(x.db, DOMAIN P, w.db.files)
    BY <1>1, <1>4, <1>5 DEF Consistent, IsDb
  <1>9. DbOk(x.db)
    BY <1>1, <1>4, <1>5, <1>7, <1>8 DEF DbOk, Sound
  <1>10. QED
    BY <1>1, <1>4, <1>5, <1>9, Typed DEF Ends, WorkOk, x, c

(* Storage::open, with the undo of what a transaction left. *)
LEMMA OpenAgainOk ==
  ASSUME NEW w, WorkOk(w), NEW log \in Seq(ARecord)
  PROVE  WorkOk(OpenAgain(w, log))
  <1> DEFINE opened == OpenWith(w, w.db.catalog)
             x == Rebuilt(opened, DOMAIN opened.db.tables)
  <1>1. Ends(w, opened)
    BY OpenedOk
  <1>2. WorkOk(x)
    BY <1>1, RebuiltOk DEF Ends
  <1>3. OpenAgain(w, log) = IF Opens(w.db, w.db.catalog) THEN Undo(x, log) ELSE Fail(w)
    BY DEF OpenAgain
  <1> HIDE DEF x
  <1>4. WorkOk(Undo(x, log))
    BY <1>2, UndoOk DEF Keeps
  <1>5. QED
    BY <1>3, <1>4, Fails DEF Step

------------------------------------------------------------------------------
(* Statements, and the steps of a session.                                 *)

(* A statement begins with the storage as it is. *)
LEMMA BeginOk ==
  ASSUME NEW d, DbOk(d)
  PROVE  WorkOk(Begin(d)) /\ Begin(d).db = d
  <1>1. IsDb(d)
    BY DEF DbOk, Sound
  <1>2. NoRid \in ARid /\ <<>> \in Seq(ARecord)
    BY DEF NoRid, ARid
  <1>3. MovesTyped(<<>>)
    <2>1. DOMAIN <<>> = {}
      OBVIOUS
    <2>2. QED
      BY <2>1, FS_EmptySet DEF MovesTyped
  <1>4. QED
    BY <1>1, <1>2, <1>3 DEF Begin, WorkOk, WorkTyped

(* Statements have what their kind needs. *)
LEMMA StatementShapes ==
  ASSUME NEW s \in Statements
  PROVE  /\ s.op \in {"create_table", "drop_table", "vacuum", "analyze", "create_index",
                      "drop_index", "insert", "update", "delete"}
         /\ s.op = "insert" => s.rows \in Seq(Tuples)
         /\ s.op = "update" => s.to \in [Tuples -> Tuples]
  <1>1. CASE s \in [op : {"create_table"}, table : Names, pk : BOOLEAN]
    BY <1>1
  <1>2. CASE s \in [op : {"drop_table", "vacuum", "analyze"}, table : Names]
    BY <1>2
  <1>3. CASE s \in [op : {"create_index"}, index : STRING, table : Names, unique : BOOLEAN]
    BY <1>3
  <1>4. CASE s \in [op : {"drop_index"}, index : STRING]
    BY <1>4
  <1>5. CASE s \in [op : {"insert"}, table : Names, rows : Seq(Tuples)]
    BY <1>5
  <1>6. CASE s \in [op : {"update"}, table : Names, keys : SUBSET Nat, to : [Tuples -> Tuples]]
    BY <1>6
  <1>7. CASE s \in [op : {"delete"}, table : Names, keys : SUBSET Nat]
    BY <1>7
  <1>8. QED
    BY <1>1, <1>2, <1>3, <1>4, <1>5, <1>6, <1>7 DEF Statements

(* The id of a name that is there. *)
LEMMA TableIdOk ==
  ASSUME NEW d, NEW n, TableIds(d, n) # {}
  PROVE  TableId(d, n) \in DOMAIN d.tables
  <1>1. TableId(d, n) \in TableIds(d, n)
    BY DEF TableId
  <1>2. QED
    BY <1>1 DEF TableIds

(* Whatever a statement does, and however far it comes, the storage is as it
   should be afterwards. *)
LEMMA PerformOk ==
  ASSUME NEW d, DbOk(d), NEW s \in Statements
  PROVE  WorkOk(Perform(d, s))
  <1> DEFINE w == Begin(d)
             t == TableId(d, s.table)
  <1>1. WorkOk(w) /\ w.db = d
    BY BeginOk
  <1>2. /\ s.op \in {"create_table", "drop_table", "vacuum", "analyze", "create_index",
                     "drop_index", "insert", "update", "delete"}
        /\ s.op = "insert" => s.rows \in Seq(Tuples)
        /\ s.op = "update" => s.to \in [Tuples -> Tuples]
    BY StatementShapes
  <1>3. Perform(d, s) =
          CASE ~ Found(d, s)            -> Fail(w)
            [] s.op = "create_table"    -> CreateTableNamed(w, s.table, s.pk)
            [] s.op = "drop_index"      -> DropIndexNamed(w, s.index)
            [] Found(d, s) /\ s.op = "drop_table"   -> DropTableId(w, t)
            [] Found(d, s) /\ s.op = "create_index" -> CreateIndexOn(w, s.index, t, s.unique)
            [] Found(d, s) /\ s.op = "insert"       -> InsertRows(w, t, s.rows)
            [] Found(d, s) /\ s.op = "update"       -> UpdateRows(w, t, s.keys, s.to)
            [] Found(d, s) /\ s.op = "delete"       -> DeleteRows(w, t, s.keys)
            [] Found(d, s) /\ s.op = "vacuum"       -> VacuumTable(w, t)
            [] Found(d, s) /\ s.op = "analyze"      -> AnalyzeTable(w, t)
    BY DEF Perform
  <1> HIDE DEF w
  <1>4. CASE ~ Found(d, s)
    <2>1. s.op # "create_table" /\ s.op # "drop_index"
      BY <1>4 DEF Found
    <2>2. Perform(d, s) = Fail(w)
      BY <1>3, <1>4, <2>1
    <2>3. QED
      BY <1>1, <2>2, Fails DEF Step
  <1>5. CASE s.op = "create_table"
    <2>1. Found(d, s)
      BY <1>5 DEF Found
    <2>2. Perform(d, s) = CreateTableNamed(w, s.table, s.pk)
      BY <1>3, <1>5, <2>1
    <2>3. QED
      BY <1>1, <2>2, CreateTableOk DEF Ends
  <1>6. CASE s.op = "drop_index"
    <2>1. Found(d, s)
      BY <1>6 DEF Found
    <2>2. Perform(d, s) = DropIndexNamed(w, s.index)
      BY <1>3, <1>6, <2>1
    <2>3. QED
      BY <1>1, <2>2, DropIndexOk DEF Ends
  <1>7. CASE Found(d, s) /\ s.op # "create_table" /\ s.op # "drop_index"
    <2>1. t \in DOMAIN w.db.tables
      BY <1>1, <1>7, TableIdOk DEF Found
    <2> HIDE DEF t
    <2>2. CASE s.op = "drop_table"
      <3>1. Perform(d, s) = DropTableId(w, t)
        BY <1>3, <1>7, <2>2
      <3>2. QED
        BY <1>1, <2>1, <3>1, DropTableOk DEF Ends
    <2>3. CASE s.op = "create_index"
      <3>1. Perform(d, s) = CreateIndexOn(w, s.index, t, s.unique)
        BY <1>3, <1>7, <2>3
      <3>2. QED
        BY <1>1, <2>1, <3>1, CreateIndexOk DEF Ends
    <2>4. CASE s.op = "insert"
      <3>1. Perform(d, s) = InsertRows(w, t, s.rows) /\ s.rows \in Seq(Tuples)
        BY <1>2, <1>3, <1>7, <2>4
      <3>2. QED
        BY <1>1, <2>1, <3>1, InsertRowsOk DEF Keeps
    <2>5. CASE s.op = "update"
      <3>1. Perform(d, s) = UpdateRows(w, t, s.keys, s.to) /\ s.to \in [Tuples -> Tuples]
        BY <1>2, <1>3, <1>7, <2>5
      <3>2. QED
        BY <1>1, <2>1, <3>1, UpdateRowsOk DEF Keeps
    <2>6. CASE s.op = "delete"
      <3>1. Perform(d, s) = DeleteRows(w, t, s.keys)
        BY <1>3, <1>7, <2>6
      <3>2. QED
        BY <1>1, <2>1, <3>1, DeleteRowsOk DEF Keeps
    <2>7. CASE s.op = "vacuum"
      <3>1. Perform(d, s) = VacuumTable(w, t)
        BY <1>3, <1>7, <2>7
      <3>2. QED
        BY <1>1, <2>1, <3>1, VacuumOk DEF Ends
    <2>8. CASE s.op = "analyze"
      <3>1. Perform(d, s) = AnalyzeTable(w, t)
        BY <1>3, <1>7, <2>8
      <3>2. QED
        BY <1>1, <2>1, <3>1, AnalyzeOk DEF Ends
    <2>9. QED
      BY <1>2, <1>7, <2>2, <2>3, <2>4, <2>5, <2>6, <2>7, <2>8
  <1>8. QED
    BY <1>4, <1>5, <1>6, <1>7

(* Storage::create *)
LEMMA EmptyDbOk == DbOk(Empty)
  <1> DEFINE none == <<>>
  <1>1. DOMAIN none = {} /\ ToSet(none) = {} /\ none \in Seq(Nat) /\ IsInjective(none)
    BY DEF ToSet, IsInjective
  <1>2. /\ IsDb(Empty)
        /\ Empty.next = 0 /\ Empty.tables = none /\ Empty.free = none /\ Empty.fsm = none
        /\ Empty.indexes = none /\ Empty.stats = {} /\ Empty.pages = none /\ Empty.files = {}
        /\ Empty.catalog = [next |-> 0, tables |-> none, free |-> none, indexes |-> none, stats |-> {}]
    BY DEF Empty, IsDb
  <1> HIDE DEF none
  <1>3. \A t, p : ~ Owner(none, t, p)
    BY <1>1 DEF Owner
  <1>4. OneOwner(none, none, DOMAIN none)
    BY <1>1, <1>3 DEF OneOwner, TablesTyped
  <1>5. Named(none, 0, {})
    BY <1>1 DEF Named
  <1>6. PagesOk(none)
    <2>1. (CatalogPage + 1)..(CatalogPage + 0) = {} /\ 0 \in Nat
      BY DEF CatalogPage
    <2>2. QED
      BY <1>1, <2>1 DEF PagesOk
  <1>7. SpaceOk(none, none, none)
    BY <1>1, <1>3 DEF SpaceOk
  <1>8. Consistent(Empty, DOMAIN none, {})
    BY <1>1, <1>2, <1>4, <1>5 DEF Consistent, IsDb
  <1>9. Consistent(Empty.catalog, DOMAIN none, {})
    BY <1>1, <1>2, <1>4, <1>5 DEF Consistent
  <1>10. QED
    BY <1>2, <1>6, <1>7, <1>8, <1>9 DEF DbOk, Sound

(* What a prelude leaves. *)
LEMMA PreparedOk ==
  ASSUME NEW prelude \in Preludes
  PROVE  DbOk(Prepared(prelude))
  <1> DEFINE n == Len(prelude)
             job == [does |-> "prepare", list |-> prelude]
             after[k \in 0..n] == IF k = 0 THEN Empty ELSE Perform(after[k - 1], prelude[k]).db
  <1>1. prelude \in Seq(Statements)
    BY StatementsAssumption
  <1>2. n \in Nat /\ \A k \in 1..n : prelude[k] \in Statements
    BY <1>1
  <1>3. \A x, k : OneStep(job, x, k) = Perform(x, prelude[k]).db
    BY DEF OneStep
  <1>4. Prepared(prelude) = after[n]
    BY DEF Prepared
  <1> HIDE DEF job, n
  <1>5. PICK f : Runs(f, n, Empty, job)
    BY <1>2, RunsExist
  <1>6. f = [k \in 0..n |-> IF k = 0 THEN Empty ELSE Perform(f[k - 1], prelude[k]).db]
    BY <1>3, <1>5 DEF Runs
  <1>7. after = [k \in 0..n |-> IF k = 0 THEN Empty ELSE Perform(after[k - 1], prelude[k]).db]
    BY <1>6
  <1> HIDE DEF after
  <1>8. \A k \in 0..n : after[k] = IF k = 0 THEN Empty ELSE Perform(after[k - 1], prelude[k]).db
    BY <1>7
  <1> DEFINE Fine == {k \in 0..n : DbOk(after[k])}
  <1>9. 0 \in Fine
    BY <1>2, <1>8, EmptyDbOk
  <1>10. ASSUME NEW k \in 1..n, k - 1 \in Fine PROVE k \in Fine
    <2>1. k \in 0..n /\ k # 0 /\ DbOk(after[k - 1]) /\ prelude[k] \in Statements
      BY <1>2, <1>10
    <2>2. after[k] = Perform(after[k - 1], prelude[k]).db
      BY <1>8, <2>1
    <2>3. WorkOk(Perform(after[k - 1], prelude[k]))
      BY <2>1, PerformOk
    <2>4. QED
      BY <2>1, <2>2, <2>3 DEF WorkOk
  <1> HIDE DEF Fine
  <1>11. n \in Fine
    BY <1>2, <1>9, <1>10, Climbs
  <1>12. QED
    BY <1>4, <1>11 DEF Fine

(* The inductive invariant: the storage is as it should be, and the records
   of the transaction are about rows. *)
IInv ==
    /\ DbOk(db)
    /\ {"open", "aborted", "log"} \subseteq DOMAIN tx
    /\ tx.log \in Seq(ARecord)

(* No transaction has no records. *)
LEMMA NoTxOk == {"open", "aborted", "log"} \subseteq DOMAIN NoTx /\ NoTx.log \in Seq(ARecord)
  <1>1. <<>> \in Seq(ARecord)
    OBVIOUS
  <1>2. QED
    BY <1>1 DEF NoTx

(* The invariant holds at first. *)
LEMMA AtFirst == Init => IInv
  BY NoTxOk, PreparedOk DEF Init, IInv

(* A statement, in a transaction or not. *)
LEMMA RunOk ==
  ASSUME IInv, NEW s \in Inputs, Run(s)
  PROVE  IInv'
  <1> DEFINE w == Perform(db, s)
  <1>1. s \in Statements
    BY StatementsAssumption
  <1>2. WorkOk(w)
    BY <1>1, PerformOk DEF IInv
  <1>3. db' = w.db /\ tx' = IF tx.open THEN [tx EXCEPT !.log = @ \o w.log, !.aborted = ~ w.ok] ELSE tx
    BY DEF Run
  <1>4. DbOk(w.db) /\ w.log \in Seq(ARecord)
    BY <1>2 DEF WorkOk, WorkTyped
  <1> HIDE DEF w
  <1>5. tx.log \o w.log \in Seq(ARecord)
    BY <1>4 DEF IInv
  <1>6. {"open", "aborted", "log"} \subseteq DOMAIN tx' /\ tx'.log \in Seq(ARecord)
    BY <1>3, <1>5 DEF IInv
  <1>7. QED
    BY <1>3, <1>4, <1>6 DEF IInv

(* COMMIT, ROLLBACK and a restart. *)
LEMMA EndOk ==
  ASSUME IInv
  PROVE  /\ Commit => IInv'
         /\ Rollback => IInv'
         /\ Reopen => IInv'
  <1>1. WorkOk(Begin(db)) /\ tx.log \in Seq(ARecord)
    BY BeginOk DEF IInv
  <1>2. ASSUME Commit PROVE IInv'
    BY <1>2, NoTxOk DEF IInv, Commit
  <1>3. ASSUME Rollback PROVE IInv'
    <2>1. WorkOk(Undo(Begin(db), tx.log))
      BY <1>1, UndoOk DEF Keeps
    <2>2. db' = Undo(Begin(db), tx.log).db /\ tx' = NoTx
      BY <1>3 DEF Rollback
    <2>3. QED
      BY <2>1, <2>2, NoTxOk DEF IInv, WorkOk
  <1>4. ASSUME Reopen PROVE IInv'
    <2>1. WorkOk(OpenAgain(Begin(db), tx.log))
      BY <1>1, OpenAgainOk
    <2>2. db' = OpenAgain(Begin(db), tx.log).db /\ tx' = NoTx
      BY <1>4 DEF Reopen
    <2>3. QED
      BY <2>1, <2>2, NoTxOk DEF IInv, WorkOk
  <1>5. QED
    BY <1>2, <1>3, <1>4

(* One case for every action. *)
LEMMA EveryStep == IInv /\ [Next]_vars => IInv'
  <1> SUFFICES ASSUME IInv, [Next]_vars PROVE IInv'
    OBVIOUS
  <1>1. ASSUME NEW op, \E s \in Sent(op) : Run(s) PROVE IInv'
    <2>1. PICK s \in Inputs : Run(s)
      BY <1>1 DEF Sent
    <2>2. QED
      BY <2>1, RunOk
  <1>2. CASE CreateTable
    BY <1>1, <1>2 DEF CreateTable
  <1>3. CASE DropTable
    BY <1>1, <1>3 DEF DropTable
  <1>4. CASE CreateIndex
    BY <1>1, <1>4 DEF CreateIndex
  <1>5. CASE DropIndex
    BY <1>1, <1>5 DEF DropIndex
  <1>6. CASE Insert
    BY <1>1, <1>6 DEF Insert
  <1>7. CASE Update
    BY <1>1, <1>7 DEF Update
  <1>8. CASE Delete
    BY <1>1, <1>8 DEF Delete
  <1>9. CASE Vacuum
    BY <1>1, <1>9 DEF Vacuum
  <1>10. CASE Analyze
    BY <1>1, <1>10 DEF Analyze
  <1>11. CASE BeginTx
    <2>1. db' = db /\ tx' = [NoTx EXCEPT !.open = TRUE]
      BY <1>11 DEF BeginTx
    <2>2. {"open", "aborted", "log"} \subseteq DOMAIN tx' /\ tx'.log \in Seq(ARecord)
      BY <2>1, NoTxOk DEF NoTx
    <2>3. QED
      BY <2>1, <2>2 DEF IInv
  <1>12. CASE Commit \/ Rollback \/ Reopen
    BY <1>12, EndOk
  <1>13. CASE UNCHANGED vars
    BY <1>13 DEF vars, IInv
  <1>14. QED
    BY <1>2, <1>3, <1>4, <1>5, <1>6, <1>7, <1>8, <1>9, <1>10, <1>11, <1>12, <1>13 DEF Next

(* The invariant holds always. *)
LEMMA Always == Spec => []IInv
  <1>1. IInv /\ [Next]_vars => IInv'
    BY EveryStep
  <1>2. QED
    BY <1>1, AtFirst, PTL DEF Spec

(* What the properties ask for is in the invariant. *)
LEMMA WhatIsKept ==
  ASSUME IInv
  PROVE  SpaceHonest /\ Reopens
  <1> DEFINE c == db.catalog
             T == c.tables
  <1>1. /\ Sound(db) /\ Consistent(db, DOMAIN db.pages, db.files) /\ PagesOk(db.pages)
        /\ SpaceOk(db.tables, db.fsm, db.pages) /\ Consistent(c, DOMAIN db.pages, db.files)
    BY DEF IInv, DbOk, Sound
  <1>2. SpaceHonest
    <2>1. PagesOf(db) \subseteq DOMAIN db.fsm
      BY <1>1 DEF PagesOf, SpaceOk, Owner
    <2>2. QED
      BY <1>1, <2>1 DEF SpaceHonest, SpaceOk
  <1> HIDE DEF c
  <1>3. Opens(db, c)
    <2>1. /\ OneOwner(T, c.free, DOMAIN db.pages) /\ Named(T, c.next, c.stats)
          /\ DOMAIN c.indexes = db.files
      BY <1>1 DEF Consistent
    <2>2. ASSUME NEW t \in DOMAIN T, NEW u \in DOMAIN T, NEW j \in DOMAIN T[t].pages
          PROVE  /\ T[t].pages[j] \in DOMAIN db.pages
                 /\ T[t].pages[j] \notin ToSet(c.free)
                 /\ \A k \in DOMAIN T[u].pages : T[t].pages[j] = T[u].pages[k] => t = u /\ j = k
      <3>1. Owner(T, t, T[t].pages[j])
        BY DEF Owner, ToSet
      <3>2. \A k \in DOMAIN T[u].pages : Owner(T, u, T[u].pages[k])
        BY DEF Owner, ToSet
      <3>3. ASSUME NEW k \in DOMAIN T[u].pages, T[t].pages[j] = T[u].pages[k] PROVE t = u /\ j = k
        <4>1. t = u
          BY <2>1, <3>1, <3>2, <3>3 DEF OneOwner
        <4>2. IsInjective(T[t].pages)
          BY <2>1 DEF OneOwner
        <4>3. QED
          BY <3>3, <4>1, <4>2 DEF IsInjective
      <3>4. QED
        BY <2>1, <3>1, <3>3 DEF OneOwner
    <2>3. \A p \in UNION {ToSet(T[t].pages) : t \in DOMAIN T} : WellFormed(db.pages[p])
      <3>1. SUFFICES ASSUME NEW t \in DOMAIN T, NEW p \in ToSet(T[t].pages)
                     PROVE  WellFormed(db.pages[p])
        OBVIOUS
      <3>2. p \in DOMAIN db.pages
        BY <2>1 DEF OneOwner, Owner
      <3>3. QED
        BY <1>1, <3>2 DEF PagesOk, PageOk
    <2>4. ToSet(c.free) \subseteq DOMAIN db.pages /\ IsInjective(c.free)
      BY <2>1 DEF OneOwner
    <2>5. QED
      BY <2>1, <2>2, <2>3, <2>4 DEF Opens, Named
  <1>4. Reopens
    BY <1>1, <1>3 DEF Reopens, Consistent, c
  <1>5. QED
    BY <1>2, <1>4

(* The free space map knows every page of every table and promises no room
   that a page does not have, after any statements, rollbacks and restarts
   (free_space_map.rs, storage.rs). *)
THEOREM SpaceAlways == Spec => []SpaceHonest
  <1>1. IInv => SpaceHonest
    BY WhatIsKept
  <1>2. QED
    BY <1>1, Always, PTL

(* A restart finds a catalog and pages that it opens: no page has two owners,
   no rows overlap, no index lacks its file (Storage::open, claim_page,
   validate_header). *)
THEOREM ReopensAlways == Spec => []Reopens
  <1>1. IInv => Reopens
    BY WhatIsKept
  <1>2. QED
    BY <1>1, Always, PTL
=============================================================================
