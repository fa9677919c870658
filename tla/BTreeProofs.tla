------------------------------ MODULE BTreeProofs ------------------------------
(***************************************************************************)
(* Proofs about BTree, for any number of threads, calls and pages, and for *)
(* keys and pages of any length: pages fit into their bytes, and latches   *)
(* are taken downwards; keys are in order along the tree and along its     *)
(* leaves, every page with a range of its own whatever splits are on their *)
(* way, and so the tree is an ordered index.                               *)
(***************************************************************************)
EXTENDS BTree, InductionLemmas, SequenceTheorems

------------------------------------------------------------------------------
(* The bytes of sequences of entries.                                      *)

Sized(S) == \A e \in S : e.key \in DOMAIN KeyLen

(* An entry takes some bytes. *)
LEMMA EntryRight ==
  ASSUME NEW kind, NEW e, e.key \in DOMAIN KeyLen
  PROVE  EntrySize(kind, e) \in Nat
  <1>1. KeyLen[e.key] \in Nat
    BY PayloadAssumption
  <1>2. QED
    BY <1>1 DEF EntrySize

(* LenUpTo adds the entries up. *)
LEMMA LenRight ==
  ASSUME NEW kind, NEW S, Sized(S), NEW s \in Seq(S)
  PROVE  /\ LenUpTo(kind, s) \in [0..Len(s) -> Nat]
         /\ LenUpTo(kind, s)[0] = HeaderSize
         /\ \A i \in 1..Len(s) :
               LenUpTo(kind, s)[i] = LenUpTo(kind, s)[i - 1] + EntrySize(kind, s[i])
  <1> DEFINE n == Len(s)
             Adds(h) == h = [i \in 0..n |-> IF i = 0 THEN HeaderSize
                                            ELSE h[i - 1] + EntrySize(kind, s[i])]
             len[i \in 0..n] == IF i = 0 THEN HeaderSize ELSE len[i - 1] + EntrySize(kind, s[i])
             step == [a \in Nat \X (1..n) |-> a[1] + EntrySize(kind, s[a[2]])]
  <1>1. n \in Nat
    OBVIOUS
  <1>2. LenUpTo(kind, s) = len
    BY DEF LenUpTo
  <1>3. len = CHOOSE h : Adds(h)
    OBVIOUS
  <1>4. \A i \in 1..n : EntrySize(kind, s[i]) \in Nat
    BY EntryRight DEF Sized
  <1>5. step \in [Nat \X (1..n) -> Nat]
    BY <1>4
  <1>6. \A a \in Nat : \A i \in 1..n : step[<<a, i>>] = a + EntrySize(kind, s[i])
    OBVIOUS
  <1>7. HeaderSize \in Nat
    BY DEF HeaderSize
  <1> HIDE DEF n, len, step
  <1>8. PICK f : Fold(f, Nat, n, HeaderSize, step)
    BY <1>1, <1>5, <1>7, Folds
  <1>9. /\ f \in [0..n -> Nat] /\ f[0] = HeaderSize
        /\ \A i \in 1..n : f[i] = step[<<f[i - 1], i>>]
    BY <1>8 DEF Fold
  <1>10. ASSUME NEW i \in 0..n, i # 0 PROVE f[i] = f[i - 1] + EntrySize(kind, s[i])
    <2>1. i \in 1..n /\ f[i - 1] \in Nat
      BY <1>1, <1>9, <1>10
    <2>2. QED
      BY <1>6, <1>9, <2>1
  <1>11. Adds(f)
    BY <1>9, <1>10
  <1>12. len = [i \in 0..n |-> IF i = 0 THEN HeaderSize ELSE len[i - 1] + EntrySize(kind, s[i])]
    <2> HIDE DEF Adds
    <2>1. Adds(len)
      BY <1>3, <1>11
    <2>2. QED
      BY <2>1 DEF Adds
  <1> DEFINE Good == {i \in 0..n : len[i] \in Nat}
  <1>13. ASSUME NEW i \in 1..n PROVE len[i] = len[i - 1] + EntrySize(kind, s[i])
    <2>1. i \in 0..n /\ i # 0
      BY <1>1
    <2>2. QED
      BY <1>12, <2>1
  <1>14. len[0] = HeaderSize /\ 0 \in Good
    BY <1>1, <1>7, <1>12
  <1>15. ASSUME NEW i \in 1..n, i - 1 \in Good PROVE i \in Good
    <2>1. len[i - 1] \in Nat /\ i \in 0..n
      BY <1>1, <1>15
    <2>2. QED
      BY <1>4, <1>13, <2>1
  <1>16. 0..n \subseteq Good
    <2> HIDE DEF Good
    <2>1. QED
      BY <1>1, <1>14, <1>15, Climbs
  <1>17. len \in [0..n -> Nat]
    BY <1>12, <1>16
  <1>18. QED
    BY <1>2, <1>13, <1>14, <1>17 DEF n

(* A page without entries, and one with one. *)
LEMMA LenOfFew ==
  ASSUME NEW kind
  PROVE  /\ RequiredLen(kind, <<>>) = HeaderSize
         /\ \A e : e.key \in DOMAIN KeyLen =>
               RequiredLen(kind, <<e>>) = HeaderSize + EntrySize(kind, e)
  <1>1. RequiredLen(kind, <<>>) = HeaderSize
    <2>1. Sized({}) /\ <<>> \in Seq({}) /\ Len(<<>>) = 0
      BY DEF Sized
    <2>2. LenUpTo(kind, <<>>)[0] = HeaderSize
      BY <2>1, LenRight
    <2>3. QED
      BY <2>1, <2>2 DEF RequiredLen
  <1>2. ASSUME NEW e, e.key \in DOMAIN KeyLen
        PROVE  RequiredLen(kind, <<e>>) = HeaderSize + EntrySize(kind, e)
    <2>1. Sized({e}) /\ <<e>> \in Seq({e}) /\ Len(<<e>>) = 1 /\ <<e>>[1] = e
      BY <1>2 DEF Sized
    <2>2. /\ LenUpTo(kind, <<e>>)[0] = HeaderSize
          /\ \A i \in 1..1 : LenUpTo(kind, <<e>>)[i] = LenUpTo(kind, <<e>>)[i - 1] + EntrySize(kind, <<e>>[i])
      BY <2>1, LenRight
    <2>3. 1 \in 1..1 /\ 1 - 1 = 0
      OBVIOUS
    <2>4. LenUpTo(kind, <<e>>)[1] = HeaderSize + EntrySize(kind, e)
      BY <2>1, <2>2, <2>3
    <2>5. QED
      BY <2>1, <2>4 DEF RequiredLen
  <1>3. QED
    BY <1>1, <1>2

(* A page with more entries takes the bytes of both parts, and one header. *)
LEMMA LenOfConcat ==
  ASSUME NEW kind, NEW S, Sized(S), NEW s \in Seq(S), NEW t \in Seq(S)
  PROVE  /\ RequiredLen(kind, s) \in Nat /\ RequiredLen(kind, s) >= HeaderSize
         /\ RequiredLen(kind, t) \in Nat /\ RequiredLen(kind, t) >= HeaderSize
         /\ RequiredLen(kind, s \o t) = RequiredLen(kind, s) + RequiredLen(kind, t) - HeaderSize
  <1> DEFINE m == Len(s)
             n == Len(t)
             a == LenUpTo(kind, s)
             b == LenUpTo(kind, t)
             c == LenUpTo(kind, s \o t)
  <1>1. m \in Nat /\ n \in Nat /\ HeaderSize \in Nat
    BY DEF HeaderSize
  <1>2. /\ s \o t \in Seq(S) /\ Len(s \o t) = m + n
        /\ \A i \in 1..m : (s \o t)[i] = s[i]
        /\ \A i \in 1..n : (s \o t)[m + i] = t[i]
    OBVIOUS
  <1>3. /\ a \in [0..m -> Nat] /\ a[0] = HeaderSize
        /\ \A i \in 1..m : a[i] = a[i - 1] + EntrySize(kind, s[i])
    BY LenRight
  <1>4. /\ b \in [0..n -> Nat] /\ b[0] = HeaderSize
        /\ \A i \in 1..n : b[i] = b[i - 1] + EntrySize(kind, t[i])
    BY LenRight
  <1>5. /\ c \in [0..(m + n) -> Nat] /\ c[0] = HeaderSize
        /\ \A i \in 1..(m + n) : c[i] = c[i - 1] + EntrySize(kind, (s \o t)[i])
    <2> HIDE DEF m, n
    <2> DEFINE st == s \o t
    <2>1. st \in Seq(S) /\ Len(st) = m + n
      BY <1>2
    <2> HIDE DEF st
    <2>2. /\ LenUpTo(kind, st) \in [0..(m + n) -> Nat] /\ LenUpTo(kind, st)[0] = HeaderSize
          /\ \A i \in 1..(m + n) :
                LenUpTo(kind, st)[i] = LenUpTo(kind, st)[i - 1] + EntrySize(kind, st[i])
      BY <2>1, LenRight
    <2>3. QED
      BY <2>2 DEF st
  <1>6. /\ \A i \in 1..m : EntrySize(kind, s[i]) \in Nat
        /\ \A i \in 1..n : EntrySize(kind, t[i]) \in Nat
    BY EntryRight DEF Sized
  <1>7. RequiredLen(kind, s) = a[m] /\ RequiredLen(kind, t) = b[n] /\ RequiredLen(kind, s \o t) = c[m + n]
    BY <1>2 DEF RequiredLen
  <1> HIDE DEF m, n, a, b, c
  <1> DEFINE Left == {i \in 0..m : c[i] = a[i] /\ a[i] >= HeaderSize}
             Right == {i \in 0..n : c[m + i] = a[m] + b[i] - HeaderSize /\ b[i] >= HeaderSize}
  <1>8. 0 \in Left
    BY <1>1, <1>3, <1>5
  <1>9. ASSUME NEW i \in 1..m, i - 1 \in Left PROVE i \in Left
    <2>1. i \in 1..(m + n) /\ i \in 0..m /\ c[i - 1] = a[i - 1] /\ a[i - 1] >= HeaderSize /\ a[i - 1] \in Nat
      BY <1>1, <1>3, <1>9
    <2>2. c[i] = c[i - 1] + EntrySize(kind, s[i])
      BY <1>2, <1>5, <2>1
    <2>3. a[i] = a[i - 1] + EntrySize(kind, s[i]) /\ EntrySize(kind, s[i]) \in Nat
      BY <1>3, <1>6
    <2>4. QED
      BY <1>1, <2>1, <2>2, <2>3
  <1>10. c[m] = a[m] /\ a[m] >= HeaderSize
    <2> HIDE DEF Left
    <2>1. m \in Nat
      BY <1>1
    <2>2. 0..m \subseteq Left
      BY <2>1, <1>8, <1>9, Climbs
    <2>3. m \in 0..m
      BY <2>1
    <2>4. m \in Left
      BY <2>2, <2>3
    <2>5. QED
      BY <2>4 DEF Left
  <1>11. 0 \in Right
    BY <1>1, <1>3, <1>4, <1>10
  <1>12. ASSUME NEW i \in 1..n, i - 1 \in Right PROVE i \in Right
    <2>1. /\ m + i \in 1..(m + n) /\ i \in 0..n /\ (m + i) - 1 = m + (i - 1)
          /\ c[m + (i - 1)] = a[m] + b[i - 1] - HeaderSize /\ b[i - 1] >= HeaderSize /\ b[i - 1] \in Nat
      BY <1>1, <1>4, <1>12
    <2>2. c[m + i] = c[m + (i - 1)] + EntrySize(kind, t[i])
      BY <1>2, <1>5, <2>1
    <2>3. b[i] = b[i - 1] + EntrySize(kind, t[i]) /\ EntrySize(kind, t[i]) \in Nat
      BY <1>4, <1>6
    <2>4. a[m] \in Nat /\ HeaderSize \in Nat
      BY <1>1, <1>3 DEF HeaderSize
    <2> DEFINE e  == EntrySize(kind, t[i])
               b0 == b[i - 1]
               c0 == c[m + (i - 1)]
               am == a[m]
    <2>5. c[m + i] = c0 + e /\ b[i] = b0 + e
      BY <2>2, <2>3
    <2>6. e \in Nat /\ b0 \in Nat /\ am \in Nat /\ c0 = am + b0 - HeaderSize /\ b0 >= HeaderSize
      BY <2>1, <2>3, <2>4
    <2> HIDE DEF a, b, c, m, n, e, b0, c0
    <2>7. c[m + i] = am + b[i] - HeaderSize /\ b[i] >= HeaderSize
      <3> HIDE DEF am
      <3>1. QED
        BY <2>4, <2>5, <2>6
    <2>8. QED
      BY <2>1, <2>7
  <1>13. c[m + n] = a[m] + b[n] - HeaderSize /\ b[n] >= HeaderSize
    <2> HIDE DEF Right
    <2>1. n \in Nat
      BY <1>1
    <2>2. 0..n \subseteq Right
      BY <2>1, <1>11, <1>12, Climbs
    <2>3. n \in 0..n
      BY <2>1
    <2>4. n \in Right
      BY <2>2, <2>3
    <2>5. QED
      BY <2>4 DEF Right
  <1>14. a[m] \in Nat /\ b[n] \in Nat
    BY <1>1, <1>3, <1>4
  <1>15. QED
    BY <1>7, <1>10, <1>13, <1>14

(* Parts of a sequence of entries take up what the whole takes up, and one  *)
(* header more.                                                            *)
LEMMA LenOfParts ==
  ASSUME NEW kind, NEW S, Sized(S), NEW s \in Seq(S), NEW i \in 0..Len(s)
  PROVE  /\ SubSeq(s, 1, i) \in Seq(S) /\ SubSeq(s, i + 1, Len(s)) \in Seq(S)
         /\ SubSeq(s, 1, i) \o SubSeq(s, i + 1, Len(s)) = s
         /\ RequiredLen(kind, SubSeq(s, 1, i)) \in Nat
         /\ RequiredLen(kind, SubSeq(s, 1, i)) >= HeaderSize
         /\ RequiredLen(kind, SubSeq(s, i + 1, Len(s))) \in Nat
         /\ RequiredLen(kind, SubSeq(s, i + 1, Len(s))) >= HeaderSize
         /\ RequiredLen(kind, s) = RequiredLen(kind, SubSeq(s, 1, i))
                                   + RequiredLen(kind, SubSeq(s, i + 1, Len(s))) - HeaderSize
  <1> DEFINE a == SubSeq(s, 1, i)
             b == SubSeq(s, i + 1, Len(s))
  <1>1. a \in Seq(S) /\ b \in Seq(S) /\ a \o b = s
    <2>1. a \in Seq(S) /\ b \in Seq(S)
      OBVIOUS
    <2>2. 1 \in 1..(Len(s) + 1) /\ i \in (1 - 1)..Len(s) /\ Len(s) \in i..Len(s)
      OBVIOUS
    <2>3. a \o b = SubSeq(s, 1, Len(s))
      BY <2>2, ConcatAdjacentSubSeq
    <2>4. QED
      BY <2>1, <2>3, SubSeqFull
  <1> HIDE DEF a, b
  <1>2. /\ RequiredLen(kind, a) \in Nat /\ RequiredLen(kind, a) >= HeaderSize
        /\ RequiredLen(kind, b) \in Nat /\ RequiredLen(kind, b) >= HeaderSize
        /\ RequiredLen(kind, a \o b) = RequiredLen(kind, a) + RequiredLen(kind, b) - HeaderSize
    BY <1>1, LenOfConcat
  <1>3. QED
    BY <1>1, <1>2 DEF a, b

(* A position that binary search finds is one of the sequence, or the next. *)
LEMMA CountRight ==
  ASSUME NEW n \in Nat, NEW T \in SUBSET (1..n)
  PROVE  Cardinality(T) \in 0..n
  <1>1. IsFiniteSet(1..n) /\ Cardinality(1..n) = n
    BY FS_Interval
  <1>2. IsFiniteSet(T) /\ Cardinality(T) <= n
    BY <1>1, FS_Subset
  <1>3. QED
    BY <1>2, FS_CardinalityType

(* insert at a position: one entry more, and its bytes. *)
LEMMA InsertAtRight ==
  ASSUME NEW kind, NEW S, Sized(S), NEW s \in Seq(S), NEW e \in S, NEW i \in 1..(Len(s) + 1)
  PROVE  /\ InsertAt(s, i, e) \in Seq(S) /\ Len(InsertAt(s, i, e)) = Len(s) + 1
         /\ RequiredLen(kind, s) \in Nat
         /\ RequiredLen(kind, InsertAt(s, i, e)) = RequiredLen(kind, s) + EntrySize(kind, e)
  <1> DEFINE a == SubSeq(s, 1, i - 1)
             b == SubSeq(s, i, Len(s))
             o == <<e>>
             ao == a \o o
  <1>1. PICK j \in 0..Len(s) : j = i - 1 /\ i = j + 1
    OBVIOUS
  <1>2. /\ a \in Seq(S) /\ b \in Seq(S)
        /\ RequiredLen(kind, a) \in Nat /\ RequiredLen(kind, b) \in Nat
        /\ RequiredLen(kind, a) >= HeaderSize
        /\ RequiredLen(kind, s) = RequiredLen(kind, a) + RequiredLen(kind, b) - HeaderSize
    <2>1. a = SubSeq(s, 1, j) /\ b = SubSeq(s, j + 1, Len(s))
      BY <1>1
    <2> HIDE DEF a, b
    <2>2. QED
      BY <2>1, LenOfParts
  <1>3. o \in Seq(S) /\ ao \in Seq(S)
    BY <1>2
  <1>4. Len(a) = i - 1 /\ Len(b) = Len(s) - i + 1 /\ Len(o) = 1
    BY <1>1
  <1>5. RequiredLen(kind, o) = HeaderSize + EntrySize(kind, e) /\ EntrySize(kind, e) \in Nat
    BY LenOfFew, EntryRight DEF Sized
  <1>6. InsertAt(s, i, e) = ao \o b
    BY DEF InsertAt
  <1> HIDE DEF a, b, o, ao
  <1>7. RequiredLen(kind, ao) = RequiredLen(kind, a) + RequiredLen(kind, o) - HeaderSize
    BY <1>2, <1>3, LenOfConcat DEF ao
  <1>8. RequiredLen(kind, ao \o b) = RequiredLen(kind, ao) + RequiredLen(kind, b) - HeaderSize
    BY <1>2, <1>3, LenOfConcat
  <1>9. ao \o b \in Seq(S) /\ Len(ao \o b) = Len(s) + 1
    <2>1. Len(ao) = Len(a) + 1
      <3>1. a \in Seq(S) /\ o \in Seq(S)
        BY <1>2, <1>3
      <3>2. Len(a \o o) = Len(a) + Len(o)
        BY <3>1
      <3>3. QED
        BY <1>4, <3>2 DEF ao
    <2>2. ao \o b \in Seq(S) /\ Len(ao \o b) = Len(ao) + Len(b)
      BY <1>2, <1>3
    <2>3. QED
      BY <1>1, <1>4, <2>1, <2>2
  <1>10. HeaderSize \in Nat
    BY DEF HeaderSize
  <1>11. RequiredLen(kind, ao \o b) = RequiredLen(kind, s) + EntrySize(kind, e)
    BY <1>2, <1>5, <1>7, <1>8, <1>10
  <1>12. RequiredLen(kind, s) \in Nat
    BY <1>2, <1>10
  <1>13. QED
    BY <1>6, <1>9, <1>11, <1>12

(* The same for the position that the entry's key has. *)
LEMMA InsertSortedRight ==
  ASSUME NEW kind, NEW S, Sized(S), NEW s \in Seq(S), NEW e \in S
  PROVE  /\ InsertSorted(s, e) \in Seq(S) /\ Len(InsertSorted(s, e)) = Len(s) + 1
         /\ RequiredLen(kind, s) \in Nat
         /\ RequiredLen(kind, InsertSorted(s, e)) = RequiredLen(kind, s) + EntrySize(kind, e)
  <1> DEFINE before == {i \in DOMAIN s : s[i].key <= e.key}
             place == Cardinality(before) + 1
  <1>1. Len(s) \in Nat /\ before \in SUBSET (1..Len(s))
    OBVIOUS
  <1>2. Cardinality(before) \in 0..Len(s)
    <2> HIDE DEF before
    <2>1. QED
      BY <1>1, CountRight
  <1>3. InsertSorted(s, e) = InsertAt(s, place, e)
    BY DEF InsertSorted
  <1> HIDE DEF before
  <1>4. place \in 1..(Len(s) + 1)
    BY <1>1, <1>2
  <1> HIDE DEF place
  <1>5. /\ InsertAt(s, place, e) \in Seq(S) /\ Len(InsertAt(s, place, e)) = Len(s) + 1
        /\ RequiredLen(kind, s) \in Nat
        /\ RequiredLen(kind, InsertAt(s, place, e)) = RequiredLen(kind, s) + EntrySize(kind, e)
    BY <1>4, InsertAtRight
  <1>6. QED
    BY <1>3, <1>5

(* The entry that delete takes out leaves its bytes free. *)
LEMMA RemoveFirstRight ==
  ASSUME NEW kind, NEW S, Sized(S), NEW s \in Seq(S), NEW e
  PROVE  /\ RemoveFirst(s, e) \in Seq(S)
         /\ RequiredLen(kind, RemoveFirst(s, e)) <= RequiredLen(kind, s)
  <1> DEFINE I == {i \in 1..Len(s) : s[i] = e}
             i == Min(I)
  <1>1. CASE I = {}
    <2>1. ~ \E j \in 1..Len(s) : s[j] = e
      BY <1>1
    <2>2. RemoveFirst(s, e) = s
      BY <2>1 DEF RemoveFirst
    <2>3. RequiredLen(kind, s) \in Nat
      BY LenOfConcat
    <2>4. QED
      BY <2>2, <2>3
  <1>2. CASE I # {}
    <2>1. \E j \in 1..Len(s) : s[j] = e
      BY <1>2
    <2>2. RemoveFirst(s, e) = RemoveAt(s, SelectInSeq(s, LAMBDA v : v = e))
      BY <2>1 DEF RemoveFirst
    <2>3. SelectInSeq(s, LAMBDA v : v = e) = i
      BY <1>2 DEF SelectInSeq
    <2>4. I \in SUBSET Nat /\ I \subseteq 1..Len(s)
      OBVIOUS
    <2> HIDE DEF I
    <2>5. i \in I
      BY <1>2, <2>4, MinRight
    <2> HIDE DEF i
    <2>6. i \in 1..Len(s) /\ i \in 0..Len(s)
      BY <2>4, <2>5
    <2> DEFINE a == SubSeq(s, 1, i - 1)
               b == SubSeq(s, i, Len(s))
               c == SubSeq(s, i + 1, Len(s))
               o == <<s[i]>>
    <2>7. RemoveFirst(s, e) = a \o c
      BY <2>2, <2>3 DEF RemoveAt
    <2>8. /\ a \in Seq(S) /\ b \in Seq(S)
          /\ RequiredLen(kind, a) \in Nat /\ RequiredLen(kind, b) \in Nat
          /\ RequiredLen(kind, s) = RequiredLen(kind, a) + RequiredLen(kind, b) - HeaderSize
      <3>1. PICK j \in 0..Len(s) : j = i - 1 /\ i = j + 1
        BY <2>6
      <3>2. a = SubSeq(s, 1, j) /\ b = SubSeq(s, j + 1, Len(s))
        BY <3>1
      <3> HIDE DEF a, b
      <3>3. QED
        BY <3>2, LenOfParts
    <2>9. c \in Seq(S) /\ RequiredLen(kind, c) \in Nat
      BY <2>6, LenOfParts
    <2>10. b = o \o c /\ s[i] \in S
      BY <2>6
    <2>11. o \in Seq(S)
      BY <2>10
    <2>12. RequiredLen(kind, o) = HeaderSize + EntrySize(kind, s[i]) /\ EntrySize(kind, s[i]) \in Nat
      BY <2>10, LenOfFew, EntryRight DEF Sized
    <2> HIDE DEF a, b, c, o
    <2>13. RequiredLen(kind, b) = RequiredLen(kind, o) + RequiredLen(kind, c) - HeaderSize
      BY <2>9, <2>10, <2>11, LenOfConcat
    <2>14. a \o c \in Seq(S) /\ RequiredLen(kind, a \o c) = RequiredLen(kind, a) + RequiredLen(kind, c) - HeaderSize
      BY <2>8, <2>9, LenOfConcat
    <2>15. HeaderSize \in Nat
      BY DEF HeaderSize
    <2>16. RequiredLen(kind, a \o c) <= RequiredLen(kind, s)
      BY <2>8, <2>9, <2>12, <2>13, <2>14, <2>15
    <2>17. QED
      BY <2>7, <2>14, <2>16
  <1>3. QED
    BY <1>1, <1>2

------------------------------------------------------------------------------
(* Splits: both halves fit.                                                *)

ShortKeys == {k \in DOMAIN KeyLen : KeyLen[k] <= MaxKeyLen}
Short(S)  == \A e \in S : e.key \in ShortKeys

\* The bytes of the largest entry that is let in.
Largest == 4 + MaxKeyLen + 10

(* Two of the largest entries fit into a page. *)
LEMMA LargestRight ==
  /\ MaxKeyLen \in Int /\ PayloadSize \in Nat /\ HeaderSize = 10
  /\ HeaderSize + 2 * Largest <= PayloadSize
  /\ \A kind : \A e : e.key \in ShortKeys =>
        EntrySize(kind, e) \in Nat /\ EntrySize(kind, e) <= Largest
  <1>1. PayloadSize \in Nat /\ HeaderSize = 10
    BY PayloadAssumption DEF HeaderSize
  <1>2. MaxKeyLen = (PayloadSize - 38) \div 2
    BY <1>1 DEF MaxKeyLen
  <1>3. MaxKeyLen \in Int /\ 2 * MaxKeyLen <= PayloadSize - 38
    BY <1>1, <1>2
  <1>4. ASSUME NEW kind, NEW e, e.key \in ShortKeys
        PROVE  EntrySize(kind, e) \in Nat /\ EntrySize(kind, e) <= Largest
    <2>1. e.key \in DOMAIN KeyLen /\ KeyLen[e.key] <= MaxKeyLen
      BY <1>4 DEF ShortKeys
    <2>2. KeyLen[e.key] \in Nat
      BY <2>1, PayloadAssumption
    <2>3. EntrySize(kind, e) \in Nat
      BY <2>1, EntryRight
    <2>4. EntrySize(kind, e) <= Largest
      BY <1>3, <2>1, <2>2 DEF EntrySize, Largest
    <2>5. QED
      BY <2>3, <2>4
  <1>5. QED
    BY <1>1, <1>3, <1>4 DEF Largest

(* capacity_split_point: when one entry has made a page too large, as many *)
(* as fit stay, some are left for the new page, and they fit there.        *)
LEMMA SplitRight ==
  ASSUME NEW kind, NEW S, Short(S), NEW s \in Seq(S),
         ~ Fits(kind, s), RequiredLen(kind, s) <= PayloadSize + Largest
  PROVE  LET mid == SplitPoint(kind, s) IN
         /\ mid \in 1..Len(s) /\ mid + 1 \in 1..Len(s)
         /\ Fits(kind, SubSeq(s, 1, mid))
         /\ Fits(kind, SubSeq(s, mid + 1, Len(s)))
         /\ Fits(kind, SubSeq(s, mid + 2, Len(s)))
  <1> DEFINE n == Len(s)
             pre(i) == SubSeq(s, 1, i)
             suf(i) == SubSeq(s, i + 1, Len(s))
             In == {i \in DOMAIN s : Fits(kind, pre(i))}
             mid == SplitPoint(kind, s)
  <1>1. Sized(S)
    BY DEF Short, ShortKeys, Sized
  <1>2. ASSUME NEW i \in 0..n
        PROVE  /\ RequiredLen(kind, pre(i)) \in Nat /\ RequiredLen(kind, suf(i)) \in Nat
               /\ RequiredLen(kind, s) = RequiredLen(kind, pre(i)) + RequiredLen(kind, suf(i)) - HeaderSize
    <2>1. i \in 0..Len(s)
      OBVIOUS
    <2>2. /\ RequiredLen(kind, SubSeq(s, 1, i)) \in Nat
          /\ RequiredLen(kind, SubSeq(s, i + 1, Len(s))) \in Nat
          /\ RequiredLen(kind, s) = RequiredLen(kind, SubSeq(s, 1, i))
                                    + RequiredLen(kind, SubSeq(s, i + 1, Len(s))) - HeaderSize
      BY <1>1, <2>1, LenOfParts, ZenonT(30)
    <2>3. QED
      BY <2>2
  <1>3. n \in Nat /\ n # 0
    <2>1. CASE s = <<>>
      <3>1. RequiredLen(kind, s) = HeaderSize
        BY <2>1, LenOfFew
      <3>2. QED
        BY <3>1, PayloadAssumption DEF Fits
    <2>2. CASE s # <<>>
      BY <2>2
    <2>3. QED
      BY <2>1, <2>2
  <1>4. ASSUME NEW i \in 1..n
        PROVE  /\ EntrySize(kind, s[i]) \in Nat /\ EntrySize(kind, s[i]) <= Largest
               /\ RequiredLen(kind, pre(i)) = RequiredLen(kind, pre(i - 1)) + EntrySize(kind, s[i])
    <2>1. s[i] \in S /\ s[i].key \in DOMAIN KeyLen
      BY <1>1 DEF Sized
    <2>2. EntrySize(kind, s[i]) \in Nat /\ EntrySize(kind, s[i]) <= Largest
      BY <2>1, LargestRight DEF Short
    <2> DEFINE a == pre(i - 1)
               o == <<s[i]>>
    <2>3. a \in Seq(S) /\ o \in Seq(S)
      BY <2>1
    <2>4. pre(i) = a \o o
      <3>1. 1 \in 1..(n + 1) /\ i - 1 \in (1 - 1)..n /\ i \in (i - 1)..n /\ (i - 1) + 1 = i
        BY <1>3
      <3>2. SubSeq(s, 1, i - 1) \o SubSeq(s, i, i) = SubSeq(s, 1, i)
        <4>1. PICK j \in (1 - 1)..n : j = i - 1 /\ j + 1 = i
          BY <3>1
        <4>2. SubSeq(s, 1, j) \o SubSeq(s, j + 1, i) = SubSeq(s, 1, i)
          BY <3>1, <4>1, ConcatAdjacentSubSeq
        <4>3. QED
          BY <4>1, <4>2
      <3>3. SubSeq(s, i, i) = o
        <4> DEFINE m == SubSeq(s, i, i)
        <4>1. m \in Seq(S) /\ Len(m) = 1 /\ m[1] = s[i]
          BY <1>3, <2>1
        <4>2. o \in Seq(S) /\ Len(o) = 1 /\ o[1] = s[i]
          BY <2>1
        <4> HIDE DEF m, o
        <4>3. m = o
          BY <4>1, <4>2, SeqEqual
        <4>4. QED
          BY <4>3 DEF m
      <3>4. QED
        BY <3>2, <3>3
    <2>5. RequiredLen(kind, o) = HeaderSize + EntrySize(kind, s[i])
      BY <2>1, LenOfFew
    <2>6. i - 1 \in 0..n
      BY <1>3
    <2>7. RequiredLen(kind, a) \in Nat
      BY <1>2, <2>6
    <2> HIDE DEF a, o, n
    <2>8. RequiredLen(kind, a \o o) = RequiredLen(kind, a) + RequiredLen(kind, o) - HeaderSize
      BY <1>1, <2>3, LenOfConcat
    <2>9. RequiredLen(kind, a \o o) = RequiredLen(kind, a) + EntrySize(kind, s[i])
      BY <2>2, <2>5, <2>7, <2>8, LargestRight
    <2>10. pre(i) = a \o o /\ pre(i - 1) = a
      BY <2>4 DEF a
    <2> HIDE DEF pre
    <2>11. QED
      BY <2>2, <2>9, <2>10
  <1>5. pre(n) = s
    BY SubSeqFull
  <1>6. RequiredLen(kind, pre(0)) = HeaderSize
    <2>1. pre(0) = <<>>
      OBVIOUS
    <2>2. QED
      BY <2>1, LenOfFew
  <1>7. mid = Max({1} \cup In)
    BY DEF SplitPoint
  <1> HIDE DEF mid
  <1>8. /\ mid \in 1..n /\ (mid = 1 \/ Fits(kind, pre(mid)))
        /\ \A i \in 1..n : Fits(kind, pre(i)) => i <= mid
    <2>1. {1} \cup In \in SUBSET (0..n) /\ {1} \cup In # {}
      BY <1>3
    <2>2. mid \in {1} \cup In /\ \A i \in {1} \cup In : mid >= i
      <3> DEFINE M == {1} \cup In
      <3> HIDE DEF M
      <3>1. M \in SUBSET (0..n) /\ M # {} /\ n \in Nat /\ mid = Max(M)
        BY <1>3, <1>7, <2>1 DEF M
      <3>2. Max(M) \in M /\ \A i \in M : Max(M) >= i
        BY <3>1, MaxRight
      <3>3. QED
        BY <3>1, <3>2 DEF M
    <2>3. mid \in 1..n
      BY <1>3, <2>2
    <2>4. mid = 1 \/ Fits(kind, pre(mid))
      BY <2>2
    <2>5. ASSUME NEW i \in 1..n, Fits(kind, pre(i)) PROVE i <= mid
      <3>1. i \in In
        BY <2>5
      <3>2. QED
        BY <2>2, <2>3, <3>1
    <2>6. QED
      BY <2>3, <2>4, <2>5
  <1> DEFINE len(i) == RequiredLen(kind, pre(i))
             rest(i) == RequiredLen(kind, suf(i))
             all == RequiredLen(kind, s)
  <1>9. \A i \in 0..n : len(i) \in Nat /\ rest(i) \in Nat /\ all = len(i) + rest(i) - HeaderSize
    BY <1>2
  <1>10. \A i \in 1..n : EntrySize(kind, s[i]) \in Nat /\ EntrySize(kind, s[i]) <= Largest
                         /\ len(i) = len(i - 1) + EntrySize(kind, s[i])
    BY <1>4
  <1>11. \A i \in 0..n : (Fits(kind, pre(i)) <=> len(i) <= PayloadSize)
                         /\ (Fits(kind, suf(i)) <=> rest(i) <= PayloadSize)
    BY DEF Fits
  <1>12. ~ (len(n) <= PayloadSize) /\ len(0) = HeaderSize /\ all <= PayloadSize + Largest
    BY <1>5, <1>6 DEF Fits
  <1>13. suf(mid) = SubSeq(s, mid + 1, Len(s)) /\ suf(mid + 1) = SubSeq(s, mid + 2, Len(s))
    BY <1>3, <1>8
  <1>14. pre(mid) = SubSeq(s, 1, mid)
    OBVIOUS
  <1> HIDE DEF len, rest, all, pre, suf, In
  <1>15. 0 \in 0..n /\ 1 \in 1..n /\ n \in 0..n /\ n \in 1..n /\ mid \in 0..n /\ 1 - 1 = 0
    BY <1>3, <1>8
  <1>16. len(1) <= PayloadSize
    <2>1. len(1) = HeaderSize + EntrySize(kind, s[1]) /\ EntrySize(kind, s[1]) \in Nat
          /\ EntrySize(kind, s[1]) <= Largest
      BY <1>10, <1>12, <1>15
    <2>2. QED
      BY <2>1, LargestRight DEF Largest
  <1>17. Fits(kind, pre(mid))
    BY <1>8, <1>11, <1>15, <1>16
  <1>18. mid + 1 \in 1..n /\ mid + 1 \in 0..n
    <2>1. mid # n
      BY <1>11, <1>12, <1>15, <1>17
    <2>2. QED
      BY <1>3, <1>8, <2>1
  <1>19. ~ (len(mid + 1) <= PayloadSize)
    <2>1. ~ Fits(kind, pre(mid + 1))
      <3>1. ~ (mid + 1 <= mid)
        BY <1>8
      <3>2. QED
        BY <1>8, <1>18, <3>1
    <2>2. QED
      BY <1>11, <1>18, <2>1
  <1>20. /\ len(mid + 1) = len(mid) + EntrySize(kind, s[mid + 1])
         /\ EntrySize(kind, s[mid + 1]) \in Nat /\ EntrySize(kind, s[mid + 1]) <= Largest
    <2>1. (mid + 1) - 1 = mid
      BY <1>8
    <2>2. QED
      BY <1>10, <1>18, <2>1
  <1>21. Fits(kind, suf(mid)) /\ Fits(kind, suf(mid + 1))
    <2>1. /\ len(mid) \in Nat /\ rest(mid) \in Nat /\ len(mid + 1) \in Nat /\ rest(mid + 1) \in Nat
          /\ all = len(mid) + rest(mid) - HeaderSize
          /\ all = len(mid + 1) + rest(mid + 1) - HeaderSize
      BY <1>9, <1>15, <1>18
    <2>2. /\ Largest \in Int /\ PayloadSize \in Nat /\ HeaderSize = 10
          /\ HeaderSize + 2 * Largest <= PayloadSize
      BY LargestRight DEF Largest
    <2>3. rest(mid) <= PayloadSize /\ rest(mid + 1) <= PayloadSize
      <3> DEFINE la == len(mid)
                 lb == len(mid + 1)
                 ra == rest(mid)
                 rb == rest(mid + 1)
                 e  == EntrySize(kind, s[mid + 1])
      <3>1. /\ la \in Nat /\ lb \in Nat /\ ra \in Nat /\ rb \in Nat /\ e \in Nat /\ e <= Largest
            /\ all = la + ra - HeaderSize /\ all = lb + rb - HeaderSize /\ lb = la + e
            /\ ~ (lb <= PayloadSize) /\ all <= PayloadSize + Largest
        BY <1>12, <1>19, <1>20, <2>1
      <3> HIDE DEF la, lb, ra, rb, e, all
      <3>2. ra <= PayloadSize /\ rb <= PayloadSize
        BY <2>2, <3>1
      <3>3. QED
        BY <3>2 DEF ra, rb
    <2>4. QED
      BY <1>11, <1>15, <1>18, <2>3
  <1>22. QED
    BY <1>8, <1>13, <1>14, <1>17, <1>18, <1>21 DEF n, mid

------------------------------------------------------------------------------
(* The pages.                                                              *)

LeafEntry == [key : ShortKeys, rid : Nat]
NodeEntry == [key : ShortKeys, child : Nat]
LeafPage  == [kind : {"leaf"}, entries : Seq(LeafEntry), next : Nat]
NodePage  == [kind : {"internal"}, entries : Seq(NodeEntry), first : Nat]

Sound(pgs) ==
    /\ pgs \in Seq(LeafPage \cup NodePage) /\ pgs # <<>>
    /\ \A p \in DOMAIN pgs : Fits(pgs[p].kind, pgs[p].entries)

\* Links lead to leaves, none of which is the root.
LinkRight(pgs, page) ==
    page.kind = "leaf" /\ page.next # NoPage =>
        page.next \in DOMAIN pgs /\ page.next # Root /\ pgs[page.next].kind = "leaf"

Linked(pgs) == \A p \in DOMAIN pgs : LinkRight(pgs, pgs[p])

\* All that the page leads to is below the level.
LeadsBelow(h, level, page) ==
    page.kind = "internal" =>
        /\ page.first \in DOMAIN h /\ h[page.first] < level
        /\ \A i \in DOMAIN page.entries :
              page.entries[i].child \in DOMAIN h /\ h[page.entries[i].child] < level

\* Levels of the pages, which fall from parents to children.
Falls(pgs, h) ==
    h \in [DOMAIN pgs -> Nat] /\ \A p \in DOMAIN pgs : LeadsBelow(h, h[p], pgs[p])

\* The root is above all others.
Topped(h) == \A p \in DOMAIN h : p # Root => h[p] < h[Root]

(* What is known of a page by its kind. *)
LEMMA PageRight ==
  ASSUME NEW pgs, Sound(pgs), NEW p \in DOMAIN pgs
  PROVE  /\ DOMAIN pgs = 1..Len(pgs) /\ Len(pgs) \in Nat /\ p \in Nat /\ p # NoPage
         /\ Root \in DOMAIN pgs
         /\ \/ pgs[p] \in LeafPage /\ pgs[p].kind = "leaf"
            \/ pgs[p] \in NodePage /\ pgs[p].kind = "internal"
  <1>1. pgs \in Seq(LeafPage \cup NodePage) /\ pgs # <<>>
    BY DEF Sound
  <1>2. DOMAIN pgs = 1..Len(pgs) /\ Len(pgs) \in Nat /\ Len(pgs) # 0
    BY <1>1
  <1>3. pgs[p] \in LeafPage \cup NodePage
    BY <1>1
  <1>4. QED
    BY <1>2, <1>3 DEF LeafPage, NodePage, Root, NoPage

(* Entries are short, and take up the bytes that are counted. *)
LEMMA EntriesShort == Short(LeafEntry) /\ Short(NodeEntry) /\ Sized(LeafEntry) /\ Sized(NodeEntry)
  BY DEF Short, Sized, ShortKeys, LeafEntry, NodeEntry

(* ChildFor leads below. *)
LEMMA ChildRight ==
  ASSUME NEW page \in NodePage, NEW h, NEW level, LeadsBelow(h, level, page), NEW position
  PROVE  ChildFor(page, position) \in DOMAIN h /\ h[ChildFor(page, position)] < level
  <1> DEFINE T == {i \in DOMAIN page.entries : Passed(page.entries[i].key, position)}
             n == Cardinality(T)
  <1>1. page.kind = "internal" /\ page.entries \in Seq(NodeEntry)
    BY DEF NodePage
  <1>2. Len(page.entries) \in Nat /\ T \in SUBSET (1..Len(page.entries))
    BY <1>1
  <1>3. ChildFor(page, position) = IF n = 0 THEN page.first ELSE page.entries[n].child
    BY DEF ChildFor
  <1> HIDE DEF T
  <1>4. n \in 0..Len(page.entries)
    BY <1>2, CountRight
  <1> HIDE DEF n
  <1>5. n # 0 => n \in DOMAIN page.entries
    BY <1>1, <1>2, <1>4
  <1>6. QED
    BY <1>1, <1>3, <1>5 DEF LeadsBelow

\* Entries that a page of the kind may have, on the level.
Suits(kind, h, level, entries) ==
    /\ Fits(kind, entries)
    /\ kind = "leaf" => entries \in Seq(LeafEntry)
    /\ kind = "internal" =>
          /\ entries \in Seq(NodeEntry)
          /\ \A i \in DOMAIN entries : entries[i].child \in DOMAIN h /\ h[entries[i].child] < level

\* The pages, with other entries on one of them.
Rewritten(pgs, p, entries) == [pgs EXCEPT ![p].entries = entries]

(* Other entries on a page. *)
LEMMA ReplaceRight ==
  ASSUME NEW pgs, Sound(pgs), Linked(pgs), NEW h, Falls(pgs, h),
         NEW p \in DOMAIN pgs, NEW entries, Suits(pgs[p].kind, h, h[p], entries),
         NEW new, new = Rewritten(pgs, p, entries)
  PROVE  /\ Sound(new) /\ Linked(new) /\ Falls(new, h)
         /\ DOMAIN new = DOMAIN pgs
         /\ \A q \in DOMAIN pgs : new[q].kind = pgs[q].kind /\ (q # p => new[q] = pgs[q])
  <1> DEFINE page == [pgs[p] EXCEPT !.entries = entries]
             ch == [pgs EXCEPT ![p] = page]
  <1>0. /\ Fits(pgs[p].kind, entries)
        /\ pgs[p].kind = "leaf" => entries \in Seq(LeafEntry)
        /\ pgs[p].kind = "internal" =>
              /\ entries \in Seq(NodeEntry)
              /\ \A i \in DOMAIN entries : entries[i].child \in DOMAIN h /\ h[entries[i].child] < h[p]
    BY DEF Suits
  <1>1. /\ DOMAIN pgs = 1..Len(pgs) /\ Len(pgs) \in Nat /\ Root \in DOMAIN pgs
        /\ \/ pgs[p] \in LeafPage /\ pgs[p].kind = "leaf"
           \/ pgs[p] \in NodePage /\ pgs[p].kind = "internal"
    BY PageRight
  <1>2. /\ page.kind = pgs[p].kind /\ page.entries = entries
        /\ pgs[p].kind = "leaf" => page \in LeafPage /\ page.next = pgs[p].next
        /\ pgs[p].kind = "internal" => page \in NodePage /\ page.first = pgs[p].first
    BY <1>0, <1>1 DEF LeafPage, NodePage
  <1>3. new = ch
    BY DEF Rewritten
  <1> HIDE DEF page
  <1>4. pgs \in Seq(LeafPage \cup NodePage) /\ page \in LeafPage \cup NodePage
    BY <1>1, <1>2 DEF Sound
  <1>5. /\ ch \in Seq(LeafPage \cup NodePage) /\ DOMAIN ch = DOMAIN pgs /\ ch # <<>>
        /\ ch[p] = page /\ \A q \in DOMAIN pgs : q # p => ch[q] = pgs[q]
    BY <1>1, <1>4
  <1> HIDE DEF ch
  <1>6. \A q \in DOMAIN pgs : ch[q].kind = pgs[q].kind
    BY <1>2, <1>5
  <1>7. Sound(ch)
    BY <1>0, <1>2, <1>5 DEF Sound
  <1>8. Linked(ch)
    <2> SUFFICES ASSUME NEW q \in DOMAIN pgs PROVE LinkRight(ch, ch[q])
      BY <1>5 DEF Linked
    <2>1. LinkRight(pgs, pgs[q])
      BY DEF Linked
    <2>2. ch[q].kind = pgs[q].kind /\ (ch[q].kind = "leaf" => ch[q].next = pgs[q].next)
      BY <1>2, <1>5
    <2>3. QED
      BY <1>5, <1>6, <2>1, <2>2 DEF LinkRight
  <1>9. Falls(ch, h)
    <2>1. h \in [DOMAIN ch -> Nat]
      BY <1>5 DEF Falls
    <2>2. ASSUME NEW q \in DOMAIN pgs PROVE LeadsBelow(h, h[q], ch[q])
      <3>1. LeadsBelow(h, h[q], pgs[q])
        BY DEF Falls
      <3>2. CASE q # p
        BY <1>5, <3>1, <3>2
      <3>3. CASE q = p
        BY <1>0, <1>2, <1>5, <3>1, <3>3 DEF LeadsBelow
      <3>4. QED
        BY <3>2, <3>3
    <2>3. QED
      BY <1>5, <2>1, <2>2 DEF Falls
  <1>10. QED
    BY <1>3, <1>5, <1>6, <1>7, <1>8, <1>9

\* The levels with a new page on the level of another.
Beside(h, n, p) == [q \in 1..n |-> IF q = n THEN h[p] ELSE h[q]]

(* A page and a new one of its kind in the place of the page. *)
LEMMA TwoHalves ==
  ASSUME NEW pgs, Sound(pgs), Linked(pgs), NEW h, Falls(pgs, h),
         NEW p \in DOMAIN pgs, NEW left, NEW right, NEW n, n = Len(pgs) + 1,
         left.kind = pgs[p].kind, right.kind = pgs[p].kind,
         left \in LeafPage \cup NodePage, right \in LeafPage \cup NodePage,
         Fits(left.kind, left.entries), Fits(right.kind, right.entries),
         pgs[p].kind = "leaf" => left.next = n /\ right.next = pgs[p].next,
         LeadsBelow(h, h[p], left), LeadsBelow(h, h[p], right)
  PROVE  LET new == Append([pgs EXCEPT ![p] = left], right) IN
         /\ Sound(new) /\ Linked(new) /\ Falls(new, Beside(h, n, p))
         /\ DOMAIN new = 1..n /\ Len(new) = n
         /\ n \notin DOMAIN pgs /\ \A q \in DOMAIN pgs : q \in 1..n /\ q # n
         /\ \A q \in DOMAIN pgs : new[q].kind = pgs[q].kind /\ (q # p => new[q] = pgs[q])
         /\ new[n].kind = pgs[p].kind
         /\ Beside(h, n, p)[n] = h[p] /\ \A q \in DOMAIN pgs : Beside(h, n, p)[q] = h[q]
  <1> DEFINE ch == [pgs EXCEPT ![p] = left]
             new == Append(ch, right)
             g == Beside(h, n, p)
             AnyPage == LeafPage \cup NodePage
  <1>1. DOMAIN pgs = 1..Len(pgs) /\ Len(pgs) \in Nat /\ Root \in DOMAIN pgs /\ p \in Nat
    BY PageRight
  <1>2. pgs \in Seq(AnyPage)
    BY DEF Sound
  <1>3. /\ ch \in Seq(AnyPage) /\ Len(ch) = Len(pgs)
        /\ ch[p] = left /\ \A q \in DOMAIN pgs : q # p => ch[q] = pgs[q]
    BY <1>1, <1>2
  <1> HIDE DEF ch, AnyPage
  <1>4. right \in AnyPage
    BY DEF AnyPage
  <1>5. /\ new \in Seq(AnyPage) /\ Len(new) = n /\ new[n] = right
        /\ \A i \in 1..Len(ch) : new[i] = ch[i]
    BY <1>3, <1>4
  <1>6. /\ n \in Nat /\ n # 0 /\ DOMAIN new = 1..n /\ n \notin DOMAIN pgs
        /\ \A q \in DOMAIN pgs : q \in 1..n /\ q # n
        /\ \A q \in 1..n : q = n \/ q \in DOMAIN pgs
    BY <1>1, <1>5
  <1>7. new[p] = left /\ \A q \in DOMAIN pgs : q # p => new[q] = pgs[q]
    BY <1>1, <1>3, <1>5
  <1> HIDE DEF new
  <1>8. \A q \in DOMAIN pgs : new[q].kind = pgs[q].kind
    BY <1>7
  <1>9. Sound(new)
    <2>1. new # <<>>
      BY <1>5, <1>6
    <2>2. ASSUME NEW q \in 1..n PROVE Fits(new[q].kind, new[q].entries)
      BY <1>5, <1>6, <1>7 DEF Sound
    <2>3. QED
      BY <1>5, <1>6, <2>1, <2>2 DEF Sound, AnyPage
  <1>10. Linked(new)
    <2> SUFFICES ASSUME NEW q \in 1..n PROVE LinkRight(new, new[q])
      BY <1>6 DEF Linked
    <2>1. \A r \in DOMAIN pgs : LinkRight(pgs, pgs[r])
      BY DEF Linked
    <2>2. CASE q = n
      <3>1. right.kind = "leaf" => right.next = pgs[p].next /\ pgs[p].kind = "leaf"
        OBVIOUS
      <3>2. LinkRight(pgs, pgs[p])
        BY <2>1
      <3>3. QED
        BY <1>5, <1>6, <1>8, <2>2, <3>1, <3>2 DEF LinkRight
    <2>3. CASE q = p
      <3>1. n # Root /\ n \in 1..n
        BY <1>1, <1>6
      <3>2. left.kind = "leaf" => left.next = n /\ new[n].kind = "leaf"
        BY <1>5
      <3>3. QED
        BY <1>6, <1>7, <2>3, <3>1, <3>2 DEF LinkRight
    <2>4. CASE q # n /\ q # p
      <3>1. q \in DOMAIN pgs /\ new[q] = pgs[q]
        BY <1>6, <1>7, <2>4
      <3>2. LinkRight(pgs, pgs[q])
        BY <2>1, <3>1
      <3>3. QED
        BY <1>6, <1>8, <3>1, <3>2 DEF LinkRight
    <2>5. QED
      BY <2>2, <2>3, <2>4
  <1>11. h \in [DOMAIN pgs -> Nat] /\ \A q \in DOMAIN pgs : LeadsBelow(h, h[q], pgs[q])
    BY DEF Falls
  <1>12. g \in [1..n -> Nat] /\ g[n] = h[p] /\ \A q \in DOMAIN pgs : g[q] = h[q]
    BY <1>6, <1>11 DEF Beside
  <1> HIDE DEF g
  <1>13. ASSUME NEW level, NEW page, LeadsBelow(h, level, page) PROVE LeadsBelow(g, level, page)
    BY <1>6, <1>11, <1>12, <1>13 DEF LeadsBelow
  <1>14. Falls(new, g)
    <2> SUFFICES ASSUME NEW q \in 1..n PROVE LeadsBelow(g, g[q], new[q])
      BY <1>6, <1>12 DEF Falls
    <2>1. CASE q = n
      BY <1>5, <1>12, <1>13, <2>1
    <2>2. CASE q = p
      BY <1>7, <1>12, <1>13, <2>2
    <2>3. CASE q # n /\ q # p
      <3>1. q \in DOMAIN pgs /\ new[q] = pgs[q] /\ g[q] = h[q]
        BY <1>6, <1>7, <1>12, <2>3
      <3>2. LeadsBelow(h, h[q], pgs[q])
        BY <1>11, <3>1
      <3>3. QED
        BY <1>13, <3>1, <3>2
    <2>4. QED
      BY <2>1, <2>2, <2>3
  <1>15. QED
    BY <1>5, <1>6, <1>7, <1>8, <1>9, <1>10, <1>12, <1>14 DEF new, ch, g

\* The levels after the root has made room for another above it.
Raised(h, n) == [q \in 1..n |-> IF q = Root THEN h[Root] + 1
                                ELSE IF q = n THEN h[Root] ELSE h[q]]

(* grow_new_root: the root, split, has become a page like others. *)
LEMMA GrowRight ==
  ASSUME NEW pgs, Sound(pgs), Linked(pgs), NEW h, Falls(pgs, h),
         \A q \in DOMAIN pgs : h[q] <= h[Root],
         NEW split \in NodeEntry, split.child \in DOMAIN pgs, split.child # Root,
         NEW n, n = Len(pgs) + 1
  PROVE  LET new == GrowNewRoot(pgs, Root, split) IN
         /\ Sound(new) /\ Linked(new) /\ Falls(new, Raised(h, n)) /\ Topped(Raised(h, n))
         /\ DOMAIN new = 1..n /\ \A q \in DOMAIN pgs : q \in 1..n /\ q # n
         /\ \A q \in DOMAIN pgs : q # Root => new[q] = pgs[q] /\ Raised(h, n)[q] = h[q]
         /\ Raised(h, n)[Root] > h[Root]
  <1> DEFINE top == Internal(n, <<split>>)
             ch == [pgs EXCEPT ![Root] = top]
             new == Append(ch, pgs[Root])
             g == Raised(h, n)
             AnyPage == LeafPage \cup NodePage
  <1>1. DOMAIN pgs = 1..Len(pgs) /\ Len(pgs) \in Nat /\ Root \in DOMAIN pgs
    <2>1. DOMAIN pgs # {}
      BY DEF Sound
    <2>2. QED
      BY <2>1, PageRight
  <1>2. n \in Nat /\ n # 0 /\ n # Root /\ n \in 1..n /\ Root \in 1..n
    BY <1>1 DEF Root
  <1>3. pgs \in Seq(AnyPage) /\ pgs[Root] \in AnyPage
    BY <1>1 DEF Sound
  <1>4. /\ top \in NodePage /\ top.kind = "internal" /\ top.first = n
        /\ top.entries = <<split>> /\ top.entries[1] = split /\ DOMAIN top.entries = {1}
    BY <1>2 DEF Internal, NodePage
  <1>5. Fits(top.kind, top.entries)
    <2>1. split.key \in ShortKeys /\ split.key \in DOMAIN KeyLen
      BY DEF NodeEntry, ShortKeys
    <2>2. RequiredLen("internal", <<split>>) = HeaderSize + EntrySize("internal", split)
      BY <2>1, LenOfFew
    <2>3. EntrySize("internal", split) \in Nat /\ EntrySize("internal", split) <= Largest
      BY <2>1, LargestRight
    <2>4. HeaderSize + EntrySize("internal", split) <= PayloadSize
      BY <2>3, LargestRight DEF Largest
    <2>5. QED
      BY <1>4, <2>2, <2>4 DEF Fits
  <1>6. new = GrowNewRoot(pgs, Root, split)
    BY DEF GrowNewRoot
  <1> HIDE DEF top
  <1>7. top \in AnyPage
    BY <1>4
  <1> HIDE DEF AnyPage
  <1>8. /\ ch \in Seq(AnyPage) /\ Len(ch) = Len(pgs)
        /\ ch[Root] = top /\ \A q \in DOMAIN pgs : q # Root => ch[q] = pgs[q]
    BY <1>1, <1>3, <1>7
  <1> HIDE DEF ch
  <1>9. /\ new \in Seq(AnyPage) /\ Len(new) = n /\ new[n] = pgs[Root]
        /\ \A i \in 1..Len(ch) : new[i] = ch[i]
    BY <1>3, <1>8
  <1>10. /\ DOMAIN new = 1..n /\ \A q \in DOMAIN pgs : q \in 1..n /\ q # n
         /\ \A q \in 1..n : q = n \/ q \in DOMAIN pgs
    BY <1>1, <1>9
  <1>11. new[Root] = top /\ \A q \in DOMAIN pgs : q # Root => new[q] = pgs[q]
    BY <1>1, <1>8, <1>9
  <1> HIDE DEF new
  <1>12. Sound(new)
    <2>1. new # <<>>
      BY <1>2, <1>9
    <2>2. ASSUME NEW q \in 1..n PROVE Fits(new[q].kind, new[q].entries)
      BY <1>1, <1>5, <1>9, <1>10, <1>11 DEF Sound
    <2>3. QED
      BY <1>9, <1>10, <2>1, <2>2 DEF Sound, AnyPage
  <1>13. Linked(new)
    <2>1. ASSUME NEW page, LinkRight(pgs, page) PROVE LinkRight(new, page)
      BY <1>10, <1>11, <2>1 DEF LinkRight
    <2>2. \A q \in DOMAIN pgs : LinkRight(pgs, pgs[q])
      BY DEF Linked
    <2>3. LinkRight(new, top)
      BY <1>4 DEF LinkRight
    <2>4. \A q \in 1..n : LinkRight(new, new[q])
      BY <1>1, <1>9, <1>10, <1>11, <2>1, <2>2, <2>3
    <2>5. QED
      BY <1>10, <2>4 DEF Linked
  <1>14. h \in [DOMAIN pgs -> Nat] /\ \A q \in DOMAIN pgs : LeadsBelow(h, h[q], pgs[q])
    BY DEF Falls
  <1>15. h[Root] \in Nat
    BY <1>1, <1>14
  <1>16. /\ g \in [1..n -> Nat] /\ g[n] = h[Root] /\ g[Root] = h[Root] + 1
         /\ \A q \in DOMAIN pgs : q # Root => g[q] = h[q]
    BY <1>2, <1>10, <1>14, <1>15 DEF Raised
  <1> HIDE DEF g
  <1>17. ASSUME NEW q \in DOMAIN pgs, NEW page, LeadsBelow(h, h[q], page)
         PROVE  LeadsBelow(g, h[q], page)
    <2>1. ASSUME NEW c \in DOMAIN h, h[c] < h[q] PROVE c \in DOMAIN g /\ g[c] < h[q]
      <3>1. c \in DOMAIN pgs /\ h[c] \in Nat /\ h[q] \in Nat /\ h[q] <= h[Root]
        BY <1>14
      <3>2. c # Root
        BY <1>15, <2>1, <3>1
      <3>3. QED
        BY <1>10, <1>16, <2>1, <3>1, <3>2
    <2>2. QED
      BY <1>17, <2>1 DEF LeadsBelow
  <1>18. Falls(new, g)
    <2> SUFFICES ASSUME NEW q \in 1..n PROVE LeadsBelow(g, g[q], new[q])
      BY <1>10, <1>16 DEF Falls
    <2>1. CASE q = n
      BY <1>1, <1>9, <1>14, <1>16, <1>17, <2>1
    <2>2. CASE q = Root
      <3>1. split.child \in DOMAIN g /\ g[split.child] < g[Root]
        <4>1. g[split.child] = h[split.child] /\ h[split.child] <= h[Root] /\ h[split.child] \in Nat
          BY <1>14, <1>16
        <4>2. QED
          BY <1>10, <1>15, <1>16, <4>1
      <3>2. n \in DOMAIN g /\ g[n] < g[Root]
        BY <1>2, <1>15, <1>16
      <3>3. QED
        BY <1>4, <1>11, <2>2, <3>1, <3>2 DEF LeadsBelow
    <2>3. CASE q # n /\ q # Root
      <3>1. q \in DOMAIN pgs /\ new[q] = pgs[q] /\ g[q] = h[q]
        BY <1>10, <1>11, <1>16, <2>3
      <3>2. QED
        BY <1>14, <1>17, <3>1
    <2>4. QED
      BY <2>1, <2>2, <2>3
  <1>19. Topped(g)
    <2> SUFFICES ASSUME NEW q \in 1..n, q # Root PROVE g[q] < g[Root]
      BY <1>16 DEF Topped
    <2>1. CASE q = n
      BY <1>15, <1>16, <2>1
    <2>2. CASE q # n
      <3>1. g[q] = h[q] /\ h[q] <= h[Root] /\ h[q] \in Nat
        BY <1>10, <1>14, <1>16, <2>2
      <3>2. QED
        BY <1>15, <1>16, <3>1
    <2>3. QED
      BY <2>1, <2>2
  <1>20. g[Root] > h[Root]
    BY <1>15, <1>16
  <1>21. QED
    BY <1>6, <1>10, <1>11, <1>12, <1>13, <1>16, <1>18, <1>19, <1>20 DEF g

\* What a split of a page comes to.
Halved(result, p, h) ==
    LET n == Len(pages) + 1 IN
    /\ Sound(result.pages) /\ Linked(result.pages) /\ Falls(result.pages, Beside(h, n, p))
    /\ DOMAIN result.pages = 1..n /\ Len(result.pages) = n
    /\ n \in Nat /\ n # NoPage /\ n # Root /\ n \notin DOMAIN pages
    /\ \A q \in DOMAIN pages : q \in 1..n /\ q # n /\ Beside(h, n, p)[q] = h[q]
    /\ \A q \in DOMAIN pages : result.pages[q].kind = pages[q].kind
                               /\ (q # p => result.pages[q] = pages[q])
    /\ Beside(h, n, p)[n] = h[p]
    /\ result.split \in NodeEntry /\ result.split.child = n

(* split_leaf: both halves fit, and the new one is linked behind the other. *)
LEMMA SplitLeafRight ==
  ASSUME Sound(pages), Linked(pages), NEW h, Falls(pages, h),
         NEW p \in DOMAIN pages, pages[p].kind = "leaf", NEW entries \in Seq(LeafEntry),
         ~ Fits("leaf", entries), RequiredLen("leaf", entries) <= PayloadSize + Largest
  PROVE  Halved(SplitLeaf(p, entries), p, h)
  <1> DEFINE n == Len(pages) + 1
             mid == SplitPoint("leaf", entries)
             a == SubSeq(entries, 1, mid)
             b == SubSeq(entries, mid + 1, Len(entries))
             left == Leaf(a, n)
             right == Leaf(b, pages[p].next)
             split == [key |-> entries[mid + 1].key, child |-> n]
             new == Append([pages EXCEPT ![p] = left], right)
  <1>1. DOMAIN pages = 1..Len(pages) /\ Len(pages) \in Nat /\ pages[p] \in LeafPage /\ Root \in DOMAIN pages
    BY PageRight
  <1>2. n \in Nat /\ n # NoPage /\ n # Root
    BY <1>1 DEF NoPage, Root
  <1>3. /\ mid \in 1..Len(entries) /\ mid + 1 \in 1..Len(entries)
        /\ Fits("leaf", a) /\ Fits("leaf", b)
    BY EntriesShort, SplitRight
  <1>4. SplitLeaf(p, entries) = [pages |-> new, split |-> split]
    BY DEF SplitLeaf
  <1>5. a \in Seq(LeafEntry) /\ b \in Seq(LeafEntry) /\ entries[mid + 1] \in LeafEntry
    BY <1>3
  <1> HIDE DEF a, b, mid
  <1>6. split \in NodeEntry /\ split.child = n
    BY <1>2, <1>5 DEF LeafEntry, NodeEntry
  <1>7. /\ left \in LeafPage /\ left.kind = "leaf" /\ left.next = n /\ left.entries = a
        /\ right \in LeafPage /\ right.kind = "leaf" /\ right.next = pages[p].next /\ right.entries = b
    BY <1>1, <1>2, <1>5 DEF LeafPage, Leaf
  <1>8. LeadsBelow(h, h[p], left) /\ LeadsBelow(h, h[p], right)
    BY <1>7 DEF LeadsBelow
  <1> HIDE DEF left, right
  <1>9. /\ Sound(new) /\ Linked(new) /\ Falls(new, Beside(h, n, p))
        /\ DOMAIN new = 1..n /\ Len(new) = n
        /\ n \notin DOMAIN pages /\ \A q \in DOMAIN pages : q \in 1..n /\ q # n
        /\ \A q \in DOMAIN pages : new[q].kind = pages[q].kind /\ (q # p => new[q] = pages[q])
        /\ Beside(h, n, p)[n] = h[p] /\ \A q \in DOMAIN pages : Beside(h, n, p)[q] = h[q]
    <2> HIDE DEF n
    <2>1. n = Len(pages) + 1
      BY DEF n
    <2>2. Fits(left.kind, left.entries) /\ Fits(right.kind, right.entries)
      BY <1>3, <1>7
    <2>3. QED
      BY <1>7, <1>8, <2>1, <2>2, TwoHalves
  <1> DEFINE r == [pages |-> new, split |-> split]
  <1>10. r.pages = new /\ r.split = split
    OBVIOUS
  <1> HIDE DEF new, split, r
  <1>11. Halved(r, p, h)
    BY <1>2, <1>6, <1>9, <1>10 DEF Halved
  <1>12. QED
    BY <1>4, <1>11 DEF r

(* split_internal: the same, and the separator in the middle leaves.       *)
LEMMA SplitInternalRight ==
  ASSUME Sound(pages), Linked(pages), NEW h, Falls(pages, h),
         NEW p \in DOMAIN pages, pages[p].kind = "internal", NEW entries \in Seq(NodeEntry),
         \A i \in DOMAIN entries : entries[i].child \in DOMAIN h /\ h[entries[i].child] < h[p],
         ~ Fits("internal", entries), RequiredLen("internal", entries) <= PayloadSize + Largest
  PROVE  Halved(SplitInternal(p, entries), p, h)
  <1> DEFINE n == Len(pages) + 1
             mid == SplitPoint("internal", entries)
             a == SubSeq(entries, 1, mid)
             b == SubSeq(entries, mid + 2, Len(entries))
             up == entries[mid + 1]
             left == Internal(pages[p].first, a)
             right == Internal(up.child, b)
             split == [key |-> up.key, child |-> n]
             new == Append([pages EXCEPT ![p] = left], right)
  <1>1. DOMAIN pages = 1..Len(pages) /\ Len(pages) \in Nat /\ pages[p] \in NodePage /\ Root \in DOMAIN pages
    BY PageRight
  <1>2. n \in Nat /\ n # NoPage /\ n # Root
    BY <1>1 DEF NoPage, Root
  <1>3. /\ mid \in 1..Len(entries) /\ mid + 1 \in 1..Len(entries)
        /\ Fits("internal", a) /\ Fits("internal", b)
    BY EntriesShort, SplitRight
  <1>4. SplitInternal(p, entries) = [pages |-> new, split |-> split]
    BY DEF SplitInternal
  <1>5. /\ a \in Seq(NodeEntry) /\ b \in Seq(NodeEntry) /\ up \in NodeEntry
        /\ up.child \in DOMAIN h /\ h[up.child] < h[p]
        /\ \A i \in DOMAIN a : a[i].child \in DOMAIN h /\ h[a[i].child] < h[p]
        /\ \A i \in DOMAIN b : b[i].child \in DOMAIN h /\ h[b[i].child] < h[p]
    <2> HIDE DEF mid
    <2>1. a \in Seq(NodeEntry) /\ b \in Seq(NodeEntry) /\ up \in NodeEntry
      BY <1>3
    <2>2. up.child \in DOMAIN h /\ h[up.child] < h[p]
      BY <1>3
    <2>3. \A i \in DOMAIN a : i \in DOMAIN entries /\ a[i] = entries[i]
      BY <1>3
    <2>4. ASSUME NEW i \in DOMAIN b
          PROVE  i + mid + 1 \in DOMAIN entries /\ b[i] = entries[i + mid + 1]
      <3>1. Len(entries) \in Nat /\ mid \in Nat /\ mid + 2 \in Int
        BY <1>3
      <3>2. Len(b) = IF mid + 2 <= Len(entries) THEN Len(entries) - (mid + 2) + 1 ELSE 0
        BY <3>1
      <3>3. i \in 1..Len(b) /\ i \in Nat
        BY <2>1, <3>1, <3>2
      <3>4. i + mid + 1 \in 1..Len(entries) /\ i \in 1..(Len(entries) - (mid + 2) + 1)
        BY <3>1, <3>2, <3>3
      <3>5. b[i] = entries[(mid + 2) + i - 1]
        <4>1. \A k \in (mid + 2)..Len(entries) : entries[k] \in NodeEntry
          BY <3>1
        <4>2. \A k \in 1..(Len(entries) - (mid + 2) + 1) : b[k] = entries[(mid + 2) + k - 1]
          BY <3>1, <4>1, SubSeqProperties
        <4>3. QED
          BY <3>4, <4>2
      <3>6. QED
        BY <3>1, <3>3, <3>4, <3>5
    <2>5. QED
      BY <2>1, <2>2, <2>3, <2>4
  <1> HIDE DEF a, b, mid, up
  <1>6. split \in NodeEntry /\ split.child = n
    BY <1>2, <1>5 DEF NodeEntry
  <1>7. /\ left \in NodePage /\ left.kind = "internal" /\ left.first = pages[p].first /\ left.entries = a
        /\ right \in NodePage /\ right.kind = "internal" /\ right.first = up.child /\ right.entries = b
    BY <1>1, <1>5 DEF NodePage, NodeEntry, Internal
  <1>8. LeadsBelow(h, h[p], left) /\ LeadsBelow(h, h[p], right)
    <2>1. LeadsBelow(h, h[p], pages[p])
      BY DEF Falls
    <2>2. QED
      BY <1>5, <1>7, <2>1 DEF LeadsBelow
  <1> HIDE DEF left, right
  <1>9. /\ Sound(new) /\ Linked(new) /\ Falls(new, Beside(h, n, p))
        /\ DOMAIN new = 1..n /\ Len(new) = n
        /\ n \notin DOMAIN pages /\ \A q \in DOMAIN pages : q \in 1..n /\ q # n
        /\ \A q \in DOMAIN pages : new[q].kind = pages[q].kind /\ (q # p => new[q] = pages[q])
        /\ Beside(h, n, p)[n] = h[p] /\ \A q \in DOMAIN pages : Beside(h, n, p)[q] = h[q]
    <2> HIDE DEF n
    <2>1. n = Len(pages) + 1
      BY DEF n
    <2>2. Fits(left.kind, left.entries) /\ Fits(right.kind, right.entries)
      BY <1>3, <1>7
    <2>3. QED
      BY <1>7, <1>8, <2>1, <2>2, TwoHalves
  <1> DEFINE r == [pages |-> new, split |-> split]
  <1>10. r.pages = new /\ r.split = split
    OBVIOUS
  <1> HIDE DEF new, split, r
  <1>11. Halved(r, p, h)
    BY <1>2, <1>6, <1>9, <1>10 DEF Halved
  <1>12. QED
    BY <1>4, <1>11 DEF r

------------------------------------------------------------------------------
(* The inductive invariant.                                                *)

Places  == {"idle", "seek", "next", "walk", "descend", "propagate", "erase"}
AnyCall == {Idle} \cup {triple[3] : triple \in Calls}

Types ==
    /\ at \in [Thread -> Places] /\ call \in [Thread -> AnyCall]
    /\ held \in [Thread -> Seq(Nat)] /\ latch \in [Thread -> Nat]
    /\ pending \in [Thread -> NodeEntry \cup {NoSplit}]
    /\ stale \in [Thread -> Seq(LeafEntry)]
    /\ cursor = [t \in Thread |-> [leaf |-> cursor[t].leaf, position |-> cursor[t].position]]

\* One more separator fits, whichever it is.
Roomy(page) == RequiredLen("internal", page.entries) + 4 + MaxKeyLen + 8 <= PayloadSize

\* What a thread holds, and what for.
Doing(t) ==
    /\ at[t] \in {"walk", "erase"} => call[t].op = "delete"
    /\ at[t] \in {"descend", "propagate"} => call[t].op = "insert"
    /\ at[t] = "next" => call[t].op \in {"insert", "scan"}
    /\ at[t] = "seek" => call[t].op \in {"insert", "delete", "scan"}
    /\ held[t] # <<>> => at[t] \in {"descend", "propagate"}
    /\ \A i \in DOMAIN held[t] : held[t][i] \in DOMAIN pages /\ pages[held[t][i]].kind = "internal"
    /\ held[t] # <<>> /\ held[t][1] # Root => Roomy(pages[held[t][1]])
    /\ latch[t] # NoPage =>
          at[t] = "seek" /\ latch[t] \in DOMAIN pages /\ pages[latch[t]].kind = "internal"
    /\ at[t] = "propagate" => held[t] # <<>> /\ pending[t] # NoSplit
    /\ at[t] \in {"walk", "erase"} =>
          cursor[t].leaf \in DOMAIN pages /\ pages[cursor[t].leaf].kind = "leaf"
    /\ at[t] = "erase" => Fits("leaf", stale[t])

\* Latches go down the levels, and so does a split to its parent.
Coupled(h, t) ==
    /\ \A i, j \in DOMAIN held[t] : i < j => h[held[t][j]] < h[held[t][i]]
    /\ at[t] = "propagate" =>
          pending[t].child \in DOMAIN h /\ h[pending[t].child] < h[Last(held[t])]

Levels(h) == Falls(pages, h) /\ Topped(h) /\ \A t \in Thread : Coupled(h, t)

Ranked == \E h : Levels(h)

\* A latch for writing excludes all others.
Apart(t, u) == \A q \in ToSet(held[t]) : q \notin ToSet(held[u]) /\ latch[u] # q

Exclusive == \A t, u \in Thread : t # u => Apart(t, u)

\* Where deletes keep apart: no two writers next to each other, if one deletes.
Alone ==
    \A t, u \in Thread : t # u => ~ (Writing(t, {"delete"}) /\ Writing(u, {"insert", "delete"}))

TreeInv ==
    /\ Types /\ Sound(pages) /\ Linked(pages)
    /\ \A t \in Thread : Doing(t)
    /\ Exclusive /\ Alone /\ Ranked

(* The tree begins as one empty leaf, with nobody in it. *)
LEMMA TreeInit == Init => TreeInv
  <1> SUFFICES ASSUME Init PROVE TreeInv
    OBVIOUS
  <1> DEFINE root == Leaf(<<>>, NoPage)
             h == [p \in {Root} |-> 0]
  <1>1. pages = <<root>>
    BY DEF Init
  <1>2. root \in LeafPage /\ root.kind = "leaf" /\ root.next = NoPage /\ root.entries = <<>>
    BY DEF Leaf, LeafPage, NoPage
  <1> HIDE DEF root
  <1>3. /\ pages \in Seq(LeafPage) /\ pages # <<>> /\ DOMAIN pages = {Root} /\ pages[Root] = root
    BY <1>1, <1>2 DEF Root
  <1>4. Sound(pages)
    <2>1. pages \in Seq(LeafPage \cup NodePage)
      BY <1>1, <1>2
    <2>2. Fits("leaf", <<>>)
      BY LenOfFew, PayloadAssumption DEF Fits
    <2>3. QED
      BY <1>2, <1>3, <2>1, <2>2 DEF Sound
  <1>5. Linked(pages)
    BY <1>2, <1>3 DEF Linked, LinkRight
  <1>6. ASSUME NEW t \in Thread
        PROVE  /\ at[t] = "idle" /\ call[t] = Idle /\ held[t] = <<>> /\ latch[t] = NoPage
               /\ pending[t] = NoSplit /\ stale[t] = <<>> /\ cursor[t] = Nowhere
    BY DEF Init
  <1>7. Types
    <2>1. /\ at \in [Thread -> Places] /\ call \in [Thread -> AnyCall]
          /\ held \in [Thread -> Seq(Nat)] /\ latch \in [Thread -> Nat]
      BY DEF Init, Places, AnyCall, NoPage
    <2>2. pending \in [Thread -> NodeEntry \cup {NoSplit}] /\ stale \in [Thread -> Seq(LeafEntry)]
      BY DEF Init
    <2>3. Nowhere = [leaf |-> Nowhere.leaf, position |-> Nowhere.position]
      BY DEF Nowhere
    <2>4. cursor = [t \in Thread |-> Nowhere]
      BY DEF Init
    <2>5. cursor = [t \in Thread |-> [leaf |-> cursor[t].leaf, position |-> cursor[t].position]]
      BY <2>3, <2>4
    <2>6. QED
      BY <2>1, <2>2, <2>5 DEF Types
  <1>8. ASSUME NEW t \in Thread PROVE Doing(t)
    BY <1>6 DEF Doing
  <1>9. Exclusive
    BY <1>6 DEF Exclusive, Apart, ToSet
  <1>10. Alone
    BY <1>6 DEF Alone, Writing
  <1>11. Ranked
    <2>1. h \in [DOMAIN pages -> Nat] /\ h[Root] = 0 /\ DOMAIN h = {Root}
      BY <1>3
    <2> HIDE DEF h
    <2>2. Falls(pages, h)
      BY <1>2, <1>3, <2>1 DEF Falls, LeadsBelow
    <2>3. Topped(h)
      BY <2>1 DEF Topped
    <2>4. ASSUME NEW t \in Thread PROVE Coupled(h, t)
      BY <1>6 DEF Coupled
    <2>5. Levels(h)
      BY <2>2, <2>3, <2>4 DEF Levels
    <2>6. QED
      BY <2>5 DEF Ranked
  <1>12. QED
    BY <1>4, <1>5, <1>7, <1>8, <1>9, <1>10, <1>11 DEF TreeInv

\* A step of another thread.
Same(u) ==
    /\ at'[u] = at[u] /\ call'[u] = call[u] /\ held'[u] = held[u] /\ latch'[u] = latch[u]
    /\ cursor'[u] = cursor[u] /\ pending'[u] = pending[u] /\ stale'[u] = stale[u]

\* What a step makes of the pages: it writes one of them, if any, and may add
\* others.
Changed(p, h, g) ==
    /\ Sound(pages') /\ Linked(pages') /\ Falls(pages', g) /\ Topped(g)
    /\ \A q \in DOMAIN pages :
          /\ q \in DOMAIN pages'
          /\ q # p => pages'[q] = pages[q]
          /\ q # Root => g[q] = h[q]
          /\ g[q] >= h[q]

\* Nobody else has a latch on the page.
Only(t, p) == \A u \in Thread \ {t} : p \notin ToSet(held[u]) /\ latch[u] # p

(* What a thread holds is not touched by others. *)
LEMMA OtherRight ==
  ASSUME TreeInv, NEW u \in Thread, Same(u), NEW h, Levels(h), NEW g, NEW p, Changed(p, h, g),
         \/ pages' = pages
         \/ ~ Writing(u, {"delete"}) /\ p \notin ToSet(held[u]) /\ latch[u] # p
  PROVE  Doing(u)' /\ Coupled(g, u)'
  <1>1. Doing(u) /\ Coupled(h, u) /\ Falls(pages, h) /\ Topped(h)
    BY DEF TreeInv, Levels
  <1>2. held[u] \in Seq(Nat) /\ DOMAIN held[u] = 1..Len(held[u]) /\ Len(held[u]) \in Nat
    BY DEF TreeInv, Types
  <1>3. /\ at'[u] = at[u] /\ call'[u] = call[u] /\ held'[u] = held[u] /\ latch'[u] = latch[u]
        /\ cursor'[u] = cursor[u] /\ pending'[u] = pending[u] /\ stale'[u] = stale[u]
    BY DEF Same
  <1>4. ASSUME NEW q \in DOMAIN pages, q \in ToSet(held[u]) \/ q = latch[u]
        PROVE  q \in DOMAIN pages' /\ pages'[q] = pages[q]
    BY <1>4 DEF Changed
  <1>5. ASSUME NEW i \in DOMAIN held[u]
        PROVE  /\ held[u][i] \in DOMAIN pages /\ held[u][i] \in DOMAIN pages'
               /\ pages'[held[u][i]] = pages[held[u][i]]
    <2>1. held[u][i] \in DOMAIN pages /\ held[u][i] \in ToSet(held[u])
      BY <1>1 DEF Doing, ToSet
    <2>2. QED
      BY <1>4, <2>1
  <1>6. latch[u] # NoPage => latch[u] \in DOMAIN pages' /\ pages'[latch[u]] = pages[latch[u]]
    BY <1>1, <1>4 DEF Doing
  <1>7. at[u] \in {"walk", "erase"} => pages' = pages
    BY <1>1 DEF Doing, Writing
  <1>8. held[u] # <<>> => 1 \in DOMAIN held[u] /\ Len(held[u]) \in DOMAIN held[u]
    BY <1>2
  <1>9. Doing(u)'
    BY <1>1, <1>3, <1>5, <1>6, <1>7, <1>8 DEF Doing
  <1>10. h \in [DOMAIN pages -> Nat] /\ Root \in DOMAIN pages
    <2>1. DOMAIN pages # {}
      BY DEF TreeInv, Sound
    <2>2. QED
      BY <1>1, <2>1, PageRight DEF TreeInv, Falls
  <1>11. g \in [DOMAIN pages' -> Nat]
    BY DEF Changed, Falls
  <1>12. ASSUME NEW q \in DOMAIN pages, NEW r \in DOMAIN pages, h[q] < h[r] PROVE g[q] < g[r]
    <2>1. h[q] \in Nat /\ h[r] \in Nat /\ h[Root] \in Nat
      BY <1>10
    <2>2. q # Root
      <3>1. r # Root => h[r] < h[Root]
        BY <1>1, <1>10 DEF Topped
      <3>2. QED
        BY <1>12, <2>1, <3>1
    <2>3. g[q] = h[q] /\ g[r] >= h[r] /\ g[r] \in Nat
      BY <1>11, <2>2 DEF Changed
    <2>4. QED
      BY <1>12, <2>1, <2>3
  <1>13. Coupled(g, u)'
    <2>1. \A i, j \in DOMAIN held[u] : i < j => g[held[u][j]] < g[held[u][i]]
      BY <1>1, <1>5, <1>12 DEF Coupled
    <2>2. ASSUME at[u] = "propagate"
          PROVE  pending[u].child \in DOMAIN g /\ g[pending[u].child] < g[Last(held[u])]
      <3>1. pending[u].child \in DOMAIN pages /\ h[pending[u].child] < h[Last(held[u])]
        BY <1>1, <1>10, <2>2 DEF Coupled
      <3>2. Last(held[u]) \in DOMAIN pages
        BY <1>1, <1>5, <1>8, <2>2 DEF Last, Doing
      <3>3. pending[u].child \in DOMAIN g
        BY <1>11, <3>1 DEF Changed
      <3>4. QED
        BY <1>12, <3>1, <3>2, <3>3
    <2>3. QED
      BY <1>3, <2>1, <2>2 DEF Coupled, Last
  <1>14. QED
    BY <1>9, <1>13

(* Pages that are not changed keep their levels. *)
LEMMA Unchanged ==
  ASSUME TreeInv, NEW h, Levels(h), NEW p, pages' = pages
  PROVE  Changed(p, h, h)
  <1>1. Sound(pages) /\ Linked(pages) /\ Falls(pages, h) /\ Topped(h)
    BY DEF TreeInv, Levels
  <1>2. h \in [DOMAIN pages -> Nat]
    BY <1>1 DEF Falls
  <1>3. \A q \in DOMAIN pages : h[q] >= h[q]
    BY <1>2
  <1>4. QED
    BY <1>1, <1>3 DEF Changed

(* Writers stay apart while a call goes on or returns. *)
LEMMA AloneStays ==
  ASSUME TreeInv, NEW t \in Thread, at[t] # "idle", call' = call, \A u \in Thread \ {t} : Same(u)
  PROVE  Alone'
  <1>1. \A u \in Thread : \A ops : Writing(u, ops)' => Writing(u, ops)
    BY DEF Writing, Same
  <1>2. QED
    BY <1>1 DEF Alone, TreeInv

(* A step of one thread: what is left to show of it. *)
LEMMA ThreadStep ==
  ASSUME TreeInv, NEW t \in Thread, NEW h, Levels(h), NEW g, NEW p, Changed(p, h, g),
         pages' = pages \/ (Writing(t, {"insert", "delete"}) /\ Only(t, p)),
         \A u \in Thread \ {t} : Same(u),
         Types', Doing(t)', Coupled(g, t)', Alone',
         \A q \in ToSet(held'[t]) : q \in ToSet(held[t]) \/ Only(t, q),
         latch'[t] # NoPage /\ latch'[t] # latch[t] =>
            \A u \in Thread \ {t} : latch'[t] \notin ToSet(held[u])
  PROVE  TreeInv'
  <1>1. ASSUME NEW u \in Thread, u # t PROVE Doing(u)' /\ Coupled(g, u)'
    <2>1. Same(u)
      BY <1>1
    <2>2. pages' = pages \/ (~ Writing(u, {"delete"}) /\ p \notin ToSet(held[u]) /\ latch[u] # p)
      BY <1>1 DEF Only, TreeInv, Alone
    <2>3. QED
      BY <2>1, <2>2, OtherRight
  <1>2. Ranked'
    <2>1. \A u \in Thread : Coupled(g, u)'
      BY <1>1
    <2>2. Levels(g)'
      BY <2>1 DEF Levels, Changed
    <2>3. QED
      BY <2>2 DEF Ranked
  <1>3. \A u \in Thread : NoPage \notin ToSet(held[u])
    <2> SUFFICES ASSUME NEW u \in Thread, NEW i \in DOMAIN held[u], held[u][i] = NoPage PROVE FALSE
      BY DEF ToSet
    <2>1. held[u][i] \in DOMAIN pages
      BY DEF TreeInv, Doing
    <2>2. QED
      BY <2>1, PageRight DEF TreeInv
  <1>4. Exclusive'
    <2>1. ASSUME NEW u \in Thread, u # t PROVE Apart(t, u)' /\ Apart(u, t)'
      <3>1. held'[u] = held[u] /\ latch'[u] = latch[u]
        BY <2>1 DEF Same
      <3>2. Apart(t, u) /\ Apart(u, t)
        BY <2>1 DEF TreeInv, Exclusive
      <3>3. \A q \in ToSet(held'[t]) : q \notin ToSet(held[u]) /\ latch[u] # q
        BY <2>1, <3>2 DEF Apart, Only
      <3>4. latch'[t] \notin ToSet(held[u])
        BY <1>3, <2>1, <3>2 DEF Apart
      <3>5. QED
        BY <3>1, <3>3, <3>4 DEF Apart
    <2>2. ASSUME NEW u \in Thread, NEW v \in Thread, u # v, u # t, v # t PROVE Apart(u, v)'
      <3>1. Apart(u, v)
        BY <2>2 DEF TreeInv, Exclusive
      <3>2. QED
        BY <2>2, <3>1 DEF Apart, Same
    <2>3. QED
      BY <2>1, <2>2 DEF Exclusive
  <1>5. Sound(pages)' /\ Linked(pages)'
    BY DEF Changed
  <1>6. \A u \in Thread : Doing(u)'
    BY <1>1
  <1>7. QED
    BY <1>2, <1>4, <1>5, <1>6 DEF TreeInv

(* A call that returns holds nothing. *)
LEMMA ReturnsRight ==
  ASSUME TreeInv, NEW t \in Thread, NEW value, Returns(t, value)
  PROVE  /\ Types' /\ \A u \in Thread \ {t} : Same(u)
         /\ Doing(t)' /\ \A g : Coupled(g, t)'
         /\ ToSet(held'[t]) = {} /\ latch'[t] = NoPage /\ call' = call
  <1>1. Types
    BY DEF TreeInv
  <1>2. /\ at' = [at EXCEPT ![t] = "idle"] /\ held' = [held EXCEPT ![t] = <<>>]
        /\ latch' = [latch EXCEPT ![t] = NoPage] /\ cursor' = [cursor EXCEPT ![t] = Nowhere]
        /\ pending' = [pending EXCEPT ![t] = NoSplit] /\ stale' = [stale EXCEPT ![t] = <<>>]
        /\ call' = call
    BY DEF Returns, Goes
  <1>3. Types'
    <2>1. at' \in [Thread -> Places] /\ call' \in [Thread -> AnyCall]
      BY <1>1, <1>2 DEF Types, Places
    <2>2. held' \in [Thread -> Seq(Nat)] /\ latch' \in [Thread -> Nat]
      BY <1>1, <1>2 DEF Types, NoPage
    <2>3. pending' \in [Thread -> NodeEntry \cup {NoSplit}] /\ stale' \in [Thread -> Seq(LeafEntry)]
      BY <1>1, <1>2 DEF Types
    <2>4. cursor' = [u \in Thread |-> [leaf |-> cursor'[u].leaf, position |-> cursor'[u].position]]
      <3>1. Nowhere = [leaf |-> Nowhere.leaf, position |-> Nowhere.position]
        BY DEF Nowhere
      <3>2. QED
        BY <1>1, <1>2, <3>1 DEF Types
    <2>5. QED
      BY <2>1, <2>2, <2>3, <2>4 DEF Types
  <1>4. DOMAIN cursor = Thread
    BY <1>1 DEF Types
  <1>5. \A u \in Thread \ {t} : Same(u)
    BY <1>1, <1>2, <1>4 DEF Types, Same
  <1>6. at'[t] = "idle" /\ held'[t] = <<>> /\ latch'[t] = NoPage
    BY <1>1, <1>2 DEF Types
  <1>7. Doing(t)'
    BY <1>6 DEF Doing
  <1>8. \A g : Coupled(g, t)'
    BY <1>6 DEF Coupled
  <1>9. QED
    BY <1>2, <1>3, <1>5, <1>6, <1>7, <1>8 DEF ToSet

(* The end of a call that changes no page, or one that the thread has alone. *)
LEMMA ReturnStays ==
  ASSUME TreeInv, NEW t \in Thread, at[t] # "idle", NEW value, Returns(t, value),
         NEW h, Levels(h), NEW g, NEW p, Changed(p, h, g),
         pages' = pages \/ (Writing(t, {"insert", "delete"}) /\ Only(t, p))
  PROVE  TreeInv'
  <1>1. /\ Types' /\ \A u \in Thread \ {t} : Same(u)
        /\ Doing(t)' /\ Coupled(g, t)'
        /\ ToSet(held'[t]) = {} /\ latch'[t] = NoPage /\ call' = call
    BY ReturnsRight
  <1>2. Alone'
    BY <1>1, AloneStays
  <1>3. QED
    BY <1>1, <1>2, ThreadStep

------------------------------------------------------------------------------
(* Reading.                                                                *)

(* A step of a thread that writes nothing and holds nothing for writing. *)
LEMMA QuietStays ==
  ASSUME TreeInv, NEW t \in Thread, at[t] # "idle", pages' = pages, call' = call,
         Types', \A u \in Thread \ {t} : Same(u), Doing(t)',
         held'[t] = <<>>, at'[t] # "propagate",
         latch'[t] # NoPage => \A u \in Thread \ {t} : latch'[t] \notin ToSet(held[u])
  PROVE  TreeInv'
  <1>1. PICK h : Levels(h)
    BY DEF TreeInv, Ranked
  <1>2. Changed(Root, h, h)
    BY <1>1, Unchanged
  <1>3. Coupled(h, t)' /\ ToSet(held'[t]) = {}
    BY DEF Coupled, ToSet
  <1>4. Alone'
    BY AloneStays
  <1>5. QED
    BY <1>1, <1>2, <1>3, <1>4, ThreadStep

\* Where a thread reads.
Moved(t, leaf, position) ==
    cursor' = [cursor EXCEPT ![t] = [leaf |-> leaf, position |-> position]]

(* A thread's cursor after it has moved. *)
LEMMA MovedRight ==
  ASSUME Types, NEW t \in Thread, NEW leaf, NEW position, Moved(t, leaf, position)
  PROVE  /\ cursor' = [u \in Thread |-> [leaf |-> cursor'[u].leaf, position |-> cursor'[u].position]]
         /\ cursor'[t].leaf = leaf /\ \A u \in Thread \ {t} : cursor'[u] = cursor[u]
  <1> DEFINE c == [leaf |-> leaf, position |-> position]
  <1>1. c.leaf = leaf /\ c = [leaf |-> c.leaf, position |-> c.position]
    OBVIOUS
  <1>2. cursor' = [cursor EXCEPT ![t] = c]
    BY DEF Moved
  <1> HIDE DEF c
  <1>3. QED
    BY <1>1, <1>2 DEF Types

(* Only the leaf or only the position. *)
LEMMA MovesRight ==
  ASSUME Types, NEW t \in Thread
  PROVE  /\ \A leaf : cursor' = [cursor EXCEPT ![t].leaf = leaf] => Moved(t, leaf, cursor[t].position)
         /\ \A position : cursor' = [cursor EXCEPT ![t].position = position]
                             => Moved(t, cursor[t].leaf, position)
         /\ cursor' = [cursor EXCEPT ![t] = Nowhere] => Moved(t, Nowhere.leaf, Nowhere.position)
  <1>1. cursor[t] = [leaf |-> cursor[t].leaf, position |-> cursor[t].position]
    BY DEF Types
  <1>2. \A leaf : [cursor[t] EXCEPT !.leaf = leaf] = [leaf |-> leaf, position |-> cursor[t].position]
    BY <1>1
  <1>3. \A position : [cursor[t] EXCEPT !.position = position] = [leaf |-> cursor[t].leaf, position |-> position]
    BY <1>1
  <1>4. ASSUME NEW leaf, cursor' = [cursor EXCEPT ![t].leaf = leaf] PROVE Moved(t, leaf, cursor[t].position)
    <2>1. cursor' = [cursor EXCEPT ![t] = [cursor[t] EXCEPT !.leaf = leaf]]
      BY <1>4
    <2>2. QED
      BY <1>2, <2>1 DEF Moved
  <1>5. ASSUME NEW position, cursor' = [cursor EXCEPT ![t].position = position]
        PROVE  Moved(t, cursor[t].leaf, position)
    <2>1. cursor' = [cursor EXCEPT ![t] = [cursor[t] EXCEPT !.position = position]]
      BY <1>5
    <2>2. QED
      BY <1>3, <2>1 DEF Moved
  <1>6. Nowhere = [leaf |-> Nowhere.leaf, position |-> Nowhere.position]
    BY DEF Nowhere
  <1>7. QED
    BY <1>4, <1>5, <1>6 DEF Moved

(* delete at a leaf. *)
LEMMA ExamineStays ==
  ASSUME TreeInv, NEW t \in Thread, at[t] \in {"seek", "walk"}, call[t].op = "delete",
         NEW p \in DOMAIN pages, pages[p].kind = "leaf", Examine(t, p)
  PROVE  TreeInv'
  <1> DEFINE e == call[t].entry
  <1>1. Types /\ Doing(t) /\ Sound(pages) /\ at[t] # "idle" /\ pages' = pages
    BY DEF TreeInv, Examine
  <1>2. held[t] = <<>> /\ pages[p] \in LeafPage
    BY <1>1, PageRight DEF Doing, NodePage
  <1>3. DOMAIN cursor = Thread
    BY <1>1 DEF Types
  <1>4. CASE e \in ToSet(pages[p].entries)
    <2> DEFINE rest == RemoveFirst(pages[p].entries, e)
    <2>1. /\ at' = [at EXCEPT ![t] = "erase"] /\ stale' = [stale EXCEPT ![t] = rest]
          /\ cursor' = [cursor EXCEPT ![t].leaf = p] /\ latch' = [latch EXCEPT ![t] = NoPage]
          /\ call' = call /\ held' = held /\ pending' = pending
      BY <1>4 DEF Examine, Goes, Dropped
    <2>2. rest \in Seq(LeafEntry) /\ Fits("leaf", rest)
      <3>1. pages[p].entries \in Seq(LeafEntry)
        BY <1>2 DEF LeafPage
      <3>2. rest \in Seq(LeafEntry) /\ RequiredLen("leaf", rest) <= RequiredLen("leaf", pages[p].entries)
        BY <3>1, EntriesShort, RemoveFirstRight
      <3>3. RequiredLen("leaf", rest) \in Nat /\ RequiredLen("leaf", pages[p].entries) \in Nat
        BY <3>1, <3>2, EntriesShort, LenOfConcat
      <3>4. RequiredLen("leaf", pages[p].entries) <= PayloadSize
        BY <1>1 DEF Sound, Fits
      <3> HIDE DEF rest
      <3>5. QED
        BY <3>2, <3>3, <3>4, PayloadAssumption DEF Fits
    <2> HIDE DEF rest
    <2>3. Moved(t, p, cursor[t].position)
      BY <1>1, <2>1, MovesRight
    <2>4. /\ cursor' = [u \in Thread |-> [leaf |-> cursor'[u].leaf, position |-> cursor'[u].position]]
          /\ cursor'[t].leaf = p /\ \A u \in Thread \ {t} : cursor'[u] = cursor[u]
      BY <1>1, <2>3, MovedRight
    <2>5. Types'
      BY <1>1, <2>1, <2>2, <2>4 DEF Types, Places, NoPage
    <2>6. /\ at'[t] = "erase" /\ held'[t] = <<>> /\ latch'[t] = NoPage /\ stale'[t] = rest
          /\ call'[t] = call[t]
      BY <1>1, <1>2, <2>1 DEF Types
    <2>7. \A u \in Thread \ {t} : Same(u)
      BY <1>1, <2>1, <2>4 DEF Types, Same
    <2>8. Doing(t)'
      BY <1>1, <2>2, <2>4, <2>6 DEF Doing
    <2>9. QED
      BY <1>1, <2>1, <2>5, <2>6, <2>7, <2>8, QuietStays
  <1>5. CASE e \notin ToSet(pages[p].entries) /\ MightContinue(pages[p], e.key) /\ pages[p].next # NoPage
    <2> DEFINE next == pages[p].next
    <2>1. /\ at' = [at EXCEPT ![t] = "walk"] /\ stale' = stale
          /\ cursor' = [cursor EXCEPT ![t].leaf = next] /\ latch' = [latch EXCEPT ![t] = NoPage]
          /\ call' = call /\ held' = held /\ pending' = pending
      BY <1>5 DEF Examine, Goes, Dropped
    <2>2. next \in DOMAIN pages /\ pages[next].kind = "leaf"
      BY <1>5 DEF TreeInv, Linked, LinkRight
    <2> HIDE DEF next
    <2>3. Moved(t, next, cursor[t].position)
      BY <1>1, <2>1, MovesRight
    <2>4. /\ cursor' = [u \in Thread |-> [leaf |-> cursor'[u].leaf, position |-> cursor'[u].position]]
          /\ cursor'[t].leaf = next /\ \A u \in Thread \ {t} : cursor'[u] = cursor[u]
      BY <1>1, <2>3, MovedRight
    <2>5. Types'
      BY <1>1, <2>1, <2>4 DEF Types, Places, NoPage
    <2>6. /\ at'[t] = "walk" /\ held'[t] = <<>> /\ latch'[t] = NoPage /\ call'[t] = call[t]
      BY <1>1, <1>2, <2>1 DEF Types
    <2>7. \A u \in Thread \ {t} : Same(u)
      BY <1>1, <2>1, <2>4 DEF Types, Same
    <2>8. Doing(t)'
      BY <1>1, <2>2, <2>4, <2>6 DEF Doing
    <2>9. QED
      BY <1>1, <2>1, <2>5, <2>6, <2>7, <2>8, QuietStays
  <1>6. CASE /\ e \notin ToSet(pages[p].entries)
             /\ ~ (MightContinue(pages[p], e.key) /\ pages[p].next # NoPage)
    <2>1. Returns(t, "absent")
      BY <1>6 DEF Examine
    <2>2. PICK h : Levels(h)
      BY DEF TreeInv, Ranked
    <2>3. Changed(Root, h, h)
      BY <1>1, <2>2, Unchanged
    <2>4. QED
      BY <1>1, <2>1, <2>2, <2>3, ReturnStays
  <1>7. QED
    BY <1>4, <1>5, <1>6

(* A step down leads to a page, below the one it starts from. *)
LEMMA DownRight ==
  ASSUME TreeInv, NEW h, Levels(h), NEW q \in DOMAIN pages, pages[q].kind = "internal", NEW position
  PROVE  LET p == ChildFor(pages[q], position) IN p \in DOMAIN pages /\ h[p] < h[q]
  <1>1. pages[q] \in NodePage
    BY PageRight DEF TreeInv, LeafPage
  <1>2. DOMAIN h = DOMAIN pages /\ LeadsBelow(h, h[q], pages[q])
    BY DEF Levels, Falls
  <1>3. QED
    BY <1>1, <1>2, ChildRight

(* There is a root. *)
LEMMA RootRight ==
  ASSUME TreeInv
  PROVE  Root \in DOMAIN pages
  <1>1. DOMAIN pages # {}
    BY DEF TreeInv, Sound
  <1>2. QED
    BY <1>1, PageRight DEF TreeInv

(* One page down. *)
LEMMA SeekStays ==
  ASSUME TreeInv, NEW t \in Thread, Seek(t)
  PROVE  TreeInv'
  <1> DEFINE p == IF latch[t] = NoPage THEN Root ELSE ChildFor(pages[latch[t]], cursor[t].position)
  <1>1. PICK h : Levels(h)
    BY DEF TreeInv, Ranked
  <1>2. Types /\ Doing(t) /\ Sound(pages) /\ at[t] = "seek"
    BY DEF TreeInv, Seek
  <1>3. p \in DOMAIN pages
    <2>1. CASE latch[t] = NoPage
      BY <2>1, RootRight
    <2>2. CASE latch[t] # NoPage
      <3>1. latch[t] \in DOMAIN pages /\ pages[latch[t]].kind = "internal"
        BY <1>2, <2>2 DEF Doing
      <3>2. QED
        BY <1>1, <2>2, <3>1, DownRight
    <2>3. QED
      BY <2>1, <2>2
  <1>4. /\ Readable(p)
        /\ IF IsLeaf(p) /\ call[t].op = "delete"
           THEN Examine(t, p)
           ELSE /\ IF IsLeaf(p)
                   THEN /\ Goes(t, "next")
                        /\ latch' = [latch EXCEPT ![t] = NoPage]
                        /\ cursor' = [cursor EXCEPT ![t].leaf = p]
                   ELSE latch' = [latch EXCEPT ![t] = p] /\ UNCHANGED <<at, cursor>>
                /\ UNCHANGED <<pages, call, answer, got, owed, made, held, pending, stale>>
    BY DEF Seek
  <1> HIDE DEF p
  <1>5. held[t] = <<>> /\ (pages[p].kind = "leaf" \/ pages[p].kind = "internal") /\ p \in Nat
    BY <1>2, <1>3, PageRight DEF Doing
  <1>6. DOMAIN cursor = Thread
    BY <1>2 DEF Types
  <1>7. CASE IsLeaf(p) /\ call[t].op = "delete"
    BY <1>2, <1>3, <1>4, <1>7, ExamineStays DEF IsLeaf
  <1>8. CASE IsLeaf(p) /\ call[t].op # "delete"
    <2>1. /\ at' = [at EXCEPT ![t] = "next"] /\ latch' = [latch EXCEPT ![t] = NoPage]
          /\ cursor' = [cursor EXCEPT ![t].leaf = p]
          /\ pages' = pages /\ call' = call /\ held' = held /\ pending' = pending /\ stale' = stale
      BY <1>4, <1>8 DEF Goes
    <2>2. Moved(t, p, cursor[t].position)
      BY <1>2, <2>1, MovesRight
    <2>3. /\ cursor' = [u \in Thread |-> [leaf |-> cursor'[u].leaf, position |-> cursor'[u].position]]
          /\ \A u \in Thread \ {t} : cursor'[u] = cursor[u]
      BY <1>2, <2>2, MovedRight
    <2>4. Types'
      BY <1>2, <2>1, <2>3 DEF Types, Places, NoPage
    <2>5. at'[t] = "next" /\ held'[t] = <<>> /\ latch'[t] = NoPage /\ call'[t] = call[t]
      BY <1>2, <1>5, <2>1 DEF Types
    <2>6. \A u \in Thread \ {t} : Same(u)
      BY <1>2, <2>1, <2>3 DEF Types, Same
    <2>7. Doing(t)'
      BY <1>2, <1>8, <2>5 DEF Doing
    <2>8. QED
      BY <1>2, <2>1, <2>4, <2>5, <2>6, <2>7, QuietStays
  <1>9. CASE ~ IsLeaf(p)
    <2>1. /\ latch' = [latch EXCEPT ![t] = p] /\ at' = at /\ cursor' = cursor
          /\ pages' = pages /\ call' = call /\ held' = held /\ pending' = pending /\ stale' = stale
      BY <1>4, <1>9
    <2>2. Types'
      BY <1>2, <1>5, <2>1 DEF Types
    <2>3. at'[t] = "seek" /\ held'[t] = <<>> /\ latch'[t] = p /\ call'[t] = call[t]
      BY <1>2, <1>5, <2>1 DEF Types
    <2>4. \A u \in Thread \ {t} : Same(u)
      BY <1>2, <2>1 DEF Types, Same
    <2>5. pages[p].kind = "internal"
      BY <1>5, <1>9 DEF IsLeaf
    <2>6. Doing(t)'
      BY <1>2, <1>3, <2>1, <2>3, <2>5 DEF Doing
    <2>7. \A u \in Thread \ {t} : p \notin ToSet(held[u])
      BY <1>4 DEF Readable
    <2>8. QED
      BY <1>2, <2>1, <2>2, <2>3, <2>4, <2>6, <2>7, QuietStays
  <1>10. QED
    BY <1>7, <1>8, <1>9

(* A delete walks on along the leaves. *)
LEMMA WalkStays ==
  ASSUME TreeInv, NEW t \in Thread, Walk(t)
  PROVE  TreeInv'
  <1>1. at[t] = "walk" /\ Doing(t) /\ Examine(t, cursor[t].leaf)
    BY DEF TreeInv, Walk
  <1>2. QED
    BY <1>1, ExamineStays DEF Doing

(* A scan starts again. *)
LEMMA RestartStays ==
  ASSUME TreeInv, NEW t \in Thread, Restart(t)
  PROVE  TreeInv'
  <1>1. /\ at[t] = "next" /\ at' = [at EXCEPT ![t] = "seek"]
        /\ UNCHANGED <<pages, call, held, latch, cursor, pending, stale>>
    BY DEF Restart, Goes
  <1>2. Types /\ Doing(t)
    BY DEF TreeInv
  <1>3. held[t] = <<>> /\ latch[t] = NoPage
    BY <1>1, <1>2 DEF Doing
  <1>4. Types'
    BY <1>1, <1>2 DEF Types, Places
  <1>5. at'[t] = "seek" /\ held'[t] = <<>> /\ latch'[t] = NoPage /\ call'[t] = call[t]
    BY <1>1, <1>2, <1>3 DEF Types
  <1>6. \A u \in Thread \ {t} : Same(u)
    BY <1>1, <1>2 DEF Types, Same
  <1>7. Doing(t)'
    BY <1>1, <1>2, <1>5 DEF Doing
  <1>8. QED
    BY <1>1, <1>4, <1>5, <1>6, <1>7, QuietStays

(* A scan comes to its end, or an insert goes on after its lookup. *)
LEMMA ExhaustedStays ==
  ASSUME TreeInv, NEW t \in Thread, at[t] = "next", Exhausted(t), pages' = pages
  PROVE  TreeInv'
  <1>1. PICK h : Levels(h)
    BY DEF TreeInv, Ranked
  <1>2. Changed(Root, h, h)
    BY <1>1, Unchanged
  <1>3. Types /\ Doing(t)
    BY DEF TreeInv
  <1>4. held[t] = <<>> /\ latch[t] = NoPage /\ call[t].op \in {"insert", "scan"}
    BY <1>3 DEF Doing
  <1>5. ASSUME NEW value, Returns(t, value) PROVE TreeInv'
    BY <1>1, <1>2, <1>5, ReturnStays
  <1>6. CASE call[t].op = "scan"
    <2>1. Returns(t, "end")
      BY <1>6 DEF Exhausted
    <2>2. QED
      BY <1>5, <2>1
  <1>7. CASE call[t].op = "insert" /\ got[t] # <<>>
    <2>1. Returns(t, "refused")
      BY <1>7 DEF Exhausted
    <2>2. QED
      BY <1>5, <2>1
  <1>8. CASE call[t].op = "insert" /\ got[t] = <<>>
    <2>1. /\ at' = [at EXCEPT ![t] = "descend"] /\ cursor' = [cursor EXCEPT ![t] = Nowhere]
          /\ UNCHANGED <<call, held, latch, pending, stale>>
      BY <1>8 DEF Exhausted, Goes
    <2>2. Moved(t, Nowhere.leaf, Nowhere.position)
      BY <1>3, <2>1, MovesRight
    <2>3. /\ cursor' = [u \in Thread |-> [leaf |-> cursor'[u].leaf, position |-> cursor'[u].position]]
          /\ \A u \in Thread \ {t} : cursor'[u] = cursor[u]
      BY <1>3, <2>2, MovedRight
    <2>4. Types'
      BY <1>3, <2>1, <2>3 DEF Types, Places
    <2>5. at'[t] = "descend" /\ held'[t] = <<>> /\ latch'[t] = NoPage /\ call'[t] = call[t]
      BY <1>3, <1>4, <2>1 DEF Types
    <2>6. \A u \in Thread \ {t} : Same(u)
      BY <1>3, <2>1, <2>3 DEF Types, Same
    <2>7. Doing(t)'
      BY <1>8, <2>5 DEF Doing
    <2>8. QED
      BY <2>1, <2>4, <2>5, <2>6, <2>7, QuietStays
  <1>9. QED
    BY <1>4, <1>6, <1>7, <1>8

(* One look at a leaf. *)
LEMMA NextStays ==
  ASSUME TreeInv, NEW t \in Thread, NextEntry(t)
  PROVE  TreeInv'
  <1> DEFINE page == pages[cursor[t].leaf]
             ahead == {e \in ToSet(page.entries) : Qualifies(e, cursor[t].position)}
             nearest == CHOOSE e \in ahead : \A f \in ahead :
                           e.key < f.key \/ (e.key = f.key /\ e.rid <= f.rid)
             after == [kind |-> "after", key |-> nearest.key, rid |-> nearest.rid]
  <1>1. at[t] = "next" /\ pages' = pages
    BY DEF NextEntry
  <1>2. \/ Exhausted(t)
        \/ /\ cursor' = [cursor EXCEPT ![t].position = after]
           /\ UNCHANGED <<call, at, held, latch, pending, stale>>
        \/ /\ cursor' = [cursor EXCEPT ![t] = [leaf |-> page.next, position |-> Carried(@.position)]]
           /\ UNCHANGED <<call, at, held, latch, pending, stale>>
    BY DEF NextEntry
  <1> HIDE DEF page, ahead, nearest, after
  <1>3. Types /\ Doing(t)
    BY DEF TreeInv
  <1>4. ASSUME NEW leaf, NEW position, Moved(t, leaf, position),
               UNCHANGED <<call, at, held, latch, pending, stale>>
        PROVE  TreeInv'
    <2>1. /\ cursor' = [u \in Thread |-> [leaf |-> cursor'[u].leaf, position |-> cursor'[u].position]]
          /\ \A u \in Thread \ {t} : cursor'[u] = cursor[u]
      BY <1>3, <1>4, MovedRight
    <2>2. Types'
      BY <1>3, <1>4, <2>1 DEF Types
    <2>3. at'[t] = "next" /\ held'[t] = <<>> /\ latch'[t] = NoPage /\ call'[t] = call[t]
      BY <1>1, <1>3, <1>4 DEF Doing
    <2>4. \A u \in Thread \ {t} : Same(u)
      BY <1>4, <2>1 DEF Same
    <2>5. Doing(t)'
      BY <1>1, <1>3, <2>3 DEF Doing
    <2>6. QED
      BY <1>1, <1>4, <2>2, <2>3, <2>4, <2>5, QuietStays
  <1>5. CASE Exhausted(t)
    BY <1>1, <1>5, ExhaustedStays
  <1>6. CASE /\ cursor' = [cursor EXCEPT ![t].position = after]
             /\ UNCHANGED <<call, at, held, latch, pending, stale>>
    BY <1>3, <1>4, <1>6, MovesRight
  <1>7. CASE /\ cursor' = [cursor EXCEPT ![t] = [leaf |-> page.next, position |-> Carried(@.position)]]
             /\ UNCHANGED <<call, at, held, latch, pending, stale>>
    <2>1. Moved(t, page.next, Carried(cursor[t].position))
      BY <1>3, <1>7 DEF Moved, Types
    <2>2. QED
      BY <1>4, <1>7, <2>1
  <1>8. QED
    BY <1>2, <1>5, <1>6, <1>7

(* What is called. *)
LEMMA CallsRight ==
  ASSUME NEW c \in AnyCall
  PROVE  /\ c.op \in {"none", "scan", "insert", "delete"}
         /\ c.op \in {"insert", "delete"} => c.entry \in [key : DOMAIN KeyLen, rid : Nat]
  BY CallsAssumption DEF AnyCall, Idle

(* A call begins.  Here deletes have to keep apart. *)
LEMMA CallStays ==
  ASSUME DeletesAlone, TreeInv, NEW t \in Thread, NEW c, Call(t, c)
  PROVE  TreeInv'
  <1> DEFINE place == IF c.op = "insert" /\ ~ Unique THEN "descend" ELSE "seek"
  <1>1. /\ at[t] = "idle" /\ <<t, made[t] + 1, c>> \in Calls /\ MayCall(c)
        /\ call' = [call EXCEPT ![t] = c] /\ at' = [at EXCEPT ![t] = place]
        /\ cursor' = [cursor EXCEPT ![t].position = LowerOf(c)]
        /\ UNCHANGED <<pages, held, latch, pending, stale>>
    BY DEF Call, Goes
  <1>2. Types /\ Doing(t)
    BY DEF TreeInv
  <1>3. c \in AnyCall
    <2> DEFINE triple == <<t, made[t] + 1, c>>
    <2>1. triple \in Calls /\ triple[3] = c
      BY <1>1
    <2> HIDE DEF triple
    <2>2. QED
      BY <2>1 DEF AnyCall
  <1>4. c.op \in {"scan", "insert", "delete"}
    <2> DEFINE triple == <<t, made[t] + 1, c>>
    <2>1. triple \in Calls /\ triple[3] = c
      BY <1>1
    <2> HIDE DEF triple
    <2>2. QED
      BY <2>1, CallsAssumption
  <1>5. place \in Places /\ place \in {"descend", "seek"} /\ (place = "descend" => c.op = "insert")
    BY DEF Places
  <1> HIDE DEF place
  <1>6. Moved(t, cursor[t].leaf, LowerOf(c))
    BY <1>1, <1>2, MovesRight
  <1>7. /\ cursor' = [u \in Thread |-> [leaf |-> cursor'[u].leaf, position |-> cursor'[u].position]]
        /\ \A u \in Thread \ {t} : cursor'[u] = cursor[u]
    BY <1>2, <1>6, MovedRight
  <1>8. Types'
    BY <1>1, <1>2, <1>3, <1>5, <1>7 DEF Types
  <1>9. \A u \in Thread \ {t} : Same(u)
    BY <1>1, <1>2, <1>7 DEF Types, Same
  <1>10. held[t] = <<>> /\ latch[t] = NoPage
    BY <1>1, <1>2 DEF Doing
  <1>11. at'[t] = place /\ call'[t] = c /\ held'[t] = <<>> /\ latch'[t] = NoPage
    BY <1>1, <1>2, <1>10 DEF Types
  <1>12. Doing(t)'
    BY <1>4, <1>5, <1>11 DEF Doing
  <1>13. Alone'
    <2>1. ASSUME NEW u \in Thread, u # t
          PROVE  /\ ~ (Writing(t, {"delete"})' /\ Writing(u, {"insert", "delete"})')
                 /\ ~ (Writing(u, {"delete"})' /\ Writing(t, {"insert", "delete"})')
      <3>1. /\ c.op = "delete" => ~ Writing(u, {"insert", "delete"})
            /\ c.op = "insert" => ~ Writing(u, {"delete"})
        BY <1>1 DEF MayCall
      <3>2. \A ops : Writing(u, ops)' = Writing(u, ops)
        BY <1>9, <2>1 DEF Same, Writing
      <3>3. \A ops : Writing(t, ops)' => c.op \in ops
        BY <1>11 DEF Writing
      <3>4. Writing(u, {"delete"}) => Writing(u, {"insert", "delete"})
        BY DEF Writing
      <3>5. QED
        BY <3>1, <3>2, <3>3, <3>4
    <2>2. ASSUME NEW u \in Thread, NEW v \in Thread, u # v, u # t, v # t
          PROVE  ~ (Writing(u, {"delete"})' /\ Writing(v, {"insert", "delete"})')
      BY <1>9, <2>2 DEF Same, Writing, TreeInv, Alone
    <2>3. QED
      BY <2>1, <2>2 DEF Alone
  <1>14. PICK h : Levels(h)
    BY DEF TreeInv, Ranked
  <1>15. Changed(Root, h, h)
    BY <1>1, <1>14, Unchanged
  <1>16. Coupled(h, t)'
    BY <1>5, <1>11 DEF Coupled
  <1>17. ToSet(held'[t]) = {}
    BY <1>11 DEF ToSet
  <1>18. QED
    BY <1>1, <1>8, <1>9, <1>11, <1>12, <1>13, <1>14, <1>15, <1>16, <1>17, ThreadStep

(* A key that is too long is refused. *)
LEMMA TooLargeStays ==
  ASSUME TreeInv, NEW t \in Thread, TooLarge(t)
  PROVE  TreeInv'
  <1>1. at[t] # "idle" /\ Returns(t, "too large") /\ pages' = pages
    BY DEF TooLarge
  <1>2. PICK h : Levels(h)
    BY DEF TreeInv, Ranked
  <1>3. Changed(Root, h, h)
    BY <1>1, <1>2, Unchanged
  <1>4. QED
    BY <1>1, <1>2, <1>3, ReturnStays

------------------------------------------------------------------------------
(* Writing.                                                                *)

(* Whoever may latch a page for writing is alone on it; so is whoever has. *)
LEMMA OnlyRight ==
  ASSUME TreeInv, NEW t \in Thread
  PROVE  /\ \A p : Writable(p) => Only(t, p)
         /\ \A p \in ToSet(held[t]) : Only(t, p)
  <1>1. \A p : Writable(p) => Only(t, p)
    BY DEF Writable, Readable, Only
  <1>2. ASSUME NEW p \in ToSet(held[t]) PROVE Only(t, p)
    <2>1. \A u \in Thread \ {t} : Apart(t, u)
      BY DEF TreeInv, Exclusive
    <2>2. QED
      BY <2>1 DEF Apart, Only
  <1>3. QED
    BY <1>1, <1>2

(* The last latch is the lowest, and the root the highest of all pages. *)
LEMMA LastLowest ==
  ASSUME TreeInv, NEW t \in Thread, NEW h, Levels(h), held[t] # <<>>
  PROVE  /\ DOMAIN held[t] = 1..Len(held[t]) /\ Len(held[t]) \in Nat /\ Len(held[t]) # 0
         /\ \A i \in DOMAIN held[t] : held[t][i] \in DOMAIN pages /\ h[held[t][i]] \in Nat
                                      /\ held[t][i] \in ToSet(held[t])
         /\ Last(held[t]) = held[t][Len(held[t])]
         /\ Last(held[t]) \in DOMAIN pages /\ pages[Last(held[t])].kind = "internal"
         /\ \A i \in DOMAIN held[t] : h[Last(held[t])] <= h[held[t][i]]
  <1>1. /\ DOMAIN held[t] = 1..Len(held[t]) /\ Len(held[t]) \in Nat /\ Len(held[t]) # 0
    BY DEF TreeInv, Types
  <1>2. Doing(t) /\ Coupled(h, t) /\ h \in [DOMAIN pages -> Nat]
    BY DEF TreeInv, Levels, Falls
  <1>3. \A i \in DOMAIN held[t] : held[t][i] \in DOMAIN pages /\ h[held[t][i]] \in Nat
                                  /\ pages[held[t][i]].kind = "internal"
                                  /\ held[t][i] \in ToSet(held[t])
    BY <1>2 DEF Doing, ToSet
  <1>4. Last(held[t]) = held[t][Len(held[t])] /\ Len(held[t]) \in DOMAIN held[t]
    BY <1>1 DEF Last
  <1>5. ASSUME NEW i \in DOMAIN held[t] PROVE h[Last(held[t])] <= h[held[t][i]]
    <2>1. CASE i = Len(held[t])
      BY <1>3, <1>4, <2>1
    <2>2. CASE i # Len(held[t])
      <3>1. i < Len(held[t])
        BY <1>1, <2>2
      <3>2. h[held[t][Len(held[t])]] < h[held[t][i]]
        BY <1>2, <1>4, <3>1 DEF Coupled
      <3>3. QED
        BY <1>3, <1>4, <3>2
    <2>3. QED
      BY <2>1, <2>2
  <1>6. QED
    BY <1>1, <1>3, <1>4, <1>5

(* A split is reported to the parent, or makes the tree grow.  What is held *)
(* above is the beginning of what was held.                                *)
LEMMA LiftStays ==
  ASSUME TreeInv, NEW t \in Thread, at[t] \in {"descend", "propagate"},
         NEW h, Levels(h), NEW p \in DOMAIN pages, Only(t, p),
         NEW result, Halved(result, p, h), NEW above, Lift(t, p, above, result),
         above = <<>> => p = Root,
         above # <<>> =>
            /\ above \in Seq(Nat) /\ Len(above) <= Len(held[t])
            /\ \A i \in DOMAIN above : above[i] = held[t][i]
            /\ h[p] < h[Last(above)]
  PROVE  TreeInv'
  <1>0. PICK n, g : n = Len(pages) + 1 /\ g = Beside(h, n, p)
    OBVIOUS
  <1>1. /\ Sound(result.pages) /\ Linked(result.pages) /\ Falls(result.pages, g)
        /\ DOMAIN result.pages = 1..n /\ Len(result.pages) = n
        /\ n \in Nat /\ n # NoPage /\ n # Root /\ n \notin DOMAIN pages
        /\ \A q \in DOMAIN pages : q \in 1..n /\ q # n /\ g[q] = h[q]
        /\ \A q \in DOMAIN pages : result.pages[q].kind = pages[q].kind
                                   /\ (q # p => result.pages[q] = pages[q])
        /\ g[n] = h[p]
        /\ result.split \in NodeEntry /\ result.split.child = n
    BY <1>0 DEF Halved
  <1>2. Types /\ Doing(t) /\ at[t] # "idle" /\ call[t].op = "insert" /\ latch[t] = NoPage
    BY DEF TreeInv, Doing
  <1>3. Writing(t, {"insert", "delete"})
    BY <1>2 DEF Writing
  <1>4. h \in [DOMAIN pages -> Nat] /\ Topped(h) /\ Root \in DOMAIN pages
    BY RootRight DEF Levels, Falls
  <1>5. g \in [1..n -> Nat] /\ n \in 1..n /\ \A q \in 1..n : q = n \/ q \in DOMAIN pages
    <2>1. DOMAIN pages = 1..Len(pages) /\ Len(pages) \in Nat
      BY <1>4, PageRight DEF TreeInv
    <2>2. \A q \in 1..n : q = n \/ q \in DOMAIN pages
      BY <1>0, <2>1
    <2>3. g \in [1..n -> Nat]
      BY <1>1 DEF Falls
    <2>4. n \in 1..n
      BY <1>0, <2>1
    <2>5. QED
      BY <2>2, <2>3, <2>4
  <1>6. \A q \in DOMAIN pages : h[q] <= h[Root]
    BY <1>4 DEF Topped
  <1>7. CASE above = <<>>
    <2> DEFINE f == Raised(g, n + 1)
    <2>1. p = Root /\ pages' = GrowNewRoot(result.pages, Root, result.split) /\ Returns(t, "inserted")
      BY <1>7 DEF Lift
    <2>2. \A q \in DOMAIN result.pages : g[q] <= g[Root]
      BY <1>1, <1>4, <1>5, <1>6, <2>1
    <2>3. result.split.child \in DOMAIN result.pages /\ result.split.child # Root
      BY <1>1, <1>5
    <2>4. /\ Sound(pages') /\ Linked(pages') /\ Falls(pages', f) /\ Topped(f)
          /\ DOMAIN pages' = 1..(n + 1) /\ \A q \in DOMAIN result.pages : q \in 1..(n + 1) /\ q # n + 1
          /\ \A q \in DOMAIN result.pages : q # Root => pages'[q] = result.pages[q] /\ f[q] = g[q]
          /\ f[Root] > g[Root]
      <3> DEFINE new == GrowNewRoot(result.pages, Root, result.split)
      <3>1. n + 1 = Len(result.pages) + 1
        BY <1>1
      <3>2. /\ Sound(new) /\ Linked(new) /\ Falls(new, Raised(g, n + 1)) /\ Topped(Raised(g, n + 1))
            /\ DOMAIN new = 1..(n + 1) /\ \A q \in DOMAIN result.pages : q \in 1..(n + 1) /\ q # n + 1
            /\ \A q \in DOMAIN result.pages :
                  q # Root => new[q] = result.pages[q] /\ Raised(g, n + 1)[q] = g[q]
            /\ Raised(g, n + 1)[Root] > g[Root]
        BY <1>1, <2>2, <2>3, <3>1, GrowRight, ZenonT(30)
      <3>3. pages' = new
        BY <2>1
      <3> HIDE DEF new
      <3>4. QED
        BY <3>2, <3>3
    <2> HIDE DEF f
    <2>5. Changed(Root, h, f)
      <3> SUFFICES ASSUME NEW q \in DOMAIN pages
                   PROVE  /\ q \in DOMAIN pages' /\ (q # Root => pages'[q] = pages[q])
                          /\ (q # Root => f[q] = h[q]) /\ f[q] >= h[q]
        BY <2>4 DEF Changed
      <3>1. q \in DOMAIN result.pages /\ q \in DOMAIN pages'
        BY <1>1, <2>4
      <3>2. q # Root => pages'[q] = pages[q] /\ f[q] = h[q]
        BY <1>1, <2>1, <2>4, <3>1
      <3>3. h[q] \in Nat /\ h[Root] \in Nat /\ g[Root] = h[Root]
        BY <1>1, <1>4
      <3>4. f[Root] \in Nat
        BY <1>1, <1>4, <2>4 DEF Falls
      <3>5. f[q] >= h[q]
        BY <2>4, <3>2, <3>3, <3>4
      <3>6. QED
        BY <3>1, <3>2, <3>5
    <2>6. QED
      BY <1>2, <1>3, <2>1, <2>5, ReturnStays
  <1>8. CASE above # <<>>
    <2>1. /\ pages' = result.pages
          /\ pending' = [pending EXCEPT ![t] = result.split] /\ held' = [held EXCEPT ![t] = above]
          /\ at' = [at EXCEPT ![t] = "propagate"] /\ UNCHANGED <<call, latch, cursor, stale>>
      BY <1>8 DEF Lift, Goes
    <2>2. /\ above \in Seq(Nat) /\ Len(above) \in Nat /\ Len(above) # 0 /\ DOMAIN above = 1..Len(above)
          /\ \A i \in DOMAIN above : i \in DOMAIN held[t] /\ above[i] = held[t][i]
          /\ 1 \in DOMAIN above /\ Len(above) \in DOMAIN above /\ Last(above) = above[Len(above)]
      <3>1. DOMAIN held[t] = 1..Len(held[t]) /\ Len(held[t]) \in Nat
        BY <1>2 DEF Types
      <3>2. QED
        BY <1>8, <3>1 DEF Last
    <2>3. held[t] # <<>>
      BY <2>2
    <2>4. \A i \in DOMAIN above : /\ above[i] \in DOMAIN pages /\ pages[above[i]].kind = "internal"
                                  /\ above[i] \in ToSet(held[t]) /\ h[above[i]] \in Nat
      BY <1>2, <1>4, <2>2 DEF Doing, ToSet
    <2>5. \A i, j \in DOMAIN above : i < j => h[above[j]] < h[above[i]]
      BY <2>2 DEF Levels, Coupled
    <2>6. h[p] < h[Last(above)] /\ Last(above) \in DOMAIN pages /\ h[p] \in Nat /\ h[Last(above)] \in Nat
      BY <1>4, <1>8, <2>2, <2>4
    <2>7. Topped(g)
      <3> SUFFICES ASSUME NEW q \in 1..n, q # Root PROVE g[q] < g[Root]
        BY <1>5 DEF Topped
      <3>1. g[Root] = h[Root] /\ h[Root] \in Nat /\ h[Last(above)] <= h[Root]
        BY <1>1, <1>4, <1>6, <2>6
      <3>2. CASE q = n
        BY <1>1, <2>6, <3>1, <3>2
      <3>3. CASE q # n
        BY <1>1, <1>4, <1>5, <3>1, <3>3 DEF Topped
      <3>4. QED
        BY <3>2, <3>3
    <2>8. Changed(p, h, g)
      BY <1>1, <1>4, <2>1, <2>7 DEF Changed
    <2>9. Types'
      BY <1>1, <1>2, <2>1, <2>2 DEF Types, Places
    <2>10. \A u \in Thread \ {t} : Same(u)
      BY <1>2, <2>1 DEF Types, Same
    <2>11. /\ at'[t] = "propagate" /\ held'[t] = above /\ pending'[t] = result.split
           /\ call'[t] = call[t] /\ latch'[t] = NoPage
      BY <1>2, <2>1 DEF Types
    <2>12. above[1] # p
      <3>1. h[Last(above)] <= h[above[1]]
        <4>1. CASE Len(above) = 1
          BY <2>2, <2>6, <4>1
        <4>2. CASE Len(above) # 1
          <5>1. 1 < Len(above)
            BY <2>2, <4>2
          <5>2. h[above[Len(above)]] < h[above[1]]
            BY <2>2, <2>5, <5>1
          <5>3. QED
            BY <2>2, <2>4, <5>2
        <4>3. QED
          BY <4>1, <4>2
      <3>2. h[above[1]] \in Nat
        BY <2>2, <2>4
      <3>3. QED
        BY <2>6, <3>1, <3>2
    <2>13. Doing(t)'
      <3>1. \A i \in DOMAIN above : above[i] \in DOMAIN pages' /\ pages'[above[i]].kind = "internal"
        BY <1>1, <2>1, <2>4
      <3>2. above[1] # Root => Roomy(pages'[above[1]])
        <4>1. pages'[above[1]] = pages[above[1]]
          BY <1>1, <2>1, <2>2, <2>4, <2>12
        <4>2. above[1] = held[t][1]
          BY <2>2
        <4>3. QED
          BY <1>2, <2>3, <4>1, <4>2 DEF Doing
      <3>3. pending'[t] # NoSplit
        BY <1>1, <2>11 DEF NoSplit
      <3>4. QED
        BY <1>2, <1>8, <2>11, <3>1, <3>2, <3>3 DEF Doing
    <2>14. Coupled(g, t)'
      <3>1. \A i, j \in DOMAIN above : i < j => g[above[j]] < g[above[i]]
        BY <1>1, <2>4, <2>5
      <3>2. n \in DOMAIN g /\ g[n] < g[Last(above)]
        BY <1>1, <1>5, <2>6
      <3>3. pending'[t].child \in DOMAIN g /\ g[pending'[t].child] < g[Last(held'[t])]
        BY <1>1, <2>11, <3>2
      <3>4. QED
        BY <2>11, <3>1, <3>3 DEF Coupled, Last
    <2>15. \A q \in ToSet(held'[t]) : q \in ToSet(held[t]) \/ Only(t, q)
      BY <2>4, <2>11 DEF ToSet
    <2>16. Alone'
      BY <1>2, <2>1, <2>10, AloneStays
    <2>17. pages' = pages \/ (Writing(t, {"insert", "delete"}) /\ Only(t, p))
      BY <1>3
    <2>18. ~ (latch'[t] # NoPage /\ latch'[t] # latch[t])
      BY <2>11
    <2>19. QED
      BY <2>8, <2>9, <2>10, <2>13, <2>14, <2>15, <2>16, <2>17, <2>18, ThreadStep
  <1>9. QED
    BY <1>7, <1>8

(* A write of entries in their page, with which the call returns. *)
LEMMA WriteStays ==
  ASSUME TreeInv, NEW t \in Thread, at[t] # "idle", call[t].op \in {"insert", "delete"},
         NEW h, Levels(h), NEW p \in DOMAIN pages, Only(t, p),
         NEW entries, Suits(pages[p].kind, h, h[p], entries),
         pages' = [pages EXCEPT ![p].entries = entries],
         NEW value, Returns(t, value)
  PROVE  TreeInv'
  <1>1. Sound(pages) /\ Linked(pages) /\ Falls(pages, h) /\ Topped(h)
    BY DEF TreeInv, Levels
  <1>2. PICK new : new = pages'
    OBVIOUS
  <1>3. new = Rewritten(pages, p, entries)
    BY <1>2 DEF Rewritten
  <1>4. /\ Sound(new) /\ Linked(new) /\ Falls(new, h)
        /\ DOMAIN new = DOMAIN pages
        /\ \A q \in DOMAIN pages : new[q].kind = pages[q].kind /\ (q # p => new[q] = pages[q])
    BY <1>1, <1>3, ReplaceRight
  <1>5. \A q \in DOMAIN pages : h[q] \in Nat /\ h[q] >= h[q]
    BY <1>1 DEF Falls
  <1>6. Changed(p, h, h)
    BY <1>1, <1>2, <1>4, <1>5 DEF Changed
  <1>7. Writing(t, {"insert", "delete"})
    BY DEF Writing
  <1>8. QED
    BY <1>6, <1>7, ReturnStays

(* One page down, with latches for writing. *)
LEMMA DescendStays ==
  ASSUME TreeInv, NEW t \in Thread, Descend(t)
  PROVE  TreeInv'
  <1> DEFINE entry == call[t].entry
             key == entry.key
             p == IF held[t] = <<>> THEN Root ELSE ChildFor(pages[Last(held[t])], Towards(key))
             above == IF IsSafe(pages[p], key) THEN <<>> ELSE held[t]
  <1>1. /\ at[t] = "descend" /\ KeyLen[key] <= MaxKeyLen /\ Writable(p)
        /\ IF IsLeaf(p)
           THEN InsertIntoLeaf(t, p, above)
           ELSE /\ held' = [held EXCEPT ![t] = Append(above, p)]
                /\ UNCHANGED <<pages, call, answer, got, made, at, latch, cursor, pending, stale>>
    BY DEF Descend
  <1>2. Types /\ Doing(t) /\ Sound(pages)
    BY DEF TreeInv
  <1>3. PICK h : Levels(h)
    BY DEF TreeInv, Ranked
  <1>4. call[t].op = "insert" /\ latch[t] = NoPage /\ at[t] # "idle"
    BY <1>1, <1>2 DEF Doing
  <1>5. entry \in LeafEntry /\ key \in ShortKeys /\ key \in DOMAIN KeyLen
    <2>1. call[t] \in AnyCall
      BY <1>2 DEF Types
    <2>2. entry \in [key : DOMAIN KeyLen, rid : Nat]
      BY <1>4, <2>1, CallsRight
    <2>3. QED
      BY <1>1, <2>2 DEF LeafEntry, ShortKeys
  <1>6. /\ p \in DOMAIN pages
        /\ held[t] = <<>> => p = Root
        /\ held[t] # <<>> => h[p] < h[Last(held[t])]
    <2>1. CASE held[t] = <<>>
      BY <2>1, RootRight
    <2>2. CASE held[t] # <<>>
      <3>1. Last(held[t]) \in DOMAIN pages /\ pages[Last(held[t])].kind = "internal"
        BY <1>3, <2>2, LastLowest
      <3>2. QED
        BY <1>3, <2>2, <3>1, DownRight
    <2>3. QED
      BY <2>1, <2>2
  <1>7. \/ above = <<>> /\ IsSafe(pages[p], key)
        \/ above = held[t] /\ ~ IsSafe(pages[p], key)
    <2> HIDE DEF entry, key, p
    <2>1. above = IF IsSafe(pages[p], key) THEN <<>> ELSE held[t]
      OBVIOUS
    <2> HIDE DEF above
    <2>2. CASE IsSafe(pages[p], key)
      BY <2>1, <2>2
    <2>3. CASE ~ IsSafe(pages[p], key)
      BY <2>1, <2>3
    <2>4. QED
      BY <2>2, <2>3
  <1> HIDE DEF entry, key, p, above
  <1>8. Only(t, p)
    BY <1>1, OnlyRight
  <1>9. CASE IsLeaf(p)
    <2> DEFINE old == pages[p].entries
               entries == InsertSorted(old, entry)
    <2>1. pages[p].kind = "leaf" /\ old \in Seq(LeafEntry) /\ RequiredLen("leaf", old) <= PayloadSize
      <3>1. pages[p].kind = "leaf"
        BY <1>9 DEF IsLeaf
      <3>2. pages[p] \in LeafPage
        BY <1>2, <1>6, <3>1, PageRight DEF NodePage
      <3>3. Fits("leaf", old)
        BY <1>2, <1>6, <3>1 DEF Sound
      <3>4. QED
        BY <3>1, <3>2, <3>3 DEF LeafPage, Fits
    <2>2. /\ entries \in Seq(LeafEntry) /\ RequiredLen("leaf", old) \in Nat
          /\ RequiredLen("leaf", entries) = RequiredLen("leaf", old) + EntrySize("leaf", entry)
      BY <1>5, <2>1, EntriesShort, InsertSortedRight
    <2>3. EntrySize("leaf", entry) \in Nat /\ EntrySize("leaf", entry) <= Largest
      BY <1>5, LargestRight DEF key
    <2>4. IF Fits("leaf", entries)
          THEN pages' = [pages EXCEPT ![p].entries = entries] /\ Returns(t, "inserted")
          ELSE Lift(t, p, above, SplitLeaf(p, entries))
      BY <1>1, <1>9 DEF InsertIntoLeaf, entry
    <2>5. CASE Fits("leaf", entries)
      <3>1. Suits(pages[p].kind, h, h[p], entries)
        BY <2>1, <2>2, <2>5 DEF Suits
      <3>2. pages' = [pages EXCEPT ![p].entries = entries] /\ Returns(t, "inserted")
        BY <2>4, <2>5
      <3> HIDE DEF entries
      <3>3. QED
        BY <1>3, <1>4, <1>6, <1>8, <3>1, <3>2, WriteStays
    <2>6. CASE ~ Fits("leaf", entries)
      <3>1. RequiredLen("leaf", entries) <= PayloadSize + Largest
        BY <2>1, <2>2, <2>3, LargestRight DEF Largest
      <3>2. Linked(pages) /\ Falls(pages, h)
        BY <1>3 DEF TreeInv, Levels
      <3>3. Halved(SplitLeaf(p, entries), p, h)
        BY <1>2, <1>6, <2>1, <2>2, <2>6, <3>1, <3>2, SplitLeafRight
      <3>4. ~ IsSafe(pages[p], key)
        <4> DEFINE probe == [key |-> key]
                   S == LeafEntry \cup {probe}
        <4>1. Sized(S) /\ old \in Seq(S) /\ probe \in S
          BY <1>5, <2>1, EntriesShort DEF Sized
        <4> HIDE DEF S
        <4>2. RequiredLen("leaf", InsertSorted(old, probe)) = RequiredLen("leaf", old) + EntrySize("leaf", probe)
          BY <4>1, InsertSortedRight
        <4>3. EntrySize("leaf", probe) = EntrySize("leaf", entry)
          BY DEF EntrySize, key
        <4>4. ~ Fits("leaf", InsertSorted(old, probe))
          BY <2>2, <2>6, <4>2, <4>3 DEF Fits
        <4>5. QED
          BY <2>1, <4>4 DEF IsSafe
      <3>5. above = held[t]
        BY <1>7, <3>4
      <3> DEFINE result == SplitLeaf(p, entries)
      <3>6. Halved(result, p, h) /\ Lift(t, p, above, result)
        BY <2>4, <2>6, <3>3
      <3>7. above = <<>> => p = Root
        BY <1>6, <3>5
      <3>8. above # <<>> =>
               /\ above \in Seq(Nat) /\ Len(above) <= Len(held[t])
               /\ \A i \in DOMAIN above : above[i] = held[t][i]
               /\ h[p] < h[Last(above)]
        <4>1. held[t] \in Seq(Nat)
          BY <1>2 DEF Types
        <4>2. Len(held[t]) <= Len(held[t])
          BY <4>1
        <4>3. QED
          BY <1>6, <3>5, <4>1, <4>2
      <3> HIDE DEF result
      <3>9. QED
        BY <1>1, <1>3, <1>6, <1>8, <3>6, <3>7, <3>8, LiftStays
    <2>7. QED
      BY <2>5, <2>6
  <1>10. CASE ~ IsLeaf(p)
    <2>1. /\ held' = [held EXCEPT ![t] = Append(above, p)]
          /\ UNCHANGED <<pages, call, at, latch, cursor, pending, stale>>
      BY <1>1, <1>10
    <2>2. pages[p].kind = "internal" /\ p \in Nat
      BY <1>2, <1>6, <1>10, PageRight DEF IsLeaf
    <2>3. held[t] \in Seq(Nat)
      BY <1>2 DEF Types
    <2>4. above \in Seq(Nat)
      <3>1. above = <<>> \/ above = held[t]
        BY <1>7
      <3>2. CASE above = <<>>
        BY <3>2
      <3>3. CASE above = held[t]
        BY <2>3, <3>3
      <3>4. QED
        BY <3>1, <3>2, <3>3
    <2> DEFINE new == Append(above, p)
    <2>5. /\ new \in Seq(Nat) /\ Len(new) = Len(above) + 1 /\ Len(above) \in Nat
          /\ DOMAIN new = 1..(Len(above) + 1) /\ DOMAIN above = 1..Len(above)
          /\ \A i \in 1..Len(above) : new[i] = above[i]
          /\ new[Len(above) + 1] = p /\ new # <<>>
      BY <2>2, <2>4
    <2> HIDE DEF new
    <2>6. /\ held'[t] = new /\ at'[t] = "descend" /\ call'[t] = call[t] /\ latch'[t] = NoPage
      BY <1>1, <1>2, <1>4, <2>1 DEF Types, new
    <2>7. Types'
      BY <1>2, <2>1, <2>5 DEF Types, new
    <2>8. \A u \in Thread \ {t} : Same(u)
      BY <1>2, <2>1 DEF Types, Same
    <2>9. \A i \in DOMAIN new : new[i] = p \/ (i \in DOMAIN held[t] /\ new[i] = held[t][i] /\ above = held[t])
      <3> SUFFICES ASSUME NEW i \in DOMAIN new, i # Len(above) + 1
                   PROVE  i \in DOMAIN held[t] /\ new[i] = held[t][i] /\ above = held[t]
        BY <2>5
      <3>1. i \in 1..Len(above) /\ above # <<>>
        BY <2>5
      <3>2. QED
        BY <1>7, <2>5, <3>1
    <2>10. Doing(t)'
      <3>1. \A i \in DOMAIN new : new[i] \in DOMAIN pages /\ pages[new[i]].kind = "internal"
        BY <1>2, <1>6, <2>2, <2>9 DEF Doing
      <3>2. new[1] # Root => Roomy(pages[new[1]])
        <4>1. CASE above = <<>>
          <5>1. new[1] = p
            BY <2>5, <4>1
          <5>2. p # Root => IsSafe(pages[p], key)
            BY <1>6, <1>7, <4>1
          <5>3. QED
            BY <2>2, <5>1, <5>2 DEF IsSafe, Roomy
        <4>2. CASE above # <<>>
          <5>1. above = held[t] /\ new[1] = held[t][1]
            BY <1>7, <2>5, <4>2
          <5>2. QED
            BY <1>2, <4>2, <5>1 DEF Doing
        <4>3. QED
          BY <4>1, <4>2
      <3>3. QED
        BY <1>4, <2>1, <2>5, <2>6, <3>1, <3>2 DEF Doing
    <2>11. Coupled(h, t)'
      <3> SUFFICES ASSUME NEW i \in DOMAIN new, NEW j \in DOMAIN new, i < j
                   PROVE  h[new[j]] < h[new[i]]
        BY <2>6 DEF Coupled
      <3>1. i \in 1..Len(above) /\ i \in Nat /\ above # <<>>
        BY <2>5
      <3>2. above = held[t] /\ i \in DOMAIN held[t] /\ new[i] = held[t][i]
        BY <1>7, <2>5, <3>1
      <3>3. /\ h[Last(held[t])] <= h[held[t][i]] /\ h[held[t][i]] \in Nat
            /\ Last(held[t]) \in DOMAIN pages
        BY <1>3, <3>1, <3>2, LastLowest
      <3>4. CASE j = Len(above) + 1
        <4>1. new[j] = p /\ h[p] < h[Last(held[t])]
          BY <1>6, <2>5, <3>1, <3>2, <3>4
        <4>2. h[p] \in Nat /\ h[Last(held[t])] \in Nat
          BY <1>3, <1>6, <3>3 DEF Levels, Falls
        <4>3. QED
          BY <3>2, <3>3, <4>1, <4>2
      <3>5. CASE j # Len(above) + 1
        <4>1. j \in 1..Len(above)
          BY <2>5, <3>5
        <4>2. j \in DOMAIN held[t] /\ new[j] = held[t][j]
          BY <2>5, <3>2, <4>1
        <4>3. Coupled(h, t)
          BY <1>3 DEF Levels
        <4>4. QED
          BY <3>2, <4>2, <4>3 DEF Coupled
      <3>6. QED
        BY <3>4, <3>5
    <2>12. \A q \in ToSet(held'[t]) : q \in ToSet(held[t]) \/ Only(t, q)
      BY <1>8, <2>6, <2>9 DEF ToSet
    <2>13. Changed(p, h, h)
      BY <1>3, <2>1, Unchanged
    <2>14. Alone'
      BY <1>4, <2>1, <2>8, AloneStays
    <2>15. pages' = pages /\ ~ (latch'[t] # NoPage /\ latch'[t] # latch[t])
      BY <2>1, <2>6
    <2>16. QED
      BY <1>3, <2>7, <2>8, <2>10, <2>11, <2>12, <2>13, <2>14, <2>15, ThreadStep
  <1>11. QED
    BY <1>9, <1>10

(* A sequence without its last element. *)
LEMMA FrontRight ==
  ASSUME NEW S, NEW s \in Seq(S), s # <<>>
  PROVE  /\ Front(s) \in Seq(S) /\ Len(Front(s)) = Len(s) - 1
         /\ \A i \in DOMAIN Front(s) : i \in DOMAIN s /\ i < Len(s) /\ Front(s)[i] = s[i]
  <1>1. Len(s) \in Nat /\ Len(s) # 0 /\ DOMAIN s = 1..Len(s)
    OBVIOUS
  <1> DEFINE m == Len(s) - 1
  <1>2. m \in Nat /\ m < Len(s)
    BY <1>1
  <1>3. Front(s) = SubSeq(s, 1, m)
    BY DEF Front
  <1>4. \A i \in 1..m : s[i] \in S /\ i \in DOMAIN s /\ i < Len(s)
    BY <1>1, <1>2
  <1> HIDE DEF m
  <1>5. /\ SubSeq(s, 1, m) \in Seq(S) /\ Len(SubSeq(s, 1, m)) = m
        /\ \A i \in 1..m : SubSeq(s, 1, m)[i] = s[i]
    BY <1>1, <1>2, <1>4, SubSeqProperties
  <1>6. QED
    BY <1>2, <1>3, <1>4, <1>5 DEF m

(* A separator goes to the parent, under its latch. *)
LEMMA PropagateStays ==
  ASSUME TreeInv, NEW t \in Thread, Propagate(t)
  PROVE  TreeInv'
  <1> DEFINE p == Last(held[t])
             split == pending[t]
             old == pages[p].entries
             entries == InsertSorted(old, split)
             above == Front(held[t])
             S == {e \in NodeEntry : e.child \in DOMAIN pages}
  <1>1. /\ at[t] = "propagate"
        /\ IF Fits("internal", entries)
           THEN pages' = [pages EXCEPT ![p].entries = entries] /\ Returns(t, "inserted")
           ELSE Lift(t, p, above, SplitInternal(p, entries))
    BY DEF Propagate
  <1>2. Types /\ Doing(t) /\ Sound(pages) /\ Linked(pages)
    BY DEF TreeInv
  <1>3. PICK h : Levels(h)
    BY DEF TreeInv, Ranked
  <1>4. /\ call[t].op = "insert" /\ at[t] # "idle" /\ held[t] # <<>>
        /\ split \in NodeEntry /\ split # NoSplit
    BY <1>1, <1>2 DEF Doing, Types
  <1>5. Falls(pages, h) /\ DOMAIN h = DOMAIN pages /\ Coupled(h, t)
    BY <1>3 DEF Levels, Falls
  <1>6. /\ held[t] \in Seq(Nat)
        /\ DOMAIN held[t] = 1..Len(held[t]) /\ Len(held[t]) \in Nat /\ Len(held[t]) # 0
        /\ \A i \in DOMAIN held[t] : h[held[t][i]] \in Nat /\ held[t][i] \in ToSet(held[t])
        /\ p = held[t][Len(held[t])]
        /\ p \in DOMAIN pages /\ pages[p].kind = "internal"
    BY <1>2, <1>3, <1>4, LastLowest DEF Types
  <1>7. split.child \in DOMAIN pages /\ h[split.child] < h[p]
    BY <1>1, <1>5 DEF Coupled
  <1>8. Only(t, p)
    <2>1. p \in ToSet(held[t])
      BY <1>6
    <2>2. QED
      BY <2>1, OnlyRight
  <1>9. above \in Seq(Nat) /\ Len(above) = Len(held[t]) - 1
        /\ \A i \in DOMAIN above : i \in DOMAIN held[t] /\ i < Len(held[t]) /\ above[i] = held[t][i]
    BY <1>4, <1>6, FrontRight
  <1> DEFINE Lower == {e \in NodeEntry : e.child \in DOMAIN h /\ h[e.child] < h[p]}
  <1>10. old \in Seq(NodeEntry) /\ old \in Seq(Lower) /\ Fits("internal", old)
    <2>1. pages[p] \in NodePage
      BY <1>2, <1>6, PageRight DEF LeafPage
    <2>2. old \in Seq(NodeEntry)
      BY <2>1 DEF NodePage
    <2>3. LeadsBelow(h, h[p], pages[p])
      BY <1>5, <1>6 DEF Falls
    <2>4. \A i \in DOMAIN old : old[i] \in Lower
      BY <1>6, <2>2, <2>3 DEF LeadsBelow
    <2>5. Fits("internal", old)
      BY <1>2, <1>6 DEF Sound
    <2> HIDE DEF old, Lower
    <2>6. QED
      BY <2>2, <2>4, <2>5
  <1>11. split \in Lower /\ Sized(Lower) /\ Sized(NodeEntry)
    <2>1. split \in Lower
      BY <1>4, <1>5, <1>7
    <2>2. QED
      BY <2>1, EntriesShort DEF Sized
  <1> HIDE DEF old, above
  <1>12. /\ entries \in Seq(Lower) /\ RequiredLen("internal", old) \in Nat
         /\ RequiredLen("internal", entries) = RequiredLen("internal", old) + EntrySize("internal", split)
    <2> HIDE DEF Lower, split
    <2>1. QED
      BY <1>10, <1>11, InsertSortedRight
  <1>13. /\ EntrySize("internal", split) \in Nat /\ EntrySize("internal", split) <= Largest
         /\ EntrySize("internal", split) <= 4 + MaxKeyLen + 8
    <2>1. split.key \in ShortKeys
      BY <1>4 DEF NodeEntry
    <2>2. KeyLen[split.key] \in Nat /\ KeyLen[split.key] <= MaxKeyLen
      BY <2>1, PayloadAssumption DEF ShortKeys
    <2>3. EntrySize("internal", split) = 4 + KeyLen[split.key] + 8
      BY DEF EntrySize
    <2>4. MaxKeyLen \in Int
      BY LargestRight
    <2> HIDE DEF split
    <2>5. QED
      BY <2>1, <2>2, <2>3, <2>4, LargestRight
  <1> HIDE DEF entries, split
  <1>14. /\ entries \in Seq(NodeEntry)
         /\ \A i \in DOMAIN entries : entries[i].child \in DOMAIN h /\ h[entries[i].child] < h[p]
    <2>1. \A i \in DOMAIN entries : entries[i] \in Lower
      BY <1>12
    <2>2. QED
      BY <1>12, <2>1
  <1>15. CASE Fits("internal", entries)
    <2>1. Suits(pages[p].kind, h, h[p], entries)
      BY <1>6, <1>14, <1>15 DEF Suits
    <2>2. pages' = [pages EXCEPT ![p].entries = entries] /\ Returns(t, "inserted")
      BY <1>1, <1>15
    <2> HIDE DEF p
    <2>3. QED
      BY <1>3, <1>4, <1>6, <1>8, <2>1, <2>2, WriteStays
  <1>16. CASE ~ Fits("internal", entries)
    <2>1. RequiredLen("internal", old) <= PayloadSize
      BY <1>10 DEF Fits
    <2>2. RequiredLen("internal", entries) <= PayloadSize + Largest
      BY <1>12, <1>13, <2>1, LargestRight DEF Largest
    <2> DEFINE result == SplitInternal(p, entries)
    <2>3. Halved(result, p, h)
      BY <1>2, <1>5, <1>6, <1>14, <1>16, <2>2, SplitInternalRight
    <2>4. Lift(t, p, above, result)
      BY <1>1, <1>16
    <2>5. ~ Roomy(pages[p])
      <3>1. ~ (RequiredLen("internal", entries) <= PayloadSize)
        BY <1>16 DEF Fits
      <3>2. MaxKeyLen \in Int /\ PayloadSize \in Nat
        BY LargestRight
      <3>3. ~ (RequiredLen("internal", old) + 4 + MaxKeyLen + 8 <= PayloadSize)
        BY <1>12, <1>13, <3>1, <3>2
      <3>4. QED
        BY <3>3 DEF Roomy, old
    <2>6. above = <<>> => p = Root
      <3> SUFFICES ASSUME above = <<>> PROVE p = Root
        OBVIOUS
      <3>1. Len(held[t]) = 1
        BY <1>6, <1>9
      <3>2. held[t][1] = p
        BY <1>6, <3>1
      <3>3. QED
        BY <1>2, <1>4, <2>5, <3>2 DEF Doing
    <2>7. above # <<>> =>
             /\ above \in Seq(Nat) /\ Len(above) <= Len(held[t])
             /\ \A i \in DOMAIN above : above[i] = held[t][i]
             /\ h[p] < h[Last(above)]
      <3> SUFFICES ASSUME above # <<>>
                   PROVE  Len(above) <= Len(held[t]) /\ h[p] < h[Last(above)]
        BY <1>9
      <3>1. Len(above) \in DOMAIN above /\ Last(above) = above[Len(above)] /\ Len(above) <= Len(held[t])
        BY <1>6, <1>9 DEF Last
      <3>2. /\ Len(above) \in DOMAIN held[t] /\ Len(above) < Len(held[t]) /\ Len(held[t]) \in DOMAIN held[t]
            /\ above[Len(above)] = held[t][Len(above)]
        <4>1. /\ Len(above) \in DOMAIN held[t] /\ Len(above) < Len(held[t])
              /\ above[Len(above)] = held[t][Len(above)]
          BY <1>9, <3>1
        <4>2. Len(held[t]) \in DOMAIN held[t]
          BY <1>6
        <4>3. QED
          BY <4>1, <4>2
      <3>3. h[held[t][Len(held[t])]] < h[held[t][Len(above)]]
        <4>1. \A i, j \in DOMAIN held[t] : i < j => h[held[t][j]] < h[held[t][i]]
          BY <1>5 DEF Coupled
        <4>2. QED
          BY <3>2, <4>1
      <3>4. h[p] < h[Last(above)]
        <4>1. p = held[t][Len(held[t])] /\ Last(above) = held[t][Len(above)]
          BY <1>6, <3>1, <3>2
        <4> HIDE DEF p
        <4>2. QED
          BY <3>3, <4>1
      <3>5. QED
        BY <3>1, <3>4
    <2> HIDE DEF result, p
    <2>8. QED
      BY <1>1, <1>3, <1>6, <1>8, <2>3, <2>4, <2>6, <2>7, LiftStays
  <1>17. QED
    BY <1>15, <1>16

(* delete writes the leaf as it has read it: it is still a leaf. *)
LEMMA EraseStays ==
  ASSUME TreeInv, NEW t \in Thread, Erase(t)
  PROVE  TreeInv'
  <1> DEFINE p == cursor[t].leaf
             entries == stale[t]
  <1>1. at[t] = "erase" /\ Writable(p)
    BY DEF Erase
  <1>2. Types /\ Doing(t)
    BY DEF TreeInv
  <1>3. /\ p \in DOMAIN pages /\ pages[p].kind = "leaf" /\ Fits("leaf", entries)
        /\ entries \in Seq(LeafEntry) /\ at[t] # "idle" /\ call[t].op = "delete"
    BY <1>1, <1>2 DEF Doing, Types
  <1>4. pages' = [pages EXCEPT ![p].entries = entries] /\ Returns(t, "deleted")
    BY <1>3 DEF Erase, IsLeaf
  <1>5. PICK h : Levels(h)
    BY DEF TreeInv, Ranked
  <1>6. Only(t, p)
    BY <1>1, OnlyRight
  <1> HIDE DEF p, entries
  <1>7. Suits(pages[p].kind, h, h[p], entries)
    BY <1>3 DEF Suits
  <1>8. QED
    BY <1>3, <1>4, <1>5, <1>6, <1>7, WriteStays

------------------------------------------------------------------------------
(* The invariant, and what follows from it.                                *)

(* Nothing happens. *)
LEMMA StutterStays == TreeInv /\ UNCHANGED vars => TreeInv'
  <1> SUFFICES ASSUME TreeInv, UNCHANGED vars PROVE TreeInv'
    OBVIOUS
  <1>1. /\ pages' = pages /\ call' = call /\ at' = at /\ held' = held /\ latch' = latch
        /\ cursor' = cursor /\ pending' = pending /\ stale' = stale
    BY DEF vars
  <1>2. Types' /\ Sound(pages)' /\ Linked(pages)'
    BY <1>1 DEF TreeInv, Types
  <1>3. \A t \in Thread : Doing(t)'
    BY <1>1 DEF TreeInv, Doing, Roomy
  <1>4. Exclusive' /\ Alone'
    BY <1>1 DEF TreeInv, Exclusive, Apart, Alone, Writing
  <1>5. Ranked'
    BY <1>1 DEF TreeInv, Ranked, Levels, Coupled
  <1>6. QED
    BY <1>2, <1>3, <1>4, <1>5 DEF TreeInv

(* Every step keeps the invariant, if deletes keep apart. *)
LEMMA TreeStays == DeletesAlone /\ TreeInv /\ [Next]_vars => TreeInv'
  <1> SUFFICES ASSUME DeletesAlone, TreeInv, [Next]_vars PROVE TreeInv'
    OBVIOUS
  <1>1. ASSUME NEW t \in Thread, Step(t) PROVE TreeInv'
    BY <1>1, SeekStays, WalkStays, RestartStays, NextStays,
       TooLargeStays, DescendStays, PropagateStays, EraseStays DEF Step
  <1>2. ASSUME NEW t \in Thread, NEW c, Call(t, c) PROVE TreeInv'
    BY <1>2, CallStays
  <1>3. CASE Finished \/ UNCHANGED vars
    BY <1>3, StutterStays DEF Finished
  <1>4. QED
    BY <1>1, <1>2, <1>3 DEF Next

(* Where deletes keep apart from other writers, pages are sound, linked and *)
(* ranked, and latches are coupled, at any time.                           *)
THEOREM TreeAlways == DeletesAlone => (Spec => []TreeInv)
  <1> SUFFICES ASSUME DeletesAlone PROVE Spec => []TreeInv
    OBVIOUS
  <1>1. DeletesAlone /\ TreeInv /\ [Next]_vars => TreeInv'
    BY TreeStays
  <1>2. TreeInv /\ [Next]_vars => TreeInv'
    BY <1>1
  <1>3. QED
    BY TreeInit, <1>2, PTL DEF Spec

\* How low a thread is in the tree.
Depth(h, t) ==
    IF held[t] # <<>> THEN h[Last(held[t])]
    ELSE IF latch[t] # NoPage THEN h[latch[t]] ELSE h[Root] + 1

(* What a thread holds gives it a depth. *)
LEMMA DepthRight ==
  ASSUME TreeInv, NEW h, Levels(h), NEW t \in Thread
  PROVE  Depth(h, t) \in Nat
  <1>1. h \in [DOMAIN pages -> Nat] /\ Root \in DOMAIN pages /\ Doing(t)
    BY RootRight DEF TreeInv, Levels, Falls
  <1>2. held[t] # <<>> => h[Last(held[t])] \in Nat
    BY <1>1, LastLowest
  <1>3. latch[t] # NoPage => h[latch[t]] \in Nat
    BY <1>1 DEF Doing
  <1>4. QED
    BY <1>1, <1>2, <1>3 DEF Depth

(* A thread wants a page that is lower than all it holds. *)
LEMMA WantsLower ==
  ASSUME TreeInv, NEW h, Levels(h), NEW t \in Thread, Wanted(t) \in DOMAIN pages
  PROVE  h[Wanted(t)] < Depth(h, t) /\ at[t] \notin {"idle", "propagate"}
  <1>1. /\ h \in [DOMAIN pages -> Nat] /\ Topped(h) /\ Root \in DOMAIN pages
        /\ Doing(t) /\ at[t] \in Places /\ NoPage \notin DOMAIN pages
    BY RootRight, PageRight DEF TreeInv, Levels, Falls, Types
  <1>2. \A q \in DOMAIN pages : h[q] < h[Root] + 1
    <2> SUFFICES ASSUME NEW q \in DOMAIN pages PROVE h[q] < h[Root] + 1
      OBVIOUS
    <2>1. q = Root \/ h[q] < h[Root]
      BY <1>1 DEF Topped
    <2>2. h[q] \in Nat /\ h[Root] \in Nat
      BY <1>1
    <2>3. QED
      BY <2>1, <2>2
  <1>3. at[t] \notin {"idle", "propagate"}
    BY <1>1 DEF Wanted
  <1>4. CASE held[t] = <<>> /\ latch[t] = NoPage
    BY <1>2, <1>3, <1>4 DEF Depth
  <1>5. CASE held[t] # <<>>
    <2>1. at[t] = "descend"
      BY <1>1, <1>3, <1>5 DEF Doing
    <2>2. Wanted(t) = ChildFor(pages[Last(held[t])], Towards(call[t].entry.key))
      BY <1>5, <2>1 DEF Wanted
    <2>3. Last(held[t]) \in DOMAIN pages /\ pages[Last(held[t])].kind = "internal"
      BY <1>5, LastLowest
    <2>4. h[Wanted(t)] < h[Last(held[t])]
      BY <2>2, <2>3, DownRight
    <2>5. QED
      BY <1>3, <1>5, <2>4 DEF Depth
  <1>6. CASE held[t] = <<>> /\ latch[t] # NoPage
    <2>1. at[t] = "seek" /\ latch[t] \in DOMAIN pages /\ pages[latch[t]].kind = "internal"
      BY <1>1, <1>6 DEF Doing
    <2>2. Wanted(t) = ChildFor(pages[latch[t]], cursor[t].position)
      BY <1>6, <2>1 DEF Wanted
    <2>3. h[Wanted(t)] < h[latch[t]]
      BY <2>1, <2>2, DownRight
    <2>4. QED
      BY <1>3, <1>6, <2>3 DEF Depth
  <1>7. QED
    BY <1>4, <1>5, <1>6

(* Whoever has the page that a thread waits for is lower in the tree. *)
LEMMA HoldersLower ==
  ASSUME TreeInv, NEW h, Levels(h), NEW t \in Thread, NEW u \in WaitsFor(t)
  PROVE  u \in Thread /\ Depth(h, u) < Depth(h, t)
  <1>1. u \in Thread /\ Doing(u) /\ Doing(t) /\ h \in [DOMAIN pages -> Nat] /\ NoPage \notin DOMAIN pages
    BY PageRight DEF WaitsFor, TreeInv, Levels, Falls
  <1>2. CASE Wanted(t) \in ToSet(held[u])
    <2>1. PICK i \in DOMAIN held[u] : held[u][i] = Wanted(t)
      BY <1>2 DEF ToSet
    <2>2. held[u] # <<>>
      BY <2>1
    <2>3. /\ Wanted(t) \in DOMAIN pages /\ h[Last(held[u])] <= h[Wanted(t)]
          /\ Last(held[u]) \in DOMAIN pages
      BY <1>1, <2>1, <2>2, LastLowest
    <2>4. Depth(h, u) = h[Last(held[u])]
      BY <2>2 DEF Depth
    <2>5. h[Wanted(t)] < Depth(h, t) /\ Depth(h, t) \in Nat
      BY <2>3, WantsLower, DepthRight
    <2>6. h[Wanted(t)] \in Nat /\ h[Last(held[u])] \in Nat
      BY <1>1, <2>3
    <2>7. QED
      BY <1>1, <2>3, <2>4, <2>5, <2>6
  <1>3. CASE at[t] \in {"descend", "erase"} /\ latch[u] = Wanted(t)
    <2>1. Wanted(t) \in DOMAIN pages
      <3>1. CASE at[t] = "erase"
        BY <1>1, <3>1 DEF Wanted, Doing
      <3>2. CASE at[t] = "descend" /\ held[t] = <<>>
        BY <3>2, RootRight DEF Wanted
      <3>3. CASE at[t] = "descend" /\ held[t] # <<>>
        <4>1. Last(held[t]) \in DOMAIN pages /\ pages[Last(held[t])].kind = "internal"
          BY <3>3, LastLowest
        <4>2. Wanted(t) = ChildFor(pages[Last(held[t])], Towards(call[t].entry.key))
          BY <3>3 DEF Wanted
        <4>3. QED
          BY <4>1, <4>2, DownRight
      <3>4. QED
        BY <1>3, <3>1, <3>2, <3>3
    <2>2. latch[u] # NoPage /\ held[u] = <<>>
      BY <1>1, <1>3, <2>1 DEF Doing
    <2>3. Depth(h, u) = h[Wanted(t)]
      BY <1>3, <2>2 DEF Depth
    <2>4. QED
      BY <1>1, <2>1, <2>3, WantsLower
  <1>4. QED
    BY <1>2, <1>3 DEF WaitsFor

(* Latches are taken downwards, so the lowest of those who wait waits for  *)
(* none of the others.                                                     *)
LEMMA LowestWaits == TreeInv => NoDeadlock
  <1> SUFFICES ASSUME TreeInv, NEW waiting \in SUBSET Thread, waiting # {}
               PROVE  \E t \in waiting : WaitsFor(t) \cap waiting = {}
    BY DEF NoDeadlock
  <1>1. PICK h : Levels(h)
    BY DEF TreeInv, Ranked
  <1> DEFINE depths == {Depth(h, t) : t \in waiting}
  <1>2. depths \in SUBSET Nat /\ depths # {}
    BY <1>1, DepthRight
  <1>3. Min(depths) \in depths /\ \A x \in depths : Min(depths) <= x
    <2> HIDE DEF depths
    <2>1. QED
      BY <1>2, MinRight
  <1>4. PICK t \in waiting : Depth(h, t) = Min(depths)
    BY <1>3
  <1>5. ASSUME NEW u \in WaitsFor(t) \cap waiting PROVE FALSE
    <2>1. Depth(h, u) < Depth(h, t)
      BY <1>1, <1>5, HoldersLower
    <2>2. Depth(h, t) <= Depth(h, u)
      BY <1>3, <1>4, <1>5
    <2>3. Depth(h, u) \in Nat /\ Depth(h, t) \in Nat
      BY <1>1, <1>5, DepthRight
    <2>4. QED
      BY <2>1, <2>2, <2>3
  <1>6. QED
    BY <1>5

(* The types and the exclusion of latches. *)
LEMMA TypesFollow == TreeInv => TypeOK
  <1> SUFFICES ASSUME TreeInv, NEW t \in Thread
      PROVE  /\ at[t] \in {"idle", "seek", "next", "walk", "descend", "propagate", "erase"}
             /\ ToSet(held[t]) \subseteq DOMAIN pages /\ latch[t] \in {NoPage} \cup DOMAIN pages
             /\ at[t] = "propagate" => held[t] # <<>> /\ pending[t] # NoSplit
             /\ at[t] = "idle" => held[t] = <<>> /\ latch[t] = NoPage
             /\ \A u \in Thread \ {t} : ToSet(held[t]) \cap (ToSet(held[u]) \cup {latch[u]}) = {}
    BY DEF TypeOK
  <1>1. Types /\ Doing(t) /\ Exclusive
    BY DEF TreeInv
  <1>2. at[t] \in {"idle", "seek", "next", "walk", "descend", "propagate", "erase"}
    BY <1>1 DEF Types, Places
  <1>3. ToSet(held[t]) \subseteq DOMAIN pages
    BY <1>1 DEF Doing, ToSet
  <1>4. latch[t] \in {NoPage} \cup DOMAIN pages
    BY <1>1 DEF Doing
  <1>5. /\ at[t] = "propagate" => held[t] # <<>> /\ pending[t] # NoSplit
        /\ at[t] = "idle" => held[t] = <<>> /\ latch[t] = NoPage
    BY <1>1 DEF Doing
  <1>6. \A u \in Thread \ {t} : ToSet(held[t]) \cap (ToSet(held[u]) \cup {latch[u]}) = {}
    BY <1>1 DEF Exclusive, Apart
  <1>7. QED
    BY <1>2, <1>3, <1>4, <1>5, <1>6

(* The tree's types hold at any time, and latches for writing exclude all  *)
(* others: lock coupling of insert, find_leaf and RangeScan.               *)
THEOREM TypesAlways == DeletesAlone => (Spec => []TypeOK)
  <1> SUFFICES ASSUME DeletesAlone PROVE Spec => []TypeOK
    OBVIOUS
  <1>1. Spec => []TreeInv
    BY TreeAlways
  <1>2. QED
    BY <1>1, TypesFollow, PTL

(* However long its keys are, no page ever holds more than its bytes: a    *)
(* split halves a page so that both fit, and a parent that is let go of has *)
(* room for one more separator (btree.rs, is_safe and capacity_split_point). *)
THEOREM PagesFitAlways == DeletesAlone => (Spec => []PagesFit)
  <1> SUFFICES ASSUME DeletesAlone PROVE Spec => []PagesFit
    OBVIOUS
  <1>1. TreeInv => PagesFit
    BY DEF TreeInv, Sound, PagesFit
  <1>2. Spec => []TreeInv
    BY TreeAlways
  <1>3. QED
    BY <1>1, <1>2, PTL

(* Any number of threads: whichever of them wait for latches, one does not *)
(* wait for the others, since all latches are taken downwards.             *)
THEOREM NeverDeadlocked == DeletesAlone => (Spec => []NoDeadlock)
  <1> SUFFICES ASSUME DeletesAlone PROVE Spec => []NoDeadlock
    OBVIOUS
  <1>1. Spec => []TreeInv
    BY TreeAlways
  <1>2. QED
    BY <1>1, LowestWaits, PTL

------------------------------------------------------------------------------
(* Sorted entries.                                                         *)

Keyed(S)  == \A e \in S : e.key \in Nat
Sorted(s) == \A i, j \in DOMAIN s : i < j => s[i].key < s[j].key

(* Keys are numbers. *)
LEMMA EntriesKeyed == Keyed(LeafEntry) /\ Keyed(NodeEntry)
  BY PayloadAssumption DEF Keyed, LeafEntry, NodeEntry, ShortKeys

(* A set of the first numbers is as large as the last of them. *)
LEMMA PrefixRight ==
  ASSUME NEW n \in Nat, NEW T \in SUBSET (1..n), \A i \in T : \A j \in 1..n : j < i => j \in T
  PROVE  T = 1..Cardinality(T) /\ Cardinality(T) \in 0..n
  <1>1. CASE T = {}
    <2>1. Cardinality(T) = 0
      BY <1>1, FS_EmptySet
    <2>2. QED
      BY <1>1, <2>1
  <1>2. CASE T # {}
    <2> DEFINE m == Max(T)
    <2>1. m \in T /\ \A x \in T : m >= x
      <3>1. T \in SUBSET (0..n)
        OBVIOUS
      <3>2. QED
        BY <1>2, <3>1, MaxRight
    <2> HIDE DEF m
    <2>2. m \in 1..n /\ T = 1..m
      <3>1. m \in 1..n
        BY <2>1
      <3>2. \A x \in T : x \in 1..m
        BY <2>1, <3>1
      <3>3. \A x \in 1..m : x \in T
        BY <2>1, <3>1
      <3>4. QED
        BY <3>1, <3>2, <3>3
    <2>3. Cardinality(1..m) = m
      BY <2>2, FS_Interval
    <2>4. QED
      BY <2>2, <2>3
  <1>3. QED
    BY <1>1, <1>2

(* A part of a sequence. *)
LEMMA PartRight ==
  ASSUME NEW S, NEW s \in Seq(S), NEW a \in 1..(Len(s) + 1), NEW b \in 0..Len(s)
  PROVE  LET part == SubSeq(s, a, b) IN
         /\ part \in Seq(S) /\ Len(part) = IF a <= b THEN b - a + 1 ELSE 0
         /\ \A i \in 1..Len(part) : i + a - 1 \in a..b /\ part[i] = s[i + a - 1]
  <1> DEFINE part == SubSeq(s, a, b)
             n == IF a <= b THEN b - a + 1 ELSE 0
  <1>1. a \in Int /\ b \in Int /\ Len(s) \in Nat /\ \A i \in a..b : s[i] \in S
    OBVIOUS
  <1>2. /\ part \in Seq(S) /\ Len(part) = n
        /\ \A i \in 1..(b - a + 1) : part[i] = s[a + i - 1]
    BY <1>1, SubSeqProperties
  <1> HIDE DEF part
  <1>3. ASSUME NEW i \in 1..n PROVE i + a - 1 \in a..b /\ part[i] = s[i + a - 1]
    <2>1. i \in 1..(b - a + 1) /\ i + a - 1 = a + i - 1 /\ i + a - 1 \in a..b
      BY <1>1
    <2>2. QED
      BY <1>2, <2>1
  <1>4. QED
    BY <1>2, <1>3 DEF part

(* The first m elements of a sequence, and those behind its first m. *)
LEMMA EndsRight ==
  ASSUME NEW S, NEW s \in Seq(S), NEW m \in 0..Len(s)
  PROVE  LET a == SubSeq(s, 1, m)
             b == SubSeq(s, m + 1, Len(s))
         IN  /\ a \in Seq(S) /\ Len(a) = m /\ \A i \in 1..m : a[i] = s[i]
             /\ b \in Seq(S) /\ Len(b) = Len(s) - m /\ \A i \in 1..(Len(s) - m) : b[i] = s[m + i]
  <1> DEFINE a == SubSeq(s, 1, m)
             b == SubSeq(s, m + 1, Len(s))
  <1>1. Len(s) \in Nat /\ m \in Nat /\ 1 \in 1..(Len(s) + 1) /\ m + 1 \in 1..(Len(s) + 1)
        /\ Len(s) \in 0..Len(s)
    OBVIOUS
  <1>2. /\ a \in Seq(S) /\ Len(a) = IF 1 <= m THEN m - 1 + 1 ELSE 0
        /\ \A i \in 1..Len(a) : a[i] = s[i + 1 - 1]
    BY <1>1, PartRight
  <1>3. /\ b \in Seq(S) /\ Len(b) = IF m + 1 <= Len(s) THEN Len(s) - (m + 1) + 1 ELSE 0
        /\ \A i \in 1..Len(b) : b[i] = s[i + (m + 1) - 1]
    BY <1>1, PartRight
  <1> HIDE DEF a, b
  <1>4. Len(a) = m /\ \A i \in 1..m : a[i] = s[i]
    <2>1. Len(a) = m /\ \A i \in 1..m : i + 1 - 1 = i
      BY <1>1, <1>2
    <2>2. QED
      BY <1>2, <2>1
  <1>5. Len(b) = Len(s) - m /\ \A i \in 1..(Len(s) - m) : b[i] = s[m + i]
    <2>1. Len(b) = Len(s) - m /\ \A i \in 1..(Len(s) - m) : i + (m + 1) - 1 = m + i
      BY <1>1, <1>3
    <2>2. QED
      BY <1>3, <2>1
  <1>6. QED
    BY <1>2, <1>3, <1>4, <1>5 DEF a, b

(* One sequence behind another. *)
LEMMA JoinedRight ==
  ASSUME NEW S, NEW s \in Seq(S), NEW t \in Seq(S)
  PROVE  /\ s \o t \in Seq(S) /\ Len(s \o t) = Len(s) + Len(t)
         /\ \A i \in 1..Len(s) : (s \o t)[i] = s[i]
         /\ \A i \in 1..Len(t) : (s \o t)[Len(s) + i] = t[i]
  OBVIOUS

\* r is s with e in the place behind the first m.
Placed(s, e, m, r) ==
    /\ m \in 0..Len(s) /\ Len(r) = Len(s) + 1
    /\ \A i \in 1..m : r[i] = s[i] /\ s[i].key < e.key
    /\ r[m + 1] = e
    /\ \A i \in (m + 1)..Len(s) : r[i + 1] = s[i] /\ e.key < s[i].key

(* insert puts an entry with a key that is not there where it belongs. *)
LEMMA InsertSortedPlaces ==
  ASSUME NEW S, Keyed(S), NEW s \in Seq(S), Sorted(s), NEW e \in S,
         \A i \in DOMAIN s : s[i].key # e.key
  PROVE  /\ InsertSorted(s, e) \in Seq(S)
         /\ \E m : Placed(s, e, m, InsertSorted(s, e))
  <1> DEFINE T == {i \in DOMAIN s : s[i].key <= e.key}
             m == Cardinality(T)
             a == SubSeq(s, 1, m)
             o == <<e>>
             b == SubSeq(s, m + 1, Len(s))
             r == InsertSorted(s, e)
  <1>1. /\ DOMAIN s = 1..Len(s) /\ Len(s) \in Nat
        /\ \A i \in 1..Len(s) : s[i] \in S /\ s[i].key \in Nat /\ s[i].key # e.key
        /\ e.key \in Nat
    BY DEF Keyed
  <1>2. T \in SUBSET (1..Len(s)) /\ \A i \in T : \A j \in 1..Len(s) : j < i => j \in T
    BY <1>1 DEF Sorted
  <1>3. T = 1..m /\ m \in 0..Len(s)
    <2> HIDE DEF T
    <2>1. QED
      BY <1>1, <1>2, PrefixRight
  <1>4. /\ \A i \in 1..m : s[i].key < e.key
        /\ \A i \in (m + 1)..Len(s) : e.key < s[i].key
    <2>1. ASSUME NEW i \in 1..m PROVE s[i].key < e.key
      <3>1. i \in T
        BY <1>3
      <3> HIDE DEF m
      <3>2. QED
        BY <1>1, <3>1
    <2>2. ASSUME NEW i \in (m + 1)..Len(s) PROVE e.key < s[i].key
      <3>1. i \in 1..Len(s) /\ i \notin 1..m
        BY <1>1, <1>3
      <3>2. i \notin T
        BY <1>3, <3>1
      <3> HIDE DEF m
      <3>3. QED
        BY <1>1, <3>1, <3>2
    <2>3. QED
      BY <2>1, <2>2
  <1>5. r = a \o o \o b
    <2>1. r = InsertAt(s, m + 1, e)
      BY DEF InsertSorted
    <2>2. (m + 1) - 1 = m
      BY <1>3
    <2> HIDE DEF m
    <2>3. QED
      BY <2>1, <2>2 DEF InsertAt
  <1> HIDE DEF T, m
  <1>6. /\ a \in Seq(S) /\ Len(a) = m /\ \A i \in 1..m : a[i] = s[i]
        /\ b \in Seq(S) /\ Len(b) = Len(s) - m /\ \A i \in 1..(Len(s) - m) : b[i] = s[m + i]
        /\ o \in Seq(S) /\ Len(o) = 1 /\ o[1] = e
    <2>1. /\ a \in Seq(S) /\ Len(a) = m /\ \A i \in 1..m : a[i] = s[i]
          /\ b \in Seq(S) /\ Len(b) = Len(s) - m /\ \A i \in 1..(Len(s) - m) : b[i] = s[m + i]
      BY <1>3, EndsRight
    <2>2. o \in Seq(S) /\ Len(o) = 1 /\ o[1] = e
      OBVIOUS
    <2>3. QED
      BY <2>1, <2>2
  <1> HIDE DEF a, b, o, r
  <1>7. /\ r \in Seq(S) /\ Len(r) = Len(s) + 1
        /\ \A i \in 1..m : r[i] = s[i]
        /\ r[m + 1] = e
        /\ \A i \in 1..(Len(s) - m) : r[m + 1 + i] = s[m + i]
    <2> DEFINE ao == a \o o
    <2>1. ao \in Seq(S) /\ Len(ao) = m + 1 /\ (\A i \in 1..m : ao[i] = s[i]) /\ ao[m + 1] = e
      <3>1. /\ ao \in Seq(S) /\ Len(ao) = Len(a) + Len(o)
            /\ \A i \in 1..Len(a) : ao[i] = a[i]
            /\ \A i \in 1..Len(o) : ao[Len(a) + i] = o[i]
        <4>1. a \in Seq(S) /\ o \in Seq(S)
          BY <1>6
        <4>2. QED
          BY <4>1, JoinedRight
      <3> HIDE DEF ao
      <3>2. 1 \in 1..Len(o) /\ m \in Nat /\ Len(ao) = m + 1
        BY <1>1, <1>3, <1>6, <3>1
      <3>3. ao[m + 1] = e
        BY <1>6, <3>1, <3>2
      <3>4. QED
        BY <1>6, <3>1, <3>2, <3>3
    <2>2. r = ao \o b
      BY <1>5
    <2> HIDE DEF ao
    <2>3. /\ r \in Seq(S) /\ Len(r) = Len(ao) + Len(b)
          /\ \A i \in 1..Len(ao) : r[i] = ao[i]
          /\ \A i \in 1..Len(b) : r[Len(ao) + i] = b[i]
      <3>1. ao \in Seq(S) /\ b \in Seq(S)
        BY <1>6, <2>1
      <3>2. QED
        BY <2>2, <3>1, JoinedRight
    <2>4. /\ Len(r) = Len(s) + 1 /\ m + 1 \in 1..(m + 1) /\ \A i \in 1..m : i \in 1..(m + 1)
      BY <1>1, <1>3, <1>6, <2>1, <2>3
    <2>5. QED
      BY <1>6, <2>1, <2>3, <2>4
  <1>8. \A i \in (m + 1)..Len(s) : r[i + 1] = s[i]
    <2> SUFFICES ASSUME NEW i \in (m + 1)..Len(s) PROVE r[i + 1] = s[i]
      OBVIOUS
    <2>1. PICK j \in 1..(Len(s) - m) : i = m + j
      <3>1. i - m \in 1..(Len(s) - m) /\ i = m + (i - m)
        BY <1>1, <1>3
      <3>2. QED
        BY <3>1
    <2>2. m + 1 + j = i + 1
      BY <1>1, <1>3, <2>1
    <2>4. r[m + 1 + j] = s[m + j]
      BY <1>7
    <2>3. QED
      BY <2>1, <2>2, <2>4
  <1>9. Placed(s, e, m, r)
    BY <1>3, <1>4, <1>7, <1>8 DEF Placed
  <1>10. QED
    BY <1>7, <1>9 DEF r

(* Where an entry is placed, the rest keeps its order. *)
LEMMA PlacedRight ==
  ASSUME NEW S, Keyed(S), NEW s \in Seq(S), Sorted(s), NEW e \in S, NEW m,
         NEW r \in Seq(S), Placed(s, e, m, r)
  PROVE  Sorted(r) /\ ToSet(r) = ToSet(s) \cup {e}
  <1>1. /\ DOMAIN s = 1..Len(s) /\ Len(s) \in Nat /\ DOMAIN r = 1..(Len(s) + 1) /\ m \in 0..Len(s)
        /\ Len(r) = Len(s) + 1
        /\ \A i \in 1..Len(s) : s[i].key \in Nat
        /\ e.key \in Nat
    BY DEF Keyed, Placed
  <1>2. /\ \A i \in 1..m : r[i] = s[i] /\ s[i].key < e.key
        /\ r[m + 1] = e
        /\ \A i \in (m + 1)..Len(s) : r[i + 1] = s[i] /\ e.key < s[i].key
    BY DEF Placed
  <1>3. ASSUME NEW i \in 1..(Len(s) + 1)
        PROVE  \/ i \in 1..m /\ r[i] = s[i] /\ s[i].key < e.key
               \/ i = m + 1
               \/ i - 1 \in (m + 1)..Len(s) /\ r[i] = s[i - 1] /\ e.key < s[i - 1].key
    <2>1. i \in 1..m \/ i = m + 1 \/ i - 1 \in (m + 1)..Len(s)
      BY <1>1
    <2>2. ASSUME i - 1 \in (m + 1)..Len(s) PROVE r[i] = s[i - 1] /\ e.key < s[i - 1].key
      <3>1. PICK j \in (m + 1)..Len(s) : j = i - 1
        BY <2>2
      <3>2. r[j + 1] = s[j] /\ e.key < s[j].key /\ j + 1 = i
        BY <1>1, <1>2, <3>1
      <3>3. QED
        BY <3>1, <3>2
    <2>3. QED
      BY <1>2, <2>1, <2>2
  <1>4. \A i \in 1..m : i \in 1..Len(s)
    BY <1>1
  <1>5. \A i : i - 1 \in (m + 1)..Len(s) => i - 1 \in 1..Len(s)
    BY <1>1
  <1>6. \A i, j \in 1..Len(s) : i < j => s[i].key < s[j].key
    BY <1>1 DEF Sorted
  <1>7. Sorted(r)
    <2> SUFFICES ASSUME NEW i \in 1..(Len(s) + 1), NEW j \in 1..(Len(s) + 1), i < j
                 PROVE  r[i].key < r[j].key
      BY <1>1 DEF Sorted
    <2>1. CASE i \in 1..m
      <3>1. r[i] = s[i] /\ s[i].key < e.key /\ i \in 1..Len(s)
        BY <1>2, <1>4, <2>1
      <3>2. CASE j \in 1..m
        BY <1>2, <1>4, <1>6, <3>1, <3>2
      <3>3. CASE j = m + 1
        BY <1>2, <3>1, <3>3
      <3>4. CASE j - 1 \in (m + 1)..Len(s) /\ r[j] = s[j - 1] /\ e.key < s[j - 1].key
        BY <1>1, <1>5, <3>1, <3>4
      <3>5. QED
        BY <1>3, <3>2, <3>3, <3>4
    <2>2. CASE i = m + 1
      <3>1. j - 1 \in (m + 1)..Len(s)
        BY <1>1, <2>2
      <3>2. r[j] = s[j - 1] /\ e.key < s[j - 1].key
        BY <1>1, <1>3, <3>1
      <3>3. QED
        BY <1>2, <2>2, <3>2
    <2>3. CASE i - 1 \in (m + 1)..Len(s) /\ r[i] = s[i - 1]
      <3>1. j - 1 \in (m + 1)..Len(s) /\ i - 1 < j - 1
        BY <1>1, <2>3
      <3>2. r[j] = s[j - 1]
        BY <1>1, <1>3, <3>1
      <3>3. QED
        BY <1>5, <1>6, <2>3, <3>1, <3>2
    <2>4. QED
      BY <1>3, <2>1, <2>2, <2>3
  <1>8. ToSet(r) \subseteq ToSet(s) \cup {e}
    <2> SUFFICES ASSUME NEW i \in 1..(Len(s) + 1) PROVE r[i] \in ToSet(s) \cup {e}
      BY <1>1 DEF ToSet
    <2>1. QED
      BY <1>1, <1>2, <1>3, <1>4, <1>5 DEF ToSet
  <1>9. ToSet(s) \cup {e} \subseteq ToSet(r)
    <2>1. e \in ToSet(r)
      BY <1>1, <1>2 DEF ToSet
    <2>2. ASSUME NEW i \in 1..Len(s) PROVE s[i] \in ToSet(r)
      <3>1. CASE i \in 1..m
        BY <1>1, <1>2, <3>1 DEF ToSet
      <3>2. CASE i \in (m + 1)..Len(s)
        <4>1. r[i + 1] = s[i] /\ i + 1 \in 1..(Len(s) + 1)
          BY <1>1, <1>2, <3>2
        <4>2. QED
          BY <1>1, <4>1 DEF ToSet
      <3>3. QED
        BY <1>1, <3>1, <3>2
    <2>3. QED
      BY <1>1, <2>1, <2>2 DEF ToSet
  <1>10. QED
    BY <1>7, <1>8, <1>9

(* Parts of sorted entries are sorted. *)
LEMMA PartSorted ==
  ASSUME NEW S, NEW s \in Seq(S), Sorted(s), NEW a \in 1..(Len(s) + 1), NEW b \in 0..Len(s)
  PROVE  LET part == SubSeq(s, a, b) IN
         /\ part \in Seq(S) /\ Sorted(part)
         /\ Len(part) = IF a <= b THEN b - a + 1 ELSE 0
         /\ \A i \in 1..Len(part) : i + a - 1 \in 1..Len(s) /\ part[i] = s[i + a - 1]
  <1> DEFINE part == SubSeq(s, a, b)
  <1>1. a \in Int /\ b \in Int /\ Len(s) \in Nat /\ DOMAIN s = 1..Len(s)
    OBVIOUS
  <1>2. /\ part \in Seq(S) /\ Len(part) = IF a <= b THEN b - a + 1 ELSE 0
        /\ \A i \in 1..Len(part) : i + a - 1 \in a..b /\ part[i] = s[i + a - 1]
    BY PartRight
  <1> HIDE DEF part
  <1>3. \A i \in 1..Len(part) : i + a - 1 \in 1..Len(s)
    BY <1>1, <1>2
  <1>4. DOMAIN part = 1..Len(part) /\ Len(part) \in Nat
    BY <1>2
  <1>5. Sorted(part)
    <2> SUFFICES ASSUME NEW i \in 1..Len(part), NEW j \in 1..Len(part), i < j
                 PROVE  part[i].key < part[j].key
      BY <1>4 DEF Sorted
    <2>1. i + a - 1 < j + a - 1
      BY <1>1, <1>4
    <2>2. QED
      BY <1>1, <1>2, <1>3, <2>1 DEF Sorted
  <1>6. QED
    BY <1>2, <1>3, <1>5 DEF part

(* Keys tell sorted entries apart. *)
LEMMA KeysApart ==
  ASSUME NEW S, Keyed(S), NEW s \in Seq(S), Sorted(s),
         NEW i \in DOMAIN s, NEW j \in DOMAIN s, s[i].key = s[j].key
  PROVE  i = j
  <1>1. i \in Nat /\ j \in Nat /\ s[i].key \in Nat
    BY DEF Keyed
  <1>2. ~ (i < j) /\ ~ (j < i)
    BY <1>1 DEF Sorted
  <1>3. QED
    BY <1>1, <1>2

(* delete takes out the one entry, and the rest keeps its order. *)
LEMMA RemoveFirstSorted ==
  ASSUME NEW S, Keyed(S), NEW s \in Seq(S), Sorted(s), NEW e, e \in ToSet(s)
  PROVE  /\ RemoveFirst(s, e) \in Seq(S) /\ Sorted(RemoveFirst(s, e))
         /\ ToSet(RemoveFirst(s, e)) = ToSet(s) \ {e}
  <1> DEFINE I == {i \in 1..Len(s) : s[i] = e}
             i == Min(I)
             r == RemoveFirst(s, e)
  <1>0. DOMAIN s = 1..Len(s) /\ Len(s) \in Nat
    OBVIOUS
  <1>1. I # {} /\ I \in SUBSET Nat
    BY DEF ToSet
  <1>2. r = RemoveAt(s, SelectInSeq(s, LAMBDA v : v = e))
    <2>1. \E j \in 1..Len(s) : s[j] = e
      BY <1>1
    <2>2. QED
      BY <2>1 DEF RemoveFirst
  <1>3. SelectInSeq(s, LAMBDA v : v = e) = i
    BY <1>1 DEF SelectInSeq
  <1>4. i \in 1..Len(s) /\ s[i] = e
    <2> HIDE DEF I
    <2>1. i \in I
      BY <1>1, MinRight
    <2>2. QED
      BY <2>1 DEF I
  <1> HIDE DEF I, i
  <1> DEFINE a == SubSeq(s, 1, i - 1)
             c == SubSeq(s, i + 1, Len(s))
  <1>5. r = a \o c
    BY <1>2, <1>3 DEF RemoveAt
  <1> HIDE DEF r
  <1>6. /\ a \in Seq(S) /\ Len(a) = i - 1 /\ \A j \in 1..(i - 1) : a[j] = s[j]
        /\ c \in Seq(S) /\ Len(c) = Len(s) - i /\ \A j \in 1..(Len(s) - i) : c[j] = s[i + j]
    <2>1. PICK m \in 0..Len(s) : m = i - 1
      BY <1>0, <1>4
    <2>5. a = SubSeq(s, 1, m)
      BY <2>1 DEF a
    <2> HIDE DEF a
    <2>2. a \in Seq(S) /\ Len(a) = m /\ \A j \in 1..m : a[j] = s[j]
      BY <2>5, EndsRight
    <2>3. c \in Seq(S) /\ Len(c) = Len(s) - i /\ \A j \in 1..(Len(s) - i) : c[j] = s[i + j]
      <3>1. i \in 0..Len(s)
        BY <1>0, <1>4
      <3>2. QED
        BY <3>1, EndsRight
    <2>4. QED
      BY <2>1, <2>2, <2>3
  <1> HIDE DEF a, c
  <1>7. /\ r \in Seq(S) /\ Len(r) = Len(s) - 1
        /\ \A j \in 1..(i - 1) : r[j] = s[j]
        /\ \A j \in i..(Len(s) - 1) : r[j] = s[j + 1]
    <2>1. /\ r \in Seq(S) /\ Len(r) = Len(a) + Len(c)
          /\ \A j \in 1..Len(a) : r[j] = a[j]
          /\ \A j \in 1..Len(c) : r[Len(a) + j] = c[j]
      <3>1. a \in Seq(S) /\ c \in Seq(S)
        BY <1>6
      <3>2. QED
        BY <1>5, <3>1, JoinedRight
    <2>2. Len(r) = Len(s) - 1
      BY <1>0, <1>4, <1>6, <2>1
    <2>3. \A j \in 1..(i - 1) : r[j] = s[j]
      BY <1>6, <2>1
    <2>4. ASSUME NEW j \in i..(Len(s) - 1) PROVE r[j] = s[j + 1]
      <3>1. PICK k \in 1..(Len(s) - i) : k = j - (i - 1)
        BY <1>0, <1>4
      <3>2. i + k = j + 1 /\ (i - 1) + k = j
        BY <1>0, <1>4, <3>1
      <3>3. r[(i - 1) + k] = c[k] /\ c[k] = s[i + k]
        BY <1>6, <2>1
      <3>4. QED
        BY <3>2, <3>3
    <2>5. QED
      BY <2>1, <2>2, <2>3, <2>4
  <1>8. DOMAIN r = 1..(Len(s) - 1)
    BY <1>0, <1>4, <1>7
  <1> DEFINE old(j) == IF j < i THEN j ELSE j + 1
  <1>9. ASSUME NEW j \in 1..(Len(s) - 1)
        PROVE  old(j) \in 1..Len(s) /\ old(j) # i /\ r[j] = s[old(j)]
    <2>1. CASE j < i
      BY <1>0, <1>4, <1>7, <2>1
    <2>2. CASE ~ (j < i)
      BY <1>0, <1>4, <1>7, <2>2
    <2>3. QED
      BY <2>1, <2>2
  <1>10. \A j, k \in 1..(Len(s) - 1) : j < k => old(j) < old(k)
    BY <1>0, <1>4
  <1>11. \A k \in 1..Len(s) : k # i => \E j \in 1..(Len(s) - 1) : old(j) = k
    <2> SUFFICES ASSUME NEW k \in 1..Len(s), k # i PROVE \E j \in 1..(Len(s) - 1) : old(j) = k
      OBVIOUS
    <2>1. CASE k < i
      <3>1. k \in 1..(Len(s) - 1) /\ old(k) = k
        BY <1>0, <1>4, <2>1
      <3>2. QED
        BY <3>1
    <2>2. CASE ~ (k < i)
      <3>1. k - 1 \in 1..(Len(s) - 1) /\ old(k - 1) = k
        BY <1>0, <1>4, <2>2
      <3>2. QED
        BY <3>1
    <2>3. QED
      BY <2>1, <2>2
  <1> HIDE DEF old
  <1>12. Sorted(r)
    BY <1>0, <1>8, <1>9, <1>10 DEF Sorted
  <1>13. \A k \in 1..Len(s) : s[k] = e => k = i
    BY <1>0, <1>4, KeysApart
  <1>14. ToSet(r) \subseteq ToSet(s) \ {e}
    BY <1>0, <1>8, <1>9, <1>13 DEF ToSet
  <1>15. ToSet(s) \ {e} \subseteq ToSet(r)
    <2> SUFFICES ASSUME NEW k \in 1..Len(s), s[k] # e PROVE s[k] \in ToSet(r)
      BY <1>0 DEF ToSet
    <2>1. k # i
      BY <1>4
    <2>2. PICK j \in 1..(Len(s) - 1) : old(j) = k
      BY <1>11, <2>1
    <2>3. QED
      BY <1>8, <1>9, <2>2 DEF ToSet
  <1>16. QED
    BY <1>7, <1>12, <1>14, <1>15 DEF r

------------------------------------------------------------------------------
(* Charts: the range of keys of every page, and its level.                 *)

Open == 0

Under(k, bound) == bound = Open \/ k < bound

Has(c, p, k) == c.lo[p] <= k /\ Under(k, c.hi[p])

Charted(D, c) == c.lo \in [D -> Nat] /\ c.hi \in [D -> Nat] /\ c.level \in [D -> Nat]

\* Pages on a level share no key.
Disjoint(D, c) ==
    \A p, q \in D : p # q /\ c.level[p] = c.level[q] =>
        c.lo[q] < c.lo[p] \/ (c.hi[p] # Open /\ c.hi[p] <= c.lo[q])

Areas(D, c) ==
    /\ Charted(D, c) /\ Disjoint(D, c)
    /\ \A p \in D : Under(c.lo[p], c.hi[p])

\* The root leads to all keys.
Rooted(D, c) ==
    /\ Root \in D /\ c.lo[Root] = 0 /\ c.hi[Root] = Open
    /\ \A p \in D : p # Root => c.level[p] < c.level[Root]

\* A leaf has the keys of its range, and the next leaf the keys behind them.
LeafDrawn(c, p, page) ==
    /\ c.level[p] = 0 /\ Sorted(page.entries)
    /\ \A i \in DOMAIN page.entries : Has(c, p, page.entries[i].key)
    /\ IF page.next = NoPage THEN c.hi[p] = Open
                             ELSE c.hi[p] # Open /\ c.hi[p] = c.lo[page.next]

\* What readers rely on: where the range of a child begins.
NodeDrawn(c, p, page) ==
    /\ Sorted(page.entries)
    /\ page.first \in DOMAIN c.lo
    /\ c.lo[page.first] = c.lo[p] /\ c.level[page.first] + 1 = c.level[p]
    /\ \A i \in DOMAIN page.entries :
          /\ page.entries[i].child \in DOMAIN c.lo
          /\ c.lo[page.entries[i].child] = page.entries[i].key
          /\ c.level[page.entries[i].child] + 1 = c.level[p]

Drawn(c, p, page) ==
    /\ page.kind = "leaf" => LeafDrawn(c, p, page)
    /\ page.kind = "internal" => NodeDrawn(c, p, page)

Kid(first, entries, i)  == IF i = 0 THEN first ELSE entries[i].child
Start(c, p, entries, i) == IF i = 0 THEN c.lo[p] ELSE entries[i].key
Stop(c, p, entries, i)  == IF i = Len(entries) THEN c.hi[p] ELSE entries[i + 1].key

\* What writers rely on: the children have the keys of the page.
Node(c, p, first, entries) ==
    /\ entries \in Seq(NodeEntry) /\ Sorted(entries)
    /\ \A i \in DOMAIN entries : c.lo[p] < entries[i].key /\ Under(entries[i].key, c.hi[p])
    /\ \A i \in 0..Len(entries) :
          LET q == Kid(first, entries, i) IN
          /\ q \in DOMAIN c.lo /\ c.level[q] + 1 = c.level[p]
          /\ c.lo[q] = Start(c, p, entries, i) /\ c.hi[q] = Stop(c, p, entries, i)

(* No two pages of a level have a key. *)
LEMMA OneHolder ==
  ASSUME NEW D, NEW c, Areas(D, c), NEW p \in D, NEW q \in D, c.level[p] = c.level[q],
         NEW k \in Nat, Has(c, p, k), Has(c, q, k)
  PROVE  p = q
  <1>1. c.lo[p] \in Nat /\ c.lo[q] \in Nat /\ c.hi[p] \in Nat /\ c.hi[q] \in Nat
    BY DEF Areas, Charted
  <1>2. /\ c.lo[p] <= k /\ (c.hi[p] = Open \/ k < c.hi[p])
        /\ c.lo[q] <= k /\ (c.hi[q] = Open \/ k < c.hi[q])
    BY DEF Has, Under
  <1>3. p # q => /\ c.lo[q] < c.lo[p] \/ (c.hi[p] # Open /\ c.hi[p] <= c.lo[q])
                 /\ c.lo[p] < c.lo[q] \/ (c.hi[q] # Open /\ c.hi[q] <= c.lo[p])
    BY DEF Areas, Disjoint
  <1>4. QED
    BY <1>1, <1>2, <1>3

(* The children of a page: the ranges of each begin behind the one before. *)
LEMMA KidsRight ==
  ASSUME NEW D, NEW c, Areas(D, c), NEW p \in D, NEW first, NEW entries, Node(c, p, first, entries),
         NEW i \in 0..Len(entries)
  PROVE  LET q == Kid(first, entries, i) IN
         /\ q \in D /\ c.level[q] + 1 = c.level[p] /\ q # p /\ Has(c, p, c.lo[q])
         /\ c.lo[q] = Start(c, p, entries, i) /\ c.hi[q] = Stop(c, p, entries, i)
         /\ \A j \in 0..Len(entries) : i < j => c.lo[q] < c.lo[Kid(first, entries, j)]
  <1> DEFINE q == Kid(first, entries, i)
  <1>1. /\ entries \in Seq(NodeEntry) /\ DOMAIN entries = 1..Len(entries) /\ Len(entries) \in Nat
        /\ \A j \in DOMAIN entries : entries[j].key \in Nat
    BY EntriesKeyed DEF Node, Keyed
  <1>2. /\ \A j \in 0..Len(entries) : c.lo[Kid(first, entries, j)] = Start(c, p, entries, j)
        /\ q \in DOMAIN c.lo /\ c.level[q] + 1 = c.level[p]
        /\ c.lo[q] = Start(c, p, entries, i) /\ c.hi[q] = Stop(c, p, entries, i)
    BY DEF Node
  <1>3. q \in D /\ c.lo[p] \in Nat /\ c.level[q] \in Nat /\ Under(c.lo[p], c.hi[p])
    BY <1>2 DEF Areas, Charted
  <1> HIDE DEF q
  <1>4. Has(c, p, c.lo[q])
    <2>1. CASE i = 0
      BY <1>2, <1>3, <2>1 DEF Has, Start
    <2>2. CASE i # 0
      <3>1. i \in DOMAIN entries
        BY <1>1, <2>2
      <3>2. c.lo[p] < entries[i].key /\ Under(entries[i].key, c.hi[p]) /\ entries[i].key \in Nat
        BY <1>1, <3>1 DEF Node
      <3>3. QED
        BY <1>2, <1>3, <2>2, <3>2 DEF Has, Start
    <2>3. QED
      BY <2>1, <2>2
  <1>5. ASSUME NEW j \in 0..Len(entries), i < j PROVE c.lo[q] < c.lo[Kid(first, entries, j)]
    <2>1. j \in DOMAIN entries /\ j # 0
      BY <1>1, <1>5
    <2>2. Start(c, p, entries, i) < entries[j].key
      <3>1. CASE i = 0
        BY <2>1, <3>1 DEF Node, Start
      <3>2. CASE i # 0
        <4>1. i \in DOMAIN entries
          BY <1>1, <3>2
        <4>2. entries[i].key < entries[j].key
          BY <1>5, <2>1, <4>1 DEF Node, Sorted
        <4>3. QED
          BY <3>2, <4>2 DEF Start
      <3>3. QED
        BY <3>1, <3>2
    <2>3. QED
      BY <1>2, <2>1, <2>2 DEF Start
  <1>6. q # p
    BY <1>2, <1>3
  <1>7. QED
    BY <1>2, <1>3, <1>4, <1>5, <1>6 DEF q

(* A page is the child of one. *)
LEMMA OneParent ==
  ASSUME NEW D, NEW c, Areas(D, c),
         NEW p \in D, NEW first, NEW entries, Node(c, p, first, entries), NEW i \in 0..Len(entries),
         NEW r \in D, NEW other, NEW others, Node(c, r, other, others), NEW j \in 0..Len(others),
         Kid(first, entries, i) = Kid(other, others, j)
  PROVE  p = r
  <1> DEFINE q == Kid(first, entries, i)
  <1>1. q \in D /\ c.level[q] + 1 = c.level[p] /\ Has(c, p, c.lo[q])
    BY KidsRight
  <1>2. q = Kid(other, others, j)
    OBVIOUS
  <1> HIDE DEF q
  <1>3. c.level[q] + 1 = c.level[r] /\ Has(c, r, c.lo[q])
    BY <1>2, KidsRight
  <1>4. c.lo[q] \in Nat
    BY <1>1 DEF Areas, Charted
  <1>5. QED
    BY <1>1, <1>3, <1>4, OneHolder

------------------------------------------------------------------------------
(* The way down.                                                           *)

Kinds    == {"unbounded", "included", "excluded", "after"}
Position == [kind : Kinds, key : Nat, rid : Nat]

(* Towards and From are positions. *)
LEMMA PositionsRight ==
  ASSUME NEW k \in Nat
  PROVE  Towards(k) \in Position /\ From(k) \in Position
  BY DEF Towards, From, Position, Kinds

(* ChildFor takes the child behind the last separator that is passed. *)
LEMMA ChildPlaced ==
  ASSUME NEW page, page.entries \in Seq(NodeEntry), Sorted(page.entries), NEW position \in Position
  PROVE  \E m \in 0..Len(page.entries) :
            /\ ChildFor(page, position) = Kid(page.first, page.entries, m)
            /\ m # 0 => m \in DOMAIN page.entries /\ Passed(page.entries[m].key, position)
            /\ m # Len(page.entries) =>
                  m + 1 \in DOMAIN page.entries /\ ~ Passed(page.entries[m + 1].key, position)
  <1> DEFINE s == page.entries
             T == {i \in DOMAIN s : Passed(s[i].key, position)}
             m == Cardinality(T)
  <1>1. DOMAIN s = 1..Len(s) /\ Len(s) \in Nat /\ \A i \in DOMAIN s : s[i].key \in Nat
    BY EntriesKeyed DEF Keyed
  <1>2. position.kind \in Kinds /\ position.key \in Nat
    BY DEF Position
  <1>3. ASSUME NEW a \in Nat, NEW b \in Nat, a < b, Passed(b, position) PROVE Passed(a, position)
    <2>1. CASE position.kind = "unbounded"
      BY <1>3, <2>1 DEF Passed
    <2>2. CASE position.kind \in {"included", "after"}
      <3>1. \A k : Passed(k, position) <=> k < position.key
        BY <2>2 DEF Passed
      <3>2. QED
        BY <1>2, <1>3, <3>1
    <2>3. CASE position.kind = "excluded"
      BY <1>2, <1>3, <2>3 DEF Passed
    <2>4. QED
      BY <1>2, <2>1, <2>2, <2>3 DEF Kinds
  <1>4. \A i \in T : \A j \in 1..Len(s) : j < i => j \in T
    <2> SUFFICES ASSUME NEW i \in T, NEW j \in 1..Len(s), j < i PROVE Passed(s[j].key, position)
      BY <1>1
    <2>1. s[j].key < s[i].key /\ Passed(s[i].key, position)
      BY <1>1 DEF Sorted
    <2>2. QED
      BY <1>1, <1>3, <2>1
  <1>5. T \in SUBSET (1..Len(s))
    BY <1>1
  <1>6. ChildFor(page, position) = Kid(page.first, s, m)
    BY DEF ChildFor, Kid
  <1>7. \A i \in 1..Len(s) : i \in T <=> Passed(s[i].key, position)
    BY <1>1
  <1> HIDE DEF T, s
  <1>8. T = 1..m /\ m \in 0..Len(s)
    BY <1>1, <1>4, <1>5, PrefixRight
  <1> HIDE DEF m
  <1>9. m # 0 => m \in DOMAIN s /\ Passed(s[m].key, position)
    BY <1>1, <1>7, <1>8
  <1>10. m # Len(s) => m + 1 \in DOMAIN s /\ ~ Passed(s[m + 1].key, position)
    <2> SUFFICES ASSUME m # Len(s) PROVE m + 1 \in DOMAIN s /\ ~ Passed(s[m + 1].key, position)
      OBVIOUS
    <2>1. m + 1 \in 1..Len(s) /\ m + 1 \notin T
      <3>1. PICK i \in 0..Len(s) : i = m
        BY <1>8
      <3>5. Len(s) \in Nat /\ i # Len(s)
        BY <1>1, <3>1
      <3>2. i + 1 \in 1..Len(s) /\ i + 1 \notin 1..i
        BY <3>5
      <3>3. T = 1..i /\ i + 1 = m + 1
        BY <1>8, <3>1
      <3>4. QED
        BY <3>2, <3>3
    <2>2. QED
      BY <1>1, <1>7, <2>1
  <1>11. QED
    BY <1>6, <1>8, <1>9, <1>10 DEF s

(* A separator that is passed is not behind what is looked for. *)
LEMMA PassedRight ==
  ASSUME NEW position \in Position, NEW a \in Nat, Passed(a, position),
         NEW f, f.key \in Nat, Qualifies(f, position)
  PROVE  a <= f.key
  <1>1. position.kind \in Kinds /\ position.key \in Nat
    BY DEF Position
  <1>2. CASE position.kind = "unbounded"
    BY <1>2 DEF Passed
  <1>3. CASE position.kind = "included"
    BY <1>1, <1>3 DEF Passed, Qualifies
  <1>4. CASE position.kind = "excluded"
    BY <1>1, <1>4 DEF Passed, Qualifies
  <1>5. CASE position.kind = "after"
    BY <1>1, <1>5 DEF Passed, Qualifies
  <1>6. QED
    BY <1>1, <1>2, <1>3, <1>4, <1>5 DEF Kinds

(* A reader comes out at or to the left of what it looks for. *)
LEMMA ReaderDown ==
  ASSUME NEW c, NEW p, NEW page, page.entries \in Seq(NodeEntry), NodeDrawn(c, p, page),
         NEW position \in Position
  PROVE  LET q == ChildFor(page, position) IN
         /\ q \in DOMAIN c.lo /\ c.level[q] + 1 = c.level[p]
         /\ \A f : f.key \in Nat /\ Qualifies(f, position) /\ c.lo[p] <= f.key => c.lo[q] <= f.key
         /\ position.kind = "unbounded" => c.lo[q] = c.lo[p]
  <1> DEFINE q == ChildFor(page, position)
  <1>1. PICK m \in 0..Len(page.entries) :
            /\ q = Kid(page.first, page.entries, m)
            /\ m # 0 => m \in DOMAIN page.entries /\ Passed(page.entries[m].key, position)
    BY ChildPlaced DEF NodeDrawn
  <1> HIDE DEF q
  <1>2. CASE m = 0
    <2>1. q = page.first
      BY <1>1, <1>2 DEF Kid
    <2>2. QED
      BY <2>1 DEF NodeDrawn, q
  <1>3. CASE m # 0
    <2>1. /\ m \in DOMAIN page.entries /\ q = page.entries[m].child
          /\ page.entries[m].key \in Nat /\ Passed(page.entries[m].key, position)
      BY <1>1, <1>3, EntriesKeyed DEF Kid, Keyed
    <2>2. q \in DOMAIN c.lo /\ c.lo[q] = page.entries[m].key /\ c.level[q] + 1 = c.level[p]
      BY <2>1 DEF NodeDrawn
    <2>3. \A f : f.key \in Nat /\ Qualifies(f, position) => c.lo[q] <= f.key
      BY <2>1, <2>2, PassedRight
    <2>4. position.kind # "unbounded"
      BY <2>1 DEF Passed
    <2>5. QED
      BY <2>2, <2>3, <2>4 DEF q
  <1>4. QED
    BY <1>2, <1>3

(* A writer stays with its key. *)
LEMMA WriterDown ==
  ASSUME NEW D, NEW c, Areas(D, c), NEW p \in D, NEW page,
         Node(c, p, page.first, page.entries), NEW k \in Nat, Has(c, p, k)
  PROVE  LET q == ChildFor(page, Towards(k)) IN
         /\ q \in D /\ c.level[q] + 1 = c.level[p] /\ Has(c, q, k)
         /\ \E i \in 0..Len(page.entries) : q = Kid(page.first, page.entries, i)
  <1> DEFINE q == ChildFor(page, Towards(k))
             s == page.entries
  <1>1. s \in Seq(NodeEntry) /\ Sorted(s) /\ DOMAIN s = 1..Len(s) /\ Len(s) \in Nat
    BY DEF Node
  <1>2. PICK m \in 0..Len(s) :
            /\ q = Kid(page.first, s, m)
            /\ m # 0 => m \in DOMAIN s /\ Passed(s[m].key, Towards(k))
            /\ m # Len(s) => m + 1 \in DOMAIN s /\ ~ Passed(s[m + 1].key, Towards(k))
    BY <1>1, ChildPlaced, PositionsRight
  <1>3. \A a \in Nat : Passed(a, Towards(k)) <=> a <= k
    BY DEF Passed, Towards
  <1>4. \A i \in DOMAIN s : s[i].key \in Nat
    BY <1>1, EntriesKeyed DEF Keyed
  <1> HIDE DEF q, s
  <1>5. q \in D /\ c.level[q] + 1 = c.level[p] /\ c.lo[q] = Start(c, p, s, m) /\ c.hi[q] = Stop(c, p, s, m)
    BY <1>2, KidsRight DEF s
  <1>6. Start(c, p, s, m) <= k
    BY <1>2, <1>3, <1>4 DEF Start, Has
  <1>7. Under(k, Stop(c, p, s, m))
    <2>1. CASE m = Len(s)
      BY <2>1 DEF Stop, Has
    <2>2. CASE m # Len(s)
      <3>1. m + 1 \in DOMAIN s /\ ~ (s[m + 1].key <= k) /\ s[m + 1].key \in Nat
        BY <1>2, <1>3, <1>4, <2>2
      <3>2. QED
        BY <2>2, <3>1 DEF Stop, Under
    <2>3. QED
      BY <2>1, <2>2
  <1>8. Has(c, q, k)
    BY <1>5, <1>6, <1>7 DEF Has
  <1>9. QED
    BY <1>2, <1>5, <1>8 DEF q, s


------------------------------------------------------------------------------
(* Charts of splits.                                                       *)

\* In d, p has given its keys from sep on to a new page n.
Parted(D, c, p, n, sep, d) ==
    /\ p \in D /\ n \notin D /\ sep \in Nat
    /\ Charted(D \cup {n}, d)
    /\ d.lo[n] = sep /\ d.hi[n] = c.hi[p] /\ d.level[n] = c.level[p] /\ d.hi[p] = sep
    /\ \A q \in D : d.lo[q] = c.lo[q] /\ d.level[q] = c.level[q] /\ (q # p => d.hi[q] = c.hi[q])

\* A key inside of the range of p.
Between(c, p, k) == c.lo[p] < k /\ Under(k, c.hi[p])

(* There is such a chart. *)
LEMMA PartedIs ==
  ASSUME NEW D, NEW c, Charted(D, c), NEW p \in D, NEW n, n \notin D, NEW sep \in Nat
  PROVE  \E d : Parted(D, c, p, n, sep, d)
  <1> DEFINE E == D \cup {n}
             lo == [q \in E |-> IF q = n THEN sep ELSE c.lo[q]]
             hi == [q \in E |-> IF q = n THEN c.hi[p] ELSE IF q = p THEN sep ELSE c.hi[q]]
             level == [q \in E |-> IF q = n THEN c.level[p] ELSE c.level[q]]
             d == [lo |-> lo, hi |-> hi, level |-> level]
  <1>1. lo \in [E -> Nat] /\ hi \in [E -> Nat] /\ level \in [E -> Nat]
    BY DEF Charted
  <1>2. lo[n] = sep /\ hi[n] = c.hi[p] /\ level[n] = c.level[p] /\ hi[p] = sep
    OBVIOUS
  <1>3. \A q \in D : lo[q] = c.lo[q] /\ level[q] = c.level[q] /\ (q # p => hi[q] = c.hi[q])
    OBVIOUS
  <1> HIDE DEF lo, hi, level
  <1>4. Parted(D, c, p, n, sep, d)
    BY <1>1, <1>2, <1>3 DEF Parted, Charted
  <1>5. QED
    BY <1>4

(* The halves of a range are apart from each other and from the rest. *)
LEMMA PartedAreas ==
  ASSUME NEW D, NEW c, Areas(D, c), NEW p, NEW n, NEW sep, NEW d,
         Parted(D, c, p, n, sep, d), Between(c, p, sep)
  PROVE  Areas(D \cup {n}, d) /\ (Rooted(D, c) /\ p # Root => Rooted(D \cup {n}, d))
  <1> USE DEF Parted
  <1>1. /\ \A q \in D : c.lo[q] \in Nat /\ c.hi[q] \in Nat /\ c.level[q] \in Nat
        /\ \A q \in D : Under(c.lo[q], c.hi[q])
    BY DEF Areas, Charted
  <1>2. c.lo[p] < sep /\ (c.hi[p] = Open \/ sep < c.hi[p]) /\ sep # Open
    BY <1>1 DEF Between, Under, Open
  <1>3. \A q \in D \cup {n} : Under(d.lo[q], d.hi[q])
    <2> SUFFICES ASSUME NEW q \in D \cup {n} PROVE Under(d.lo[q], d.hi[q])
      OBVIOUS
    <2>1. CASE q = n
      BY <1>2, <2>1 DEF Under
    <2>2. CASE q = p
      BY <1>2, <2>2 DEF Under
    <2>3. CASE q # n /\ q # p
      BY <1>1, <2>3
    <2>4. QED
      BY <2>1, <2>2, <2>3
  <1>4. ASSUME NEW a \in D, NEW b \in D, a # b, c.level[a] = c.level[b]
        PROVE  /\ c.lo[b] < c.lo[a] \/ (c.hi[a] # Open /\ c.hi[a] <= c.lo[b])
               /\ c.lo[a] < c.lo[b] \/ (c.hi[b] # Open /\ c.hi[b] <= c.lo[a])
    BY <1>4 DEF Areas, Disjoint
  <1>5. Disjoint(D \cup {n}, d)
    <2> SUFFICES ASSUME NEW a \in D \cup {n}, NEW b \in D \cup {n}, a # b, d.level[a] = d.level[b]
                 PROVE  d.lo[b] < d.lo[a] \/ (d.hi[a] # Open /\ d.hi[a] <= d.lo[b])
      BY DEF Disjoint
    <2>1. CASE a \in D /\ b \in D
      <3>1. c.level[a] = c.level[b]
        BY <2>1
      <3>2. CASE a = p
        <4>1. d.hi[a] = sep /\ d.lo[b] = c.lo[b] /\ d.lo[a] = c.lo[a]
          BY <2>1, <3>2
        <4>2. c.lo[b] < c.lo[p] \/ (c.hi[p] # Open /\ c.hi[p] <= c.lo[b])
          BY <1>4, <2>1, <3>1, <3>2
        <4>3. QED
          BY <1>1, <1>2, <2>1, <3>2, <4>1, <4>2
      <3>3. CASE a # p
        <4>1. d.hi[a] = c.hi[a] /\ d.lo[b] = c.lo[b] /\ d.lo[a] = c.lo[a]
          BY <2>1, <3>3
        <4>2. QED
          BY <1>4, <2>1, <3>1, <4>1
      <3>4. QED
        BY <3>2, <3>3
    <2>2. CASE a = n
      <3>1. b \in D /\ d.lo[a] = sep /\ d.hi[a] = c.hi[p] /\ d.lo[b] = c.lo[b] /\ c.level[b] = c.level[p]
        BY <2>2
      <3>2. CASE b = p
        BY <1>2, <3>1, <3>2
      <3>3. CASE b # p
        <4>1. c.lo[b] < c.lo[p] \/ (c.hi[p] # Open /\ c.hi[p] <= c.lo[b])
          BY <1>4, <3>1, <3>3
        <4>2. QED
          BY <1>1, <1>2, <3>1, <4>1
      <3>4. QED
        BY <3>2, <3>3
    <2>3. CASE b = n
      <3>1. a \in D /\ d.lo[b] = sep /\ d.lo[a] = c.lo[a] /\ c.level[a] = c.level[p]
        BY <2>3
      <3>2. CASE a = p
        <4>1. d.hi[a] = sep
          BY <3>2
        <4>2. QED
          BY <1>2, <3>1, <4>1
      <3>3. CASE a # p
        <4>1. d.hi[a] = c.hi[a]
          BY <3>1, <3>3
        <4>2. /\ c.lo[p] < c.lo[a] \/ (c.hi[a] # Open /\ c.hi[a] <= c.lo[p])
              /\ c.lo[a] < c.lo[p] \/ (c.hi[p] # Open /\ c.hi[p] <= c.lo[a])
          BY <1>4, <3>1, <3>3
        <4>3. QED
          BY <1>1, <1>2, <3>1, <4>1, <4>2
      <3>4. QED
        BY <3>2, <3>3
    <2>4. QED
      BY <2>1, <2>2, <2>3
  <1>6. ASSUME Rooted(D, c), p # Root PROVE Rooted(D \cup {n}, d)
    <2>1. Root # n
      BY <1>6 DEF Rooted
    <2>2. QED
      BY <1>6, <2>1 DEF Rooted
  <1>7. QED
    BY <1>3, <1>5, <1>6 DEF Areas

(* The leaves and pages beside it are drawn as before, wherever they are.  *)
LEMMA DrawnStays ==
  ASSUME NEW D, NEW c, Areas(D, c), NEW d,
         \A q \in D : q \in DOMAIN d.lo /\ d.lo[q] = c.lo[q],
         NEW q \in D, NEW p, d.lo[p] = c.lo[q], d.hi[p] = c.hi[q], d.level[p] = c.level[q],
         NEW page, Drawn(c, q, page), page.kind = "leaf" => page.next \in D \cup {NoPage},
         \A r \in D : c.level[r] + 1 = c.level[q] => d.level[r] = c.level[r]
  PROVE  Drawn(d, p, page)
  <1>1. DOMAIN c.lo = D
    BY DEF Areas, Charted
  <1>2. page.kind = "leaf" => LeafDrawn(d, p, page)
    <2> SUFFICES ASSUME page.kind = "leaf" PROVE LeafDrawn(d, p, page)
      OBVIOUS
    <2>1. LeafDrawn(c, q, page)
      BY DEF Drawn
    <2>2. page.next # NoPage => page.next \in D
      OBVIOUS
    <2>3. QED
      BY <2>1, <2>2 DEF LeafDrawn, Has
  <1>3. page.kind = "internal" => NodeDrawn(d, p, page)
    <2> SUFFICES ASSUME page.kind = "internal" PROVE NodeDrawn(d, p, page)
      OBVIOUS
    <2>1. NodeDrawn(c, q, page)
      BY DEF Drawn
    <2>2. QED
      BY <1>1, <2>1 DEF NodeDrawn
  <1>4. QED
    BY <1>2, <1>3 DEF Drawn

(* So are the ranges of the children of a page, when they are not split. *)
LEMMA NodeStays ==
  ASSUME NEW D, NEW c, Areas(D, c), NEW d,
         NEW q \in D, NEW first, NEW entries, Node(c, q, first, entries),
         \A i \in 0..Len(entries) :
            LET r == Kid(first, entries, i) IN
            r \in DOMAIN d.lo /\ d.lo[r] = c.lo[r] /\ d.hi[r] = c.hi[r] /\ d.level[r] = c.level[r],
         NEW p, d.level[p] = c.level[q], d.lo[p] = c.lo[q], d.hi[p] = c.hi[q]
  PROVE  Node(d, p, first, entries)
  <1>1. \A i : Start(d, p, entries, i) = Start(c, q, entries, i) /\ Stop(d, p, entries, i) = Stop(c, q, entries, i)
    BY DEF Start, Stop
  <1>2. QED
    BY <1>1 DEF Node

(* The parent of a page that has been split, with the separator in it. *)
LEMMA Fostered ==
  ASSUME NEW D, NEW c, Areas(D, c), NEW p, NEW n, NEW sep, NEW d, Parted(D, c, p, n, sep, d),
         Between(c, p, sep), [key |-> sep, child |-> n] \in NodeEntry,
         NEW q \in D, q # p, NEW first, NEW entries, Node(c, q, first, entries),
         NEW k \in 0..Len(entries), Kid(first, entries, k) = p
  PROVE  Node(d, q, first, InsertSorted(entries, [key |-> sep, child |-> n]))
  <1> DEFINE split == [key |-> sep, child |-> n]
             r == InsertSorted(entries, split)
             Q(i) == Kid(first, entries, i)
  <1>1. /\ entries \in Seq(NodeEntry) /\ Sorted(entries)
        /\ DOMAIN entries = 1..Len(entries) /\ Len(entries) \in Nat
        /\ \A i \in 1..Len(entries) : entries[i].key \in Nat
    BY EntriesKeyed DEF Node, Keyed
  <1>0. k \in Nat /\ Len(entries) \in Nat /\ k <= Len(entries)
    BY <1>1
  <1>2. /\ p \in D /\ n \notin D /\ sep \in Nat
        /\ \A i \in D : c.lo[i] \in Nat /\ c.hi[i] \in Nat /\ c.level[i] \in Nat
    BY DEF Parted, Areas, Charted
  <1>3. ASSUME NEW i \in 0..Len(entries)
        PROVE  /\ Q(i) \in D /\ c.level[Q(i)] + 1 = c.level[q] /\ (i # k => Q(i) # p)
               /\ c.lo[Q(i)] = Start(c, q, entries, i) /\ c.hi[Q(i)] = Stop(c, q, entries, i)
    <2>1. /\ Q(i) \in D /\ c.level[Q(i)] + 1 = c.level[q]
          /\ c.lo[Q(i)] = Start(c, q, entries, i) /\ c.hi[Q(i)] = Stop(c, q, entries, i)
          /\ \A j \in 0..Len(entries) : i < j => c.lo[Q(i)] < c.lo[Q(j)]
      BY KidsRight
    <2>2. \A j \in 0..Len(entries) : k < j => c.lo[p] < c.lo[Q(j)]
      BY KidsRight
    <2>3. i # k => i < k \/ k < i
      BY <1>1
    <2>4. c.lo[p] \in Nat
      BY <1>2
    <2>5. i # k => Q(i) # p
      <3>1. CASE i < k
        <4>1. c.lo[Q(i)] < c.lo[p]
          BY <2>1, <3>1
        <4> HIDE DEF Q
        <4>2. QED
          BY <2>4, <4>1
      <3>2. CASE k < i
        <4>1. c.lo[p] < c.lo[Q(i)]
          BY <2>2, <3>2
        <4> HIDE DEF Q
        <4>2. QED
          BY <2>4, <4>1
      <3>3. QED
        BY <2>3, <3>1, <3>2
    <2>6. QED
      BY <2>1, <2>5
  <1>4. c.lo[p] < sep /\ Under(sep, c.hi[p]) /\ c.lo[q] <= c.lo[p] /\ sep # Open
    <2>1. Has(c, q, c.lo[Kid(first, entries, k)])
      BY KidsRight
    <2>2. QED
      BY <1>2, <2>1 DEF Has, Between, Open
  <1>5. c.lo[p] = Start(c, q, entries, k) /\ c.hi[p] = Stop(c, q, entries, k)
    BY <1>3
  <1>6. \A i \in 1..Len(entries) : i <= k => entries[i].key < sep
    <2> SUFFICES ASSUME NEW i \in 1..Len(entries), i <= k PROVE entries[i].key < sep
      OBVIOUS
    <2>1. k \in 1..Len(entries) /\ k # 0
      BY <1>1
    <2>2. c.lo[p] = entries[k].key
      BY <1>5, <2>1 DEF Start
    <2>3. i = k \/ entries[i].key < entries[k].key
      BY <1>1, <2>1 DEF Sorted
    <2>4. entries[i].key \in Nat /\ entries[k].key \in Nat
      BY <1>1, <2>1
    <2>5. QED
      BY <1>2, <1>4, <2>2, <2>3, <2>4
  <1>7. k # Len(entries) => k + 1 \in 1..Len(entries) /\ sep < entries[k + 1].key
    <2> SUFFICES ASSUME k # Len(entries)
                 PROVE  k + 1 \in 1..Len(entries) /\ sep < entries[k + 1].key
      OBVIOUS
    <2>1. k + 1 \in 1..Len(entries)
      BY <1>0
    <2>2. c.hi[p] = entries[k + 1].key
      BY <1>5 DEF Stop
    <2>3. c.lo[q] < entries[k + 1].key /\ entries[k + 1].key \in Nat
      BY <1>1, <2>1 DEF Node
    <2>4. QED
      BY <1>2, <1>4, <2>1, <2>2, <2>3 DEF Under, Open
  <1>8. \A i \in 1..Len(entries) : k < i => sep < entries[i].key
    <2> SUFFICES ASSUME NEW i \in 1..Len(entries), k < i PROVE sep < entries[i].key
      OBVIOUS
    <2>1. k # Len(entries) /\ k + 1 <= i /\ i \in Nat
      BY <1>0
    <2>5. k + 1 \in DOMAIN entries /\ (i = k + 1 \/ k + 1 < i)
      <3>1. k + 1 \in DOMAIN entries
        BY <1>1, <1>7, <2>1
      <3>2. i = k + 1 \/ k + 1 < i
        BY <1>0, <2>1
      <3>3. QED
        BY <3>1, <3>2
    <2>2. i = k + 1 \/ entries[k + 1].key < entries[i].key
      BY <1>1, <2>5 DEF Sorted
    <2>3. entries[i].key \in Nat /\ entries[k + 1].key \in Nat /\ sep < entries[k + 1].key
      BY <1>1, <1>7, <2>1
    <2>4. QED
      BY <1>2, <2>2, <2>3
  <1>9. /\ r \in Seq(NodeEntry) /\ \E m : Placed(entries, split, m, r)
    <2>1. split \in NodeEntry /\ split.key = sep
      OBVIOUS
    <2>2. \A i \in DOMAIN entries : entries[i].key # split.key
      BY <1>1, <1>2, <1>6, <1>8, <2>1
    <2>3. Keyed(NodeEntry)
      BY EntriesKeyed
    <2> HIDE DEF split
    <2>4. QED
      BY <1>1, <2>1, <2>2, <2>3, InsertSortedPlaces
  <1>10. PICK m : Placed(entries, split, m, r)
    BY <1>9
  <1> HIDE DEF r
  <1>11. m = k
    <2>1. /\ m \in 0..Len(entries)
          /\ \A i \in 1..m : entries[i].key < sep
          /\ \A i \in (m + 1)..Len(entries) : sep < entries[i].key
      BY <1>10 DEF Placed
    <2>2. ~ (m < k)
      <3> SUFFICES ASSUME m < k PROVE FALSE
        OBVIOUS
      <3>1. k \in (m + 1)..Len(entries) /\ k \in 1..Len(entries)
        BY <1>1, <2>1
      <3>2. QED
        BY <1>1, <1>2, <1>6, <2>1, <3>1
    <2>3. ~ (k < m)
      <3> SUFFICES ASSUME k < m PROVE FALSE
        OBVIOUS
      <3>1. m \in 1..m /\ m \in 1..Len(entries)
        BY <1>1, <2>1
      <3>2. QED
        BY <1>1, <1>2, <1>8, <2>1, <3>1
    <2>4. QED
      BY <1>1, <2>1, <2>2, <2>3
  <1>12. /\ Len(r) = Len(entries) + 1
         /\ \A i \in 1..k : r[i] = entries[i]
         /\ r[k + 1] = split
         /\ \A i \in (k + 1)..Len(entries) : r[i + 1] = entries[i]
    BY <1>10, <1>11 DEF Placed
  <1>13. Sorted(r)
    <2>1. split \in NodeEntry /\ Keyed(NodeEntry)
      BY EntriesKeyed
    <2> HIDE DEF split
    <2>2. QED
      BY <1>1, <1>9, <1>10, <2>1, PlacedRight
  <1>14. ASSUME NEW i \in 1..(Len(entries) + 1)
         PROVE  \/ i \in 1..k /\ r[i] = entries[i]
                \/ i = k + 1
                \/ i - 1 \in (k + 1)..Len(entries) /\ r[i] = entries[i - 1]
    <2>1. i \in 1..k \/ i = k + 1 \/ i - 1 \in (k + 1)..Len(entries)
      BY <1>1
    <2>2. ASSUME i - 1 \in (k + 1)..Len(entries) PROVE r[i] = entries[i - 1]
      <3>1. PICK j \in (k + 1)..Len(entries) : j = i - 1
        BY <2>2
      <3>2. r[j + 1] = entries[j] /\ j + 1 = i
        BY <1>1, <1>12, <3>1
      <3>3. QED
        BY <3>1, <3>2
    <2>3. QED
      BY <1>12, <2>1, <2>2
  <1>15. /\ \A i \in D : d.lo[i] = c.lo[i] /\ d.level[i] = c.level[i] /\ (i # p => d.hi[i] = c.hi[i])
         /\ d.lo[n] = sep /\ d.hi[n] = c.hi[p] /\ d.level[n] = c.level[p] /\ d.hi[p] = sep
         /\ DOMAIN d.lo = D \cup {n}
    BY DEF Parted, Charted
  <1>16. ASSUME NEW i \in DOMAIN r PROVE d.lo[q] < r[i].key /\ Under(r[i].key, d.hi[q])
    <2>1. i \in 1..(Len(entries) + 1) /\ d.lo[q] = c.lo[q] /\ d.hi[q] = c.hi[q]
      BY <1>9, <1>12, <1>15
    <2>2. \A j \in DOMAIN entries : c.lo[q] < entries[j].key /\ Under(entries[j].key, c.hi[q])
      BY DEF Node
    <2>3. CASE i \in 1..k /\ r[i] = entries[i]
      <3>1. i \in DOMAIN entries
        BY <1>1, <2>3
      <3>2. QED
        BY <2>1, <2>2, <2>3, <3>1
    <2>4. CASE i - 1 \in (k + 1)..Len(entries) /\ r[i] = entries[i - 1]
      <3>1. i - 1 \in DOMAIN entries
        BY <1>1, <2>4
      <3>2. QED
        BY <2>1, <2>2, <2>4, <3>1
    <2>5. CASE i = k + 1
      <3>1. r[i].key = sep
        BY <1>12, <2>5
      <3>2. Under(sep, c.hi[q])
        <4>1. CASE k = Len(entries)
          BY <1>4, <1>5, <4>1 DEF Stop
        <4>2. CASE k # Len(entries)
          <5>1. Under(entries[k + 1].key, c.hi[q]) /\ sep < entries[k + 1].key /\ entries[k + 1].key \in Nat
            BY <1>1, <1>7, <2>2, <4>2
          <5>2. QED
            BY <1>2, <5>1 DEF Under
        <4>3. QED
          BY <4>1, <4>2
      <3>3. QED
        BY <1>2, <1>4, <2>1, <3>1, <3>2
    <2>6. QED
      BY <1>14, <2>1, <2>3, <2>4, <2>5
  <1>17. ASSUME NEW i \in 0..Len(r)
         PROVE  LET x == Kid(first, r, i) IN
                /\ x \in DOMAIN d.lo /\ d.level[x] + 1 = d.level[q]
                /\ d.lo[x] = Start(d, q, r, i) /\ d.hi[x] = Stop(d, q, r, i)
    <2> DEFINE x == Kid(first, r, i)
    <2>0. d.lo[q] = c.lo[q] /\ d.hi[q] = c.hi[q] /\ d.level[q] = c.level[q] /\ k \in Nat /\ i \in Nat
      BY <1>1, <1>15
    <2>1. CASE i \in 0..k
      <3>1. x = Q(i) /\ Start(d, q, r, i) = Start(c, q, entries, i) /\ i \in 0..Len(entries)
        <4>1. i \in 0..Len(entries) /\ (i = 0 \/ i \in 1..k)
          BY <1>1, <2>1
        <4>2. i # 0 => r[i] = entries[i]
          BY <1>12, <4>1
        <4>3. QED
          BY <2>0, <4>1, <4>2 DEF Kid, Start
      <3>2. x \in D /\ c.level[x] + 1 = c.level[q] /\ c.lo[x] = Start(c, q, entries, i)
            /\ (i # k => x # p /\ c.hi[x] = Stop(c, q, entries, i))
        BY <1>3, <3>1
      <3>3. d.hi[x] = Stop(d, q, r, i)
        <4>1. CASE i = k
          <5>1. x = p
            BY <3>1, <4>1
          <5>2. k # Len(r)
            BY <1>1, <1>12
          <5>3. Stop(d, q, r, i) = r[k + 1].key
            BY <4>1, <5>2 DEF Stop
          <5>4. QED
            BY <1>12, <1>15, <5>1, <5>3
        <4>2. CASE i # k
          <5>1. i # Len(r) /\ i # Len(entries) /\ i + 1 \in 1..k
            <6>1. Len(r) = Len(entries) + 1 /\ i \in Nat /\ i < k
              BY <1>0, <1>12, <2>0, <2>1, <4>2
            <6>2. QED
              BY <1>0, <6>1
          <5>2. r[i + 1] = entries[i + 1]
            BY <1>12, <5>1
          <5>3. Stop(d, q, r, i) = Stop(c, q, entries, i)
            BY <5>1, <5>2 DEF Stop
          <5>4. QED
            BY <1>15, <3>2, <4>2, <5>3
        <4>3. QED
          BY <4>1, <4>2
      <3> HIDE DEF x
      <3>4. QED
        BY <1>15, <2>0, <3>1, <3>2, <3>3 DEF x
    <2>2. CASE i = k + 1
      <3>1. i # 0 /\ x = n /\ r[i].key = sep
        BY <1>1, <1>12, <2>2 DEF Kid
      <3>2. Start(d, q, r, i) = sep
        BY <3>1 DEF Start
      <3>3. d.level[n] + 1 = d.level[q]
        <4>1. c.level[Q(k)] + 1 = c.level[q]
          BY <1>3
        <4>2. QED
          BY <1>15, <2>0, <4>1
      <3>4. Stop(d, q, r, i) = c.hi[p]
        <4>1. CASE k = Len(entries)
          <5>1. i = Len(r)
            BY <1>12, <2>2, <4>1
          <5>2. QED
            BY <1>5, <2>0, <4>1, <5>1 DEF Stop
        <4>2. CASE k # Len(entries)
          <5>1. i # Len(r) /\ k + 1 \in (k + 1)..Len(entries) /\ i + 1 = (k + 1) + 1
            <6>1. Len(r) = Len(entries) + 1
              BY <1>12
            <6>2. QED
              BY <1>0, <2>2, <4>2, <6>1
          <5>2. r[i + 1] = entries[k + 1]
            BY <1>12, <5>1
          <5>3. QED
            BY <1>5, <4>2, <5>1, <5>2 DEF Stop
        <4>3. QED
          BY <4>1, <4>2
      <3> HIDE DEF x
      <3>5. QED
        BY <1>15, <3>1, <3>2, <3>3, <3>4 DEF x
    <2>3. CASE i \notin 0..k /\ i # k + 1
      <3>1. i \in 1..(Len(entries) + 1) /\ i - 1 \in (k + 1)..Len(entries) /\ i # 0
        BY <1>1, <1>12, <2>0, <2>3
      <3>2. PICK j \in (k + 1)..Len(entries) : j = i - 1
        BY <3>1
      <3>3. j + 1 = i /\ j \in 0..Len(entries) /\ j # 0 /\ j # k /\ r[i] = entries[j]
        <4>1. j + 1 = i /\ j \in 0..Len(entries) /\ j # 0 /\ j # k
          BY <1>1, <2>0, <3>2
        <4>2. r[j + 1] = entries[j]
          BY <1>12
        <4>3. QED
          BY <4>1, <4>2
      <3>4. x = Q(j) /\ Start(d, q, r, i) = Start(c, q, entries, j)
        BY <3>1, <3>3 DEF Kid, Start
      <3>5. Stop(d, q, r, i) = Stop(c, q, entries, j)
        <4>1. CASE j = Len(entries)
          <5>1. i = Len(r)
            BY <1>12, <3>3, <4>1
          <5>2. QED
            BY <2>0, <4>1, <5>1 DEF Stop
        <4>2. CASE j # Len(entries)
          <5>1. i # Len(r) /\ j + 1 \in (k + 1)..Len(entries)
            <6>1. Len(r) = Len(entries) + 1 /\ j + 1 = i
              BY <1>12, <3>3
            <6>2. QED
              BY <1>0, <3>2, <4>2, <6>1
          <5>2. r[(j + 1) + 1] = entries[j + 1]
            BY <1>12, <5>1
          <5>3. QED
            BY <3>3, <4>2, <5>1, <5>2 DEF Stop
        <4>3. QED
          BY <4>1, <4>2
      <3>6. x \in D /\ c.level[x] + 1 = c.level[q] /\ c.lo[x] = Start(c, q, entries, j)
            /\ x # p /\ c.hi[x] = Stop(c, q, entries, j)
        BY <1>3, <3>3, <3>4
      <3> HIDE DEF x
      <3>7. QED
        BY <1>15, <2>0, <3>4, <3>5, <3>6 DEF x
    <2>4. QED
      BY <2>1, <2>2, <2>3
  <1>18. QED
    BY <1>9, <1>13, <1>16, <1>17 DEF Node, r

(* What writers rely on is what readers rely on. *)
LEMMA NodeIsDrawn ==
  ASSUME NEW c, NEW p, NEW page, Node(c, p, page.first, page.entries)
  PROVE  NodeDrawn(c, p, page)
  <1> DEFINE s == page.entries
  <1>1. DOMAIN s = 1..Len(s) /\ Len(s) \in Nat /\ Sorted(s)
    BY DEF Node
  <1>2. \A i \in 0..Len(s) : /\ Kid(page.first, s, i) \in DOMAIN c.lo
                             /\ c.level[Kid(page.first, s, i)] + 1 = c.level[p]
                             /\ c.lo[Kid(page.first, s, i)] = Start(c, p, s, i)
    BY DEF Node
  <1> HIDE DEF s
  <1>3. /\ page.first \in DOMAIN c.lo /\ c.level[page.first] + 1 = c.level[p]
        /\ c.lo[page.first] = c.lo[p]
    <2>1. 0 \in 0..Len(s) /\ Kid(page.first, s, 0) = page.first /\ Start(c, p, s, 0) = c.lo[p]
      BY <1>1 DEF Kid, Start
    <2>2. QED
      BY <1>2, <2>1
  <1>4. ASSUME NEW i \in DOMAIN s
        PROVE  /\ s[i].child \in DOMAIN c.lo /\ c.level[s[i].child] + 1 = c.level[p]
               /\ c.lo[s[i].child] = s[i].key
    <2>1. i \in 0..Len(s) /\ i # 0
      BY <1>1
    <2>2. Kid(page.first, s, i) = s[i].child /\ Start(c, p, s, i) = s[i].key
      BY <2>1 DEF Kid, Start
    <2>3. QED
      BY <1>2, <2>1, <2>2
  <1>5. QED
    BY <1>1, <1>3, <1>4 DEF NodeDrawn, s

(* The key in the middle of an internal page halves its range. *)
LEMMA NodeHalved ==
  ASSUME NEW D, NEW c, Areas(D, c), NEW p \in D, NEW first, NEW s, Node(c, p, first, s),
         NEW mid \in 1..Len(s), mid + 1 \in 1..Len(s)
  PROVE  /\ s[mid + 1].key \in Nat /\ Between(c, p, s[mid + 1].key)
         /\ \A n, d : Parted(D, c, p, n, s[mid + 1].key, d) =>
               /\ Node(d, p, first, SubSeq(s, 1, mid))
               /\ Node(d, n, s[mid + 1].child, SubSeq(s, mid + 2, Len(s)))
  <1> DEFINE up == s[mid + 1]
             m == mid + 1
             a == SubSeq(s, 1, mid)
             b == SubSeq(s, mid + 2, Len(s))
  <1>1. /\ s \in Seq(NodeEntry) /\ Sorted(s) /\ DOMAIN s = 1..Len(s)
        /\ \A i \in 1..Len(s) : s[i].key \in Nat
    BY EntriesKeyed DEF Node, Keyed
  <1>2. Len(s) \in Nat /\ mid \in Nat /\ mid # 0 /\ m \in Nat /\ m <= Len(s) /\ m = mid + 1
    BY <1>1
  <1>3. \A i \in 1..Len(s) : c.lo[p] < s[i].key /\ Under(s[i].key, c.hi[p])
    BY <1>1 DEF Node
  <1>4. up.key \in Nat /\ Between(c, p, up.key)
    BY <1>1, <1>3 DEF Between
  <1>5. /\ a \in Seq(NodeEntry) /\ Sorted(a) /\ Len(a) = mid /\ \A i \in 1..mid : a[i] = s[i]
    <2>1. 1 \in 1..(Len(s) + 1) /\ mid \in 0..Len(s) /\ 1 <= mid /\ mid - 1 + 1 = mid
      BY <1>2
    <2>2. /\ a \in Seq(NodeEntry) /\ Sorted(a)
          /\ Len(a) = IF 1 <= mid THEN mid - 1 + 1 ELSE 0
      BY <1>1, <2>1, PartSorted
    <2>3. \A i \in 1..mid : a[i] = s[i]
      BY <1>1, <2>1, EndsRight
    <2>4. QED
      BY <2>1, <2>2, <2>3
  <1>6. /\ b \in Seq(NodeEntry) /\ Sorted(b) /\ Len(b) = Len(s) - m
        /\ \A i \in 1..(Len(s) - m) : b[i] = s[m + i]
    <2>1. m + 1 \in 1..(Len(s) + 1) /\ m \in 0..Len(s) /\ Len(s) \in 0..Len(s) /\ m + 1 = mid + 2
      BY <1>2
    <2>2. b = SubSeq(s, m + 1, Len(s))
      BY <2>1
    <2> HIDE DEF m, b
    <2>3. b \in Seq(NodeEntry) /\ Sorted(b)
      BY <1>1, <2>1, <2>2, PartSorted
    <2>4. Len(b) = Len(s) - m /\ \A i \in 1..(Len(s) - m) : b[i] = s[m + i]
      BY <1>1, <2>1, <2>2, EndsRight
    <2>5. QED
      BY <2>3, <2>4
  <1> HIDE DEF a, b, m
  <1>7. ASSUME NEW n, NEW d, Parted(D, c, p, n, up.key, d)
        PROVE  Node(d, p, first, a) /\ Node(d, n, up.child, b)
    <2>1. /\ \A q \in D : d.lo[q] = c.lo[q] /\ d.level[q] = c.level[q] /\ (q # p => d.hi[q] = c.hi[q])
          /\ d.lo[n] = up.key /\ d.hi[n] = c.hi[p] /\ d.level[n] = c.level[p] /\ d.hi[p] = up.key
          /\ DOMAIN d.lo = D \cup {n}
      BY <1>7 DEF Parted, Charted
    <2>2. \A i \in 0..Len(s) :
             LET x == Kid(first, s, i) IN
             /\ x \in DOMAIN d.lo /\ d.level[x] + 1 = c.level[p]
             /\ d.lo[x] = Start(c, p, s, i) /\ d.hi[x] = Stop(c, p, s, i)
      <3> SUFFICES ASSUME NEW i \in 0..Len(s)
                   PROVE  LET x == Kid(first, s, i) IN
                          /\ x \in DOMAIN d.lo /\ d.level[x] + 1 = c.level[p]
                          /\ d.lo[x] = Start(c, p, s, i) /\ d.hi[x] = Stop(c, p, s, i)
        OBVIOUS
      <3> DEFINE x == Kid(first, s, i)
      <3>1. /\ x \in D /\ c.level[x] + 1 = c.level[p] /\ x # p
            /\ c.lo[x] = Start(c, p, s, i) /\ c.hi[x] = Stop(c, p, s, i)
        BY KidsRight
      <3> HIDE DEF x
      <3>2. QED
        BY <2>1, <3>1 DEF x
    <2>3. Node(d, p, first, a)
      <3>1. ASSUME NEW i \in DOMAIN a PROVE d.lo[p] < a[i].key /\ Under(a[i].key, d.hi[p])
        <4>1. i \in 1..mid /\ a[i] = s[i]
          BY <1>5
        <4>2. i \in 1..Len(s) /\ m \in 1..Len(s) /\ i < m
          BY <1>2, <4>1
        <4>3. s[i].key < up.key
          BY <1>1, <1>2, <4>2 DEF Sorted
        <4>4. QED
          BY <1>3, <2>1, <4>1, <4>2, <4>3 DEF Under
      <3>2. ASSUME NEW i \in 0..Len(a)
            PROVE  LET x == Kid(first, a, i) IN
                   /\ x \in DOMAIN d.lo /\ d.level[x] + 1 = d.level[p]
                   /\ d.lo[x] = Start(d, p, a, i) /\ d.hi[x] = Stop(d, p, a, i)
        <4>1. i \in 0..mid /\ i \in 0..Len(s) /\ i # Len(s) /\ (i # 0 => i \in 1..mid)
          BY <1>2, <1>5
        <4>2. i # 0 => a[i] = s[i]
          BY <1>5, <4>1
        <4>3. Kid(first, a, i) = Kid(first, s, i) /\ Start(d, p, a, i) = Start(c, p, s, i)
          BY <2>1, <4>2 DEF Kid, Start
        <4>4. Stop(c, p, s, i) = s[i + 1].key
          BY <4>1 DEF Stop
        <4>5. Stop(d, p, a, i) = s[i + 1].key
          <5>1. CASE i = mid
            BY <1>5, <2>1, <5>1 DEF Stop
          <5>2. CASE i # mid
            <6>1. i + 1 \in 1..mid
              BY <1>2, <4>1, <5>2
            <6>2. QED
              BY <1>5, <5>2, <6>1 DEF Stop
          <5>3. QED
            BY <5>1, <5>2
        <4>6. QED
          BY <2>1, <2>2, <4>1, <4>3, <4>4, <4>5
      <3>3. QED
        BY <1>5, <3>1, <3>2 DEF Node
    <2>4. Node(d, n, up.child, b)
      <3>1. ASSUME NEW i \in DOMAIN b PROVE d.lo[n] < b[i].key /\ Under(b[i].key, d.hi[n])
        <4>1. i \in 1..(Len(s) - m) /\ b[i] = s[m + i]
          BY <1>6
        <4>2. m + i \in 1..Len(s) /\ m \in 1..Len(s) /\ m < m + i
          BY <1>2, <4>1
        <4>3. up.key < s[m + i].key
          BY <1>1, <1>2, <4>2 DEF Sorted
        <4>4. QED
          BY <1>3, <2>1, <4>1, <4>2, <4>3
      <3>2. ASSUME NEW i \in 0..Len(b)
            PROVE  LET x == Kid(up.child, b, i) IN
                   /\ x \in DOMAIN d.lo /\ d.level[x] + 1 = d.level[n]
                   /\ d.lo[x] = Start(d, n, b, i) /\ d.hi[x] = Stop(d, n, b, i)
        <4>0. i \in 0..(Len(s) - m) /\ Len(b) = Len(s) - m
          BY <1>6
        <4>1. m + i \in 0..Len(s) /\ m + i # 0 /\ (i # 0 => i \in 1..(Len(s) - m)) /\ m + 0 = m
          BY <1>2, <4>0
        <4>2. i # 0 => b[i] = s[m + i]
          BY <1>6, <4>1
        <4>3. Kid(up.child, b, i) = Kid(first, s, m + i) /\ Start(d, n, b, i) = Start(c, p, s, m + i)
          BY <1>2, <2>1, <4>1, <4>2 DEF Kid, Start
        <4>4. Stop(d, n, b, i) = Stop(c, p, s, m + i)
          <5>1. CASE i = Len(s) - m
            <6>1. m + i = Len(s)
              BY <1>2, <5>1
            <6>2. QED
              BY <2>1, <4>0, <5>1, <6>1 DEF Stop
          <5>2. CASE i # Len(s) - m
            <6>1. m + i # Len(s) /\ i + 1 \in 1..(Len(s) - m) /\ m + (i + 1) = m + i + 1
              BY <1>2, <4>0, <5>2
            <6>2. b[i + 1] = s[m + i + 1]
              BY <1>6, <6>1
            <6>3. QED
              BY <4>0, <5>2, <6>1, <6>2 DEF Stop
          <5>3. QED
            BY <5>1, <5>2
        <4>5. QED
          BY <2>1, <2>2, <4>1, <4>3, <4>4
      <3>3. QED
        BY <1>6, <3>1, <3>2 DEF Node
    <2>5. QED
      BY <2>3, <2>4
  <1>8. QED
    BY <1>4, <1>7 DEF a, b

(* So does a key of a leaf, and the links lead through both halves. *)
LEMMA LeafHalved ==
  ASSUME NEW D, NEW c, Areas(D, c), NEW p \in D, NEW s \in Seq(LeafEntry), NEW next,
         next \in D \cup {NoPage}, LeafDrawn(c, p, Leaf(s, next)),
         NEW mid \in 1..Len(s), mid + 1 \in 1..Len(s)
  PROVE  /\ s[mid + 1].key \in Nat /\ Between(c, p, s[mid + 1].key)
         /\ \A n, d : Parted(D, c, p, n, s[mid + 1].key, d) /\ n # NoPage =>
               /\ LeafDrawn(d, p, Leaf(SubSeq(s, 1, mid), n))
               /\ LeafDrawn(d, n, Leaf(SubSeq(s, mid + 1, Len(s)), next))
  <1> DEFINE up == s[mid + 1]
             a == SubSeq(s, 1, mid)
             b == SubSeq(s, mid + 1, Len(s))
  <1>1. /\ Sorted(s) /\ DOMAIN s = 1..Len(s) /\ \A i \in 1..Len(s) : s[i].key \in Nat
        /\ \A i \in 1..Len(s) : Has(c, p, s[i].key)
        /\ c.level[p] = 0
        /\ IF next = NoPage THEN c.hi[p] = Open ELSE c.hi[p] # Open /\ c.hi[p] = c.lo[next]
    BY EntriesKeyed DEF LeafDrawn, Leaf, Keyed
  <1>2. Len(s) \in Nat /\ mid \in Nat /\ mid # 0 /\ mid + 1 <= Len(s)
    OBVIOUS
  <1>3. /\ a \in Seq(LeafEntry) /\ Sorted(a) /\ Len(a) = mid /\ \A i \in 1..mid : a[i] = s[i]
    <2>1. 1 \in 1..(Len(s) + 1) /\ mid \in 0..Len(s) /\ 1 <= mid /\ mid - 1 + 1 = mid
      BY <1>2
    <2>2. /\ a \in Seq(LeafEntry) /\ Sorted(a)
          /\ Len(a) = IF 1 <= mid THEN mid - 1 + 1 ELSE 0
      BY <1>1, <2>1, PartSorted
    <2>3. \A i \in 1..mid : a[i] = s[i]
      BY <1>1, <2>1, EndsRight
    <2>4. QED
      BY <2>1, <2>2, <2>3
  <1>4. /\ b \in Seq(LeafEntry) /\ Sorted(b) /\ Len(b) = Len(s) - mid
        /\ \A i \in 1..(Len(s) - mid) : b[i] = s[mid + i]
    <2>1. mid + 1 \in 1..(Len(s) + 1) /\ mid \in 0..Len(s) /\ Len(s) \in 0..Len(s)
      BY <1>2
    <2>3. b \in Seq(LeafEntry) /\ Sorted(b)
      BY <1>1, <2>1, PartSorted
    <2>4. Len(b) = Len(s) - mid /\ \A i \in 1..(Len(s) - mid) : b[i] = s[mid + i]
      BY <1>1, <2>1, EndsRight
    <2>5. QED
      BY <2>3, <2>4
  <1> HIDE DEF a, b
  <1>5. up.key \in Nat /\ Between(c, p, up.key)
    <2>1. 1 \in 1..Len(s) /\ 1 < mid + 1
      BY <1>2
    <2>2. s[1].key < up.key /\ s[1].key \in Nat /\ up.key \in Nat /\ c.lo[p] <= s[1].key /\ Under(up.key, c.hi[p])
      BY <1>1, <2>1 DEF Sorted, Has
    <2>3. c.lo[p] \in Nat
      BY DEF Areas, Charted
    <2>4. QED
      BY <2>2, <2>3 DEF Between
  <1>6. ASSUME NEW n, NEW d, Parted(D, c, p, n, up.key, d), n # NoPage
        PROVE  LeafDrawn(d, p, Leaf(a, n)) /\ LeafDrawn(d, n, Leaf(b, next))
    <2>1. /\ \A q \in D : d.lo[q] = c.lo[q] /\ d.level[q] = c.level[q]
          /\ d.lo[n] = up.key /\ d.hi[n] = c.hi[p] /\ d.level[n] = c.level[p] /\ d.hi[p] = up.key
      BY <1>6 DEF Parted
    <2>2. ASSUME NEW i \in DOMAIN a PROVE Has(d, p, a[i].key)
      <3>1. i \in 1..mid /\ a[i] = s[i]
        BY <1>3
      <3>2. i \in 1..Len(s) /\ i < mid + 1
        BY <1>2, <3>1
      <3>3. s[i].key < up.key
        BY <1>1, <3>2 DEF Sorted
      <3>4. QED
        BY <1>1, <2>1, <3>1, <3>2, <3>3 DEF Has, Under
    <2>3. ASSUME NEW i \in DOMAIN b PROVE Has(d, n, b[i].key)
      <3>1. i \in 1..(Len(s) - mid) /\ b[i] = s[mid + i]
        BY <1>4
      <3>2. mid + i \in 1..Len(s) /\ (mid + i = mid + 1 \/ mid + 1 < mid + i)
        BY <1>2, <3>1
      <3>3. s[mid + i].key = up.key \/ up.key < s[mid + i].key
        BY <1>1, <3>2 DEF Sorted
      <3>4. up.key <= s[mid + i].key
        <4>1. s[mid + i].key \in Nat /\ up.key \in Nat
          BY <1>1, <3>2
        <4>2. QED
          BY <3>3, <4>1
      <3>5. QED
        BY <1>1, <2>1, <3>1, <3>2, <3>4 DEF Has
    <2>4. up.key # Open
      <3>1. c.lo[p] \in Nat /\ c.lo[p] < up.key /\ up.key \in Nat
        BY <1>5 DEF Areas, Charted, Between
      <3>2. QED
        BY <3>1 DEF Open
    <2>5. LeafDrawn(d, p, Leaf(a, n))
      BY <1>1, <1>3, <1>6, <2>1, <2>2, <2>4 DEF LeafDrawn, Leaf
    <2>6. LeafDrawn(d, n, Leaf(b, next))
      BY <1>1, <1>4, <2>1, <2>3 DEF LeafDrawn, Leaf
    <2>7. QED
      BY <2>5, <2>6
  <1>7. QED
    BY <1>5, <1>6 DEF a, b

\* In g, the root has given all its keys to a new page n, and is above it.
Grown(D, d, n, g) ==
    /\ Root \in D /\ n \notin D
    /\ Charted(D \cup {n}, g)
    /\ g.lo[n] = d.lo[Root] /\ g.hi[n] = d.hi[Root] /\ g.level[n] = d.level[Root]
    /\ g.hi[Root] = Open /\ g.level[Root] = d.level[Root] + 1
    /\ \A q \in D : g.lo[q] = d.lo[q] /\ (q # Root => g.hi[q] = d.hi[q] /\ g.level[q] = d.level[q])

(* There is such a chart. *)
LEMMA GrownIs ==
  ASSUME NEW D, NEW d, Charted(D, d), Root \in D, NEW n, n \notin D
  PROVE  \E g : Grown(D, d, n, g)
  <1> DEFINE E == D \cup {n}
             lo == [q \in E |-> IF q = n THEN d.lo[Root] ELSE d.lo[q]]
             hi == [q \in E |-> IF q = n THEN d.hi[Root] ELSE IF q = Root THEN Open ELSE d.hi[q]]
             level == [q \in E |-> IF q = n THEN d.level[Root]
                                   ELSE IF q = Root THEN d.level[Root] + 1 ELSE d.level[q]]
             g == [lo |-> lo, hi |-> hi, level |-> level]
  <1>0. Open \in Nat
    BY DEF Open
  <1>1. lo \in [E -> Nat] /\ hi \in [E -> Nat] /\ level \in [E -> Nat]
    BY <1>0 DEF Charted
  <1>2. /\ lo[n] = d.lo[Root] /\ hi[n] = d.hi[Root] /\ level[n] = d.level[Root]
        /\ hi[Root] = Open /\ level[Root] = d.level[Root] + 1
    OBVIOUS
  <1>3. \A q \in D : lo[q] = d.lo[q] /\ (q # Root => hi[q] = d.hi[q] /\ level[q] = d.level[q])
    OBVIOUS
  <1> HIDE DEF lo, hi, level
  <1>4. Grown(D, d, n, g)
    BY <1>1, <1>2, <1>3 DEF Grown, Charted
  <1>5. QED
    BY <1>4

(* A higher root is alone on its level. *)
LEMMA GrownAreas ==
  ASSUME NEW D, NEW d, Areas(D, d), NEW n, NEW g, Grown(D, d, n, g),
         d.lo[Root] = 0, \A q \in D : d.level[q] <= d.level[Root]
  PROVE  Areas(D \cup {n}, g) /\ Rooted(D \cup {n}, g)
  <1> USE DEF Grown
  <1>1. \A q \in D : d.lo[q] \in Nat /\ d.hi[q] \in Nat /\ d.level[q] \in Nat /\ Under(d.lo[q], d.hi[q])
    BY DEF Areas, Charted
  <1>2. \A q \in D \cup {n} : Under(g.lo[q], g.hi[q])
    <2> SUFFICES ASSUME NEW q \in D \cup {n} PROVE Under(g.lo[q], g.hi[q])
      OBVIOUS
    <2>1. CASE q = n
      BY <1>1, <2>1
    <2>2. CASE q = Root
      BY <2>2 DEF Under
    <2>3. CASE q # n /\ q # Root
      BY <1>1, <2>3
    <2>4. QED
      BY <2>1, <2>2, <2>3
  <1>3. \A q \in D \cup {n} : q # Root => g.level[q] < g.level[Root]
    <2> SUFFICES ASSUME NEW q \in D \cup {n}, q # Root PROVE g.level[q] < g.level[Root]
      OBVIOUS
    <2>1. CASE q = n
      BY <1>1, <2>1
    <2>2. CASE q # n
      <3>1. d.level[q] <= d.level[Root] /\ d.level[q] \in Nat /\ d.level[Root] \in Nat
        BY <1>1, <2>2
      <3>2. g.level[q] = d.level[q] /\ g.level[Root] = d.level[Root] + 1
        BY <2>2
      <3>3. QED
        BY <3>1, <3>2
    <2>3. QED
      BY <2>1, <2>2
  <1>4. \A q \in D \cup {n} : g.level[q] \in Nat
    BY DEF Charted
  <1>5. Disjoint(D \cup {n}, g)
    <2> SUFFICES ASSUME NEW a \in D \cup {n}, NEW b \in D \cup {n}, a # b, g.level[a] = g.level[b]
                 PROVE  g.lo[b] < g.lo[a] \/ (g.hi[a] # Open /\ g.hi[a] <= g.lo[b])
      BY DEF Disjoint
    <2>1. a # Root /\ b # Root
      BY <1>3, <1>4
    <2> DEFINE Old(q) == IF q = n THEN Root ELSE q
    <2>2. \A q \in {a, b} : /\ Old(q) \in D /\ g.lo[q] = d.lo[Old(q)] /\ g.hi[q] = d.hi[Old(q)]
                            /\ g.level[q] = d.level[Old(q)]
      BY <2>1
    <2>3. Old(a) # Old(b)
      BY <2>1
    <2> HIDE DEF Old
    <2>4. d.lo[Old(b)] < d.lo[Old(a)] \/ (d.hi[Old(a)] # Open /\ d.hi[Old(a)] <= d.lo[Old(b)])
      BY <2>2, <2>3 DEF Areas, Disjoint
    <2>5. QED
      BY <2>2, <2>4
  <1>6. Areas(D \cup {n}, g)
    BY <1>2, <1>5 DEF Areas
  <1>7. Rooted(D \cup {n}, g)
    BY <1>3 DEF Rooted
  <1>8. QED
    BY <1>6, <1>7

(* The new root has the halves of the old one. *)
LEMMA GrownRoot ==
  ASSUME NEW D, NEW d, Areas(D, d), NEW n, NEW g, Grown(D, d, n, g),
         NEW split \in NodeEntry, split.child \in D, split.child # Root,
         d.lo[Root] = 0, d.hi[Root] = split.key, d.lo[split.child] = split.key,
         d.hi[split.child] = Open, d.level[split.child] = d.level[Root]
  PROVE  Node(g, Root, n, <<split>>)
  <1> DEFINE s == <<split>>
             m == split.child
  <1>1. s \in Seq(NodeEntry) /\ DOMAIN s = {1} /\ Len(s) = 1 /\ s[1] = split /\ 0..Len(s) = {0, 1}
    OBVIOUS
  <1>2. split.key \in Nat
    BY EntriesKeyed DEF Keyed
  <1>3. /\ g.lo[Root] = 0 /\ g.hi[Root] = Open /\ g.level[Root] = d.level[Root] + 1
        /\ g.lo[n] = 0 /\ g.hi[n] = split.key /\ g.level[n] = d.level[Root]
        /\ g.lo[m] = split.key /\ g.hi[m] = Open /\ g.level[m] = d.level[Root]
        /\ DOMAIN g.lo = D \cup {n}
    BY DEF Grown, Charted
  <1>4. 0 < split.key
    <2>1. Under(d.lo[Root], d.hi[Root]) /\ Under(d.lo[m], d.hi[m]) /\ m # Root
      BY DEF Areas, Grown
    <2>2. d.lo[m] < d.lo[Root] \/ (d.hi[Root] # Open /\ d.hi[Root] <= d.lo[m])
      BY DEF Areas, Disjoint, Grown
    <2>3. QED
      BY <1>2, <2>1, <2>2 DEF Open
  <1> HIDE DEF s, m
  <1>5. Sorted(s)
    BY <1>1 DEF Sorted
  <1>6. \A i \in DOMAIN s : g.lo[Root] < s[i].key /\ Under(s[i].key, g.hi[Root])
    BY <1>1, <1>3, <1>4 DEF Under
  <1>7. s[1].child = m
    BY <1>1 DEF m
  <1>8. ASSUME NEW i \in 0..Len(s)
        PROVE  LET q == Kid(n, s, i) IN
               /\ q \in DOMAIN g.lo /\ g.level[q] + 1 = g.level[Root]
               /\ g.lo[q] = Start(g, Root, s, i) /\ g.hi[q] = Stop(g, Root, s, i)
    <2>1. CASE i = 0
      <3>1. Kid(n, s, 0) = n /\ Start(g, Root, s, 0) = 0 /\ Stop(g, Root, s, 0) = split.key
        BY <1>1, <1>3 DEF Kid, Start, Stop
      <3>2. QED
        BY <1>3, <2>1, <3>1
    <2>2. CASE i = 1
      <3>1. Kid(n, s, 1) = m /\ Start(g, Root, s, 1) = split.key /\ Stop(g, Root, s, 1) = Open
        BY <1>1, <1>3, <1>7 DEF Kid, Start, Stop
      <3>2. m \in D
        BY DEF m
      <3>3. QED
        BY <1>3, <2>2, <3>1, <3>2
    <2>3. QED
      BY <1>1, <2>1, <2>2
  <1>9. Node(g, Root, n, s)
    BY <1>1, <1>5, <1>6, <1>8 DEF Node
  <1>10. QED
    BY <1>9 DEF s

(* A sequence with an element replaced and one behind it. *)
LEMMA AppendedRight ==
  ASSUME NEW S, NEW s \in Seq(S), NEW p \in DOMAIN s, NEW x, NEW y, NEW n, n = Len(s) + 1
  PROVE  LET r == Append([s EXCEPT ![p] = x], y) IN
         /\ DOMAIN r = DOMAIN s \cup {n} /\ n \notin DOMAIN s /\ Len(r) = n /\ n \in Nat
         /\ r[p] = x /\ r[n] = y /\ \A q \in DOMAIN s : q # p => r[q] = s[q]
  <1> DEFINE T == S \cup {x, y}
             w == [s EXCEPT ![p] = x]
             r == Append(w, y)
  <1>1. DOMAIN s = 1..Len(s) /\ Len(s) \in Nat /\ \A q \in 1..Len(s) : s[q] \in T
    OBVIOUS
  <1>2. w \in [1..Len(s) -> T] /\ w[p] = x /\ \A q \in DOMAIN s : q # p => w[q] = s[q]
    BY <1>1
  <1>3. w \in Seq(T) /\ Len(w) = Len(s)
    <2> HIDE DEF w, T
    <2>1. w \in Seq(T)
      BY <1>1, <1>2
    <2>2. QED
      BY <1>1, <1>2, <2>1
  <1>4. y \in T
    OBVIOUS
  <1> HIDE DEF w, T
  <1>5. r \in Seq(T) /\ Len(r) = n /\ r[n] = y /\ \A q \in 1..Len(s) : r[q] = w[q]
    BY <1>1, <1>3, <1>4
  <1>6. DOMAIN r = 1..n /\ n \in Nat /\ 1..n = (1..Len(s)) \cup {n} /\ n \notin 1..Len(s)
    BY <1>1, <1>5
  <1> HIDE DEF r
  <1>7. QED
    BY <1>1, <1>2, <1>5, <1>6 DEF r

------------------------------------------------------------------------------
(* The order of the tree at every moment.                                  *)

Owes(u, p) == at[u] = "propagate" /\ Last(held[u]) = p

\* The entries of p, with the separator that is on its way to it.
Meant(p, s) ==
    \/ s = pages[p].entries /\ \A u \in Thread : ~ Owes(u, p)
    \/ \E u \in Thread : Owes(u, p) /\ s = InsertSorted(pages[p].entries, pending[u])

Tree(c) ==
    /\ Areas(DOMAIN pages, c) /\ Rooted(DOMAIN pages, c)
    /\ \A p \in DOMAIN pages :
          /\ Drawn(c, p, pages[p])
          /\ \A s : pages[p].kind = "internal" /\ Meant(p, s) => Node(c, p, pages[p].first, s)

Reading == {"seek", "next", "walk"}
Entries == [key : Nat, rid : Nat]

\* What a reader may not miss.
Sought(t) ==
    CASE call[t].op = "scan"   -> owed[t] \ ToSet(got[t])
      [] call[t].op = "insert" -> {e \in Contents : e.key = call[t].entry.key /\ got[t] = <<>>}
      [] call[t].op = "delete" -> {e \in Contents : e = call[t].entry}

\* The page from which it goes on.
Spot(t) == IF at[t] # "seek" THEN cursor[t].leaf ELSE IF latch[t] = NoPage THEN Root ELSE latch[t]

Reads(c, t) ==
    /\ Spot(t) \in DOMAIN pages
    /\ \A f \in Sought(t) : c.lo[Spot(t)] <= f.key /\ Qualifies(f, cursor[t].position)
    /\ \A f \in Entries : Qualifies(f, cursor[t].position) => Qualifies(f, LowerOf(call[t]))

Writes(c, t) ==
    LET key == call[t].entry.key IN
    /\ \A i \in DOMAIN held[t] : Has(c, held[t][i], key)
    /\ \A i \in DOMAIN held[t] : i + 1 \in DOMAIN held[t] =>
          held[t][i + 1] = ChildFor(pages[held[t][i]], Towards(key))

Guided(c, t) ==
    /\ at[t] \in Reading => Reads(c, t)
    /\ at[t] \in {"descend", "propagate"} => Writes(c, t)

\* A scan goes on behind what it has yielded.
Scans(t) ==
    /\ \A f \in owed[t], g \in ToSet(got[t]) : f.key = g.key => f = g
    /\ got[t] # <<>> =>
          /\ cursor[t].position.kind \in {"included", "after"}
          /\ Last(got[t]).key = cursor[t].position.key
          /\ \A g \in ToSet(got[t]) : g.key <= cursor[t].position.key

Erases(t) ==
    LET entries == pages[cursor[t].leaf].entries IN
    call[t].entry \in ToSet(entries) /\ stale[t] = RemoveFirst(entries, call[t].entry)

Answered(t) ==
    IF at[t] = "idle" THEN answer[t] \notin {"none", "applied"}
    ELSE answer[t] = IF at[t] = "propagate" THEN "applied" ELSE "none"

Told(t) ==
    /\ owed[t] \subseteq Contents
    /\ call[t].op = "scan" => \A f \in owed[t] : ~ Beyond(f.key, UpperOf(call[t]))
    /\ Answered(t)
    /\ at[t] # "idle" => <<t, made[t], call[t]>> \in Calls
    /\ at[t] = "descend" => \A e \in Contents : e.key # call[t].entry.key
    /\ at[t] = "erase" => Erases(t)
    /\ at[t] \in Reading /\ call[t].op = "scan" => Scans(t)
    /\ at[t] \in Reading /\ call[t].op = "insert" /\ got[t] # <<>> =>
          \E e \in Contents : e.key = call[t].entry.key

OrderTypes ==
    /\ made \in [Thread -> Nat] /\ answer = [t \in Thread |-> answer[t]]
    /\ got \in [Thread -> Seq(LeafEntry)] /\ owed \in [Thread -> SUBSET LeafEntry]
    /\ \A t \in Thread : cursor[t].position \in Position

Ordered(c) == Tree(c) /\ OrderTypes /\ \A t \in Thread : Told(t) /\ Guided(c, t)

OrderInv == TreeInv /\ \E c : Ordered(c)

\* Keys are not repeated, and no two threads insert the same.
OwnKeys ==
    /\ Unique
    /\ \A c, d \in Calls :
          c[3].op = "insert" /\ d[3].op = "insert" /\ c[3].entry.key = d[3].entry.key => c[1] = d[1]

Kept(u) ==
    /\ got'[u] = got[u] /\ owed'[u] = owed[u] /\ answer'[u] = answer[u] /\ made'[u] = made[u]

(* The contents are the entries of the leaves. *)
LEMMA ContentsAre ==
  \A e : e \in Contents <=>
            \E p \in DOMAIN pages : pages[p].kind = "leaf" /\ e \in ToSet(pages[p].entries)
  BY DEF Contents, IsLeaf

(* Entries are pairs of numbers. *)
LEMMA EntriesRight == LeafEntry \subseteq Entries
  BY PayloadAssumption DEF LeafEntry, ShortKeys, Entries

(* What is in the tree. *)
LEMMA ContentsRight ==
  ASSUME Sound(pages)
  PROVE  Contents \subseteq LeafEntry /\ Contents \subseteq Entries
  <1> SUFFICES ASSUME NEW e \in Contents PROVE e \in LeafEntry
    BY EntriesRight
  <1>1. PICK p \in DOMAIN pages : pages[p].kind = "leaf" /\ e \in ToSet(pages[p].entries)
    BY ContentsAre
  <1>2. pages[p] \in LeafPage
    BY <1>1, PageRight DEF NodePage
  <1>3. pages[p].entries \in Seq(LeafEntry)
    BY <1>2 DEF LeafPage
  <1>4. QED
    BY <1>1, <1>3 DEF ToSet

(* A leaf and its entries. *)
LEMMA LeafRight ==
  ASSUME Sound(pages), NEW c, Tree(c), NEW p \in DOMAIN pages, pages[p].kind = "leaf"
  PROVE  /\ pages[p].entries \in Seq(LeafEntry) /\ LeafDrawn(c, p, pages[p])
         /\ pages[p] = Leaf(pages[p].entries, pages[p].next)
         /\ ToSet(pages[p].entries) \subseteq Contents
         /\ \A e \in ToSet(pages[p].entries) : Has(c, p, e.key)
  <1>1. pages[p] \in LeafPage
    BY PageRight DEF NodePage
  <1>2. pages[p].entries \in Seq(LeafEntry) /\ pages[p] = Leaf(pages[p].entries, pages[p].next)
    BY <1>1 DEF LeafPage, Leaf
  <1>3. LeafDrawn(c, p, pages[p])
    BY DEF Tree, Drawn
  <1>4. ToSet(pages[p].entries) \subseteq Contents
    BY ContentsAre
  <1>5. \A e \in ToSet(pages[p].entries) : Has(c, p, e.key)
    BY <1>2, <1>3 DEF LeafDrawn, ToSet
  <1>6. QED
    BY <1>2, <1>3, <1>4, <1>5

(* Whatever is behind the start of a leaf is in it, or behind the next. *)
LEMMA Looked ==
  ASSUME Sound(pages), Linked(pages), NEW c, Tree(c), NEW p \in DOMAIN pages, pages[p].kind = "leaf",
         NEW f \in Contents, c.lo[p] <= f.key
  PROVE  \/ f \in ToSet(pages[p].entries)
         \/ /\ pages[p].next # NoPage /\ pages[p].next \in DOMAIN pages
            /\ pages[pages[p].next].kind = "leaf" /\ c.lo[pages[p].next] <= f.key
            /\ \A e \in ToSet(pages[p].entries) : e.key < f.key
  <1>1. PICK q \in DOMAIN pages : pages[q].kind = "leaf" /\ f \in ToSet(pages[q].entries)
    BY ContentsAre
  <1>2. /\ LeafDrawn(c, p, pages[p]) /\ LeafDrawn(c, q, pages[q]) /\ Has(c, q, f.key)
        /\ \A e \in ToSet(pages[p].entries) : Has(c, p, e.key) /\ e \in Contents
    BY <1>1, LeafRight
  <1>3. c.level[p] = 0 /\ c.level[q] = 0
    BY <1>2 DEF LeafDrawn
  <1>4. f.key \in Nat /\ \A e \in Contents : e.key \in Nat
    BY ContentsRight DEF Entries
  <1>5. CASE Under(f.key, c.hi[p])
    <2>1. Has(c, p, f.key)
      BY <1>5 DEF Has
    <2>2. p = q
      BY <1>2, <1>3, <1>4, <2>1, OneHolder DEF Tree
    <2>3. QED
      BY <1>1, <2>2
  <1>6. CASE ~ Under(f.key, c.hi[p])
    <2>1. c.hi[p] # Open /\ c.hi[p] \in Nat /\ c.hi[p] <= f.key
      <3>1. c.hi[p] \in Nat
        BY DEF Tree, Areas, Charted
      <3>2. QED
        BY <1>4, <1>6, <3>1 DEF Under
    <2>2. pages[p].next # NoPage /\ c.hi[p] = c.lo[pages[p].next]
      BY <1>2, <2>1 DEF LeafDrawn
    <2>3. pages[p].next \in DOMAIN pages /\ pages[pages[p].next].kind = "leaf"
      BY <2>2 DEF Linked, LinkRight
    <2>4. \A e \in ToSet(pages[p].entries) : e.key < f.key
      BY <1>2, <1>4, <2>1 DEF Has, Under
    <2>5. QED
      BY <2>1, <2>2, <2>3, <2>4
  <1>7. QED
    BY <1>5, <1>6

(* Where pages stay as they are, so does the tree. *)
LEMMA TreeKept ==
  ASSUME NEW c, Tree(c), pages' = pages,
         \A u \in Thread : \A p : Owes(u, p)' <=> Owes(u, p),
         \A u \in Thread : at[u] = "propagate" => pending'[u] = pending[u]
  PROVE  Tree(c)'
  <1>1. \A p : \A s : Meant(p, s)' => Meant(p, s)
    BY DEF Meant, Owes
  <1>2. QED
    BY <1>1 DEF Tree

(* A thread that stays where it is, in the same tree. *)
LEMMA OtherKept ==
  ASSUME NEW c, NEW u \in Thread, Told(u), Guided(c, u), Same(u), Kept(u), pages' = pages
  PROVE  Told(u)' /\ Guided(c, u)'
  <1>1. Contents' = Contents
    BY DEF Contents, IsLeaf
  <1>2. Told(u)'
    BY <1>1 DEF Told, Same, Kept, Answered, Erases, Scans
  <1>3. Sought(u)' = Sought(u) /\ Spot(u)' = Spot(u)
    BY <1>1 DEF Sought, Spot, Same, Kept
  <1>4. Guided(c, u)'
    BY <1>3 DEF Guided, Reads, Writes, Same
  <1>5. QED
    BY <1>2, <1>4

(* A step that leaves the pages alone. *)
LEMMA QuietOrder ==
  ASSUME NEW c, Ordered(c), NEW t \in Thread, pages' = pages,
         \A u \in Thread \ {t} : Same(u) /\ Kept(u),
         at[t] # "propagate", at'[t] # "propagate",
         OrderTypes', Told(t)', Guided(c, t)'
  PROVE  Ordered(c)'
  <1>1. Tree(c)'
    <2>1. \A u \in Thread : \A p : Owes(u, p)' <=> Owes(u, p)
      BY DEF Owes, Same
    <2>2. \A u \in Thread : at[u] = "propagate" => pending'[u] = pending[u]
      BY DEF Same
    <2>3. QED
      BY <2>1, <2>2, TreeKept DEF Ordered
  <1>2. \A u \in Thread \ {t} : Told(u)' /\ Guided(c, u)'
    BY OtherKept DEF Ordered
  <1>3. QED
    BY <1>1, <1>2 DEF Ordered

------------------------------------------------------------------------------
(* Steps of readers.                                                       *)

(* Where a call ends, nothing is expected any more. *)
LEMMA ReturnsOrder ==
  ASSUME Types, OrderTypes, NEW t \in Thread, Told(t), NEW value, Returns(t, value),
         value \notin {"none", "applied"},
         owed' \in [Thread -> SUBSET LeafEntry], owed'[t] \subseteq owed[t], owed'[t] \subseteq Contents'
  PROVE  /\ OrderTypes' /\ Told(t)' /\ \A c : Guided(c, t)'
         /\ at'[t] = "idle"
         /\ \A u \in Thread \ {t} :
               Same(u) /\ got'[u] = got[u] /\ answer'[u] = answer[u] /\ made'[u] = made[u]
  <1>1. /\ at' = [at EXCEPT ![t] = "idle"] /\ answer' = [answer EXCEPT ![t] = value]
        /\ got' = [got EXCEPT ![t] = IF value = "end" THEN @ ELSE <<>>]
        /\ held' = [held EXCEPT ![t] = <<>>] /\ latch' = [latch EXCEPT ![t] = NoPage]
        /\ cursor' = [cursor EXCEPT ![t] = Nowhere]
        /\ pending' = [pending EXCEPT ![t] = NoSplit] /\ stale' = [stale EXCEPT ![t] = <<>>]
        /\ call' = call /\ made' = made
    BY DEF Returns, Goes
  <1>2. \A u \in Thread \ {t} :
           Same(u) /\ got'[u] = got[u] /\ answer'[u] = answer[u] /\ made'[u] = made[u]
    <2>1. \A u \in Thread \ {t} : Same(u)
      BY <1>1 DEF Types, Same
    <2>2. \A u \in Thread \ {t} : got'[u] = got[u] /\ answer'[u] = answer[u] /\ made'[u] = made[u]
      BY <1>1 DEF OrderTypes
    <2>3. QED
      BY <2>1, <2>2
  <1>3. at'[t] = "idle" /\ answer'[t] = value
    <2>1. at'[t] = "idle"
      BY <1>1 DEF Types
    <2>2. answer'[t] = value
      BY <1>1 DEF OrderTypes
    <2>3. QED
      BY <2>1, <2>2
  <1>4. OrderTypes'
    <2>1. made' \in [Thread -> Nat] /\ answer' = [u \in Thread |-> answer'[u]]
      BY <1>1 DEF OrderTypes
    <2>2. got' \in [Thread -> Seq(LeafEntry)]
      BY <1>1 DEF OrderTypes
    <2>3. \A u \in Thread : cursor'[u].position \in Position
      <3> SUFFICES ASSUME NEW u \in Thread PROVE cursor'[u].position \in Position
        OBVIOUS
      <3>1. CASE u = t
        <4>1. cursor'[t] = Nowhere
          BY <1>1 DEF Types
        <4>2. QED
          BY <3>1, <4>1 DEF Nowhere, Position, Kinds
      <3>2. CASE u # t
        <4>1. cursor'[u] = cursor[u]
          BY <1>2, <3>2 DEF Same
        <4>2. QED
          BY <4>1 DEF OrderTypes
      <3>3. QED
        BY <3>1, <3>2
    <2>4. QED
      BY <2>1, <2>2, <2>3 DEF OrderTypes
  <1>5. Told(t)'
    BY <1>1, <1>3 DEF Told, Answered, Reading
  <1>6. \A c : Guided(c, t)'
    BY <1>3 DEF Guided, Reading
  <1>7. QED
    BY <1>2, <1>3, <1>4, <1>5, <1>6

(* A call that ends without a change. *)
LEMMA QuietReturn ==
  ASSUME TreeInv, NEW c, Ordered(c), NEW t \in Thread, at[t] # "propagate",
         NEW value, Returns(t, value), value \notin {"none", "applied"}, UNCHANGED <<pages, owed>>
  PROVE  Ordered(c)'
  <1>1. Types /\ OrderTypes /\ Told(t) /\ pages' = pages /\ owed' = owed
    BY DEF TreeInv, Ordered
  <1>2. Contents' = Contents
    BY <1>1 DEF Contents, IsLeaf
  <1>3. owed' \in [Thread -> SUBSET LeafEntry] /\ owed'[t] \subseteq owed[t] /\ owed'[t] \subseteq Contents'
    BY <1>1, <1>2 DEF OrderTypes, Told
  <1>4. /\ OrderTypes' /\ Told(t)' /\ Guided(c, t)' /\ at'[t] = "idle"
        /\ \A u \in Thread \ {t} :
               Same(u) /\ got'[u] = got[u] /\ answer'[u] = answer[u] /\ made'[u] = made[u]
    BY <1>1, <1>3, ReturnsOrder
  <1>5. \A u \in Thread \ {t} : Same(u) /\ Kept(u)
    BY <1>1, <1>4 DEF Kept
  <1>6. QED
    BY <1>1, <1>4, <1>5, QuietOrder

(* What is sought is in the tree. *)
LEMMA SoughtRight ==
  ASSUME TreeInv, NEW c, Ordered(c), NEW t \in Thread, at[t] \in Reading
  PROVE  /\ Sought(t) \subseteq Contents /\ call[t].op \in {"scan", "insert", "delete"}
         /\ Sought(t) \subseteq Entries /\ Reads(c, t)
  <1>1. /\ Told(t) /\ Guided(c, t) /\ Doing(t) /\ at[t] \in Places
        /\ Contents \subseteq Entries
    BY ContentsRight DEF TreeInv, Ordered, Types
  <1>2. call[t].op \in {"scan", "insert", "delete"}
    BY <1>1 DEF Doing, Reading
  <1>3. Sought(t) \subseteq Contents
    <2>1. CASE call[t].op = "scan"
      BY <1>1, <2>1 DEF Sought, Told
    <2>2. CASE call[t].op = "insert"
      BY <2>2 DEF Sought
    <2>3. CASE call[t].op = "delete"
      BY <2>3 DEF Sought
    <2>4. QED
      BY <1>2, <2>1, <2>2, <2>3
  <1>4. QED
    BY <1>1, <1>2, <1>3 DEF Guided

(* A reader that goes on from a page, with the same position. *)
LEMMA ReadsOn ==
  ASSUME TreeInv, NEW c, Ordered(c), NEW t \in Thread,
         at[t] \in Reading, at'[t] \in Reading, UNCHANGED <<pages, call, answer, got, owed, made>>,
         \A u \in Thread \ {t} : Same(u),
         cursor'[t].position = cursor[t].position,
         Spot(t)' \in DOMAIN pages, \A f \in Sought(t) : c.lo[Spot(t)'] <= f.key
  PROVE  Ordered(c)'
  <1>1. /\ Told(t) /\ OrderTypes /\ at[t] \notin {"idle", "propagate", "descend", "erase"}
        /\ at'[t] \notin {"idle", "propagate", "descend", "erase"}
    BY DEF Ordered, Reading
  <1>2. Reads(c, t) /\ call[t].op \in {"scan", "insert", "delete"}
    BY SoughtRight
  <1>3. Contents' = Contents
    BY DEF Contents, IsLeaf
  <1>4. Sought(t)' = Sought(t)
    BY <1>3 DEF Sought
  <1>5. Reads(c, t)'
    BY <1>2, <1>4 DEF Reads
  <1>6. Told(t)'
    <2>1. Answered(t)'
      BY <1>1 DEF Told, Answered
    <2>2. Scans(t) => Scans(t)'
      BY DEF Scans
    <2>3. QED
      BY <1>1, <1>3, <2>1, <2>2 DEF Told
  <1>7. OrderTypes'
    <2>1. \A u \in Thread : cursor'[u].position = cursor[u].position
      BY DEF Same
    <2>2. QED
      BY <1>1, <2>1 DEF OrderTypes
  <1>8. Guided(c, t)' /\ \A u \in Thread \ {t} : Same(u) /\ Kept(u)
    BY <1>1, <1>5 DEF Guided, Kept
  <1>9. QED
    BY <1>1, <1>6, <1>7, <1>8, QuietOrder

(* delete looks at a leaf. *)
LEMMA ExamineOrder ==
  ASSUME TreeInv, NEW c, Ordered(c), NEW t \in Thread, at[t] \in {"seek", "walk"}, call[t].op = "delete",
         NEW p \in DOMAIN pages, pages[p].kind = "leaf", Examine(t, p),
         \A f \in Sought(t) : c.lo[p] <= f.key
  PROVE  Ordered(c)'
  <1> DEFINE e == call[t].entry
  <1>1. /\ Types /\ OrderTypes /\ Told(t) /\ Sound(pages) /\ Linked(pages) /\ Tree(c)
        /\ at[t] # "propagate" /\ at[t] \in Reading /\ UNCHANGED <<pages, owed>>
    BY DEF TreeInv, Ordered, Reading, Examine
  <1>2. Contents' = Contents
    BY <1>1 DEF Contents, IsLeaf
  <1>3. CASE e \in ToSet(pages[p].entries)
    <2>1. /\ at' = [at EXCEPT ![t] = "erase"]
          /\ stale' = [stale EXCEPT ![t] = RemoveFirst(pages[p].entries, e)]
          /\ cursor' = [cursor EXCEPT ![t].leaf = p] /\ latch' = [latch EXCEPT ![t] = NoPage]
          /\ UNCHANGED <<pages, call, answer, got, owed, made, held, pending>>
      BY <1>3 DEF Examine, Goes, Dropped
    <2>2. Moved(t, p, cursor[t].position)
      BY <1>1, <2>1, MovesRight
    <2>3. at'[t] = "erase" /\ stale'[t] = RemoveFirst(pages[p].entries, e) /\ cursor'[t].leaf = p
      BY <1>1, <2>1, <2>2, MovedRight DEF Types
    <2>4. \A u \in Thread \ {t} : Same(u) /\ Kept(u)
      BY <1>1, <2>1, <2>2, MovedRight DEF Types, Same, Kept
    <2>5. Erases(t)'
      BY <1>3, <2>1, <2>3 DEF Erases
    <2>6. Answered(t)'
      BY <1>1, <2>1, <2>3 DEF Told, Answered, Reading
    <2>7. Told(t)'
      BY <1>1, <1>2, <2>1, <2>3, <2>5, <2>6 DEF Told, Reading
    <2>8. cursor'[t].position = cursor[t].position
      BY <1>1, <2>2 DEF Moved, Types
    <2>9. OrderTypes'
      <3>1. \A u \in Thread : cursor'[u].position = cursor[u].position
        BY <2>4, <2>8 DEF Same
      <3>2. QED
        BY <1>1, <2>1, <3>1 DEF OrderTypes
    <2>10. Guided(c, t)' /\ at'[t] # "propagate" /\ pages' = pages
      BY <2>1, <2>3 DEF Guided, Reading
    <2>11. QED
      BY <1>1, <2>4, <2>7, <2>9, <2>10, QuietOrder
  <1>4. CASE e \notin ToSet(pages[p].entries) /\ MightContinue(pages[p], e.key) /\ pages[p].next # NoPage
    <2>1. /\ at' = [at EXCEPT ![t] = "walk"]
          /\ cursor' = [cursor EXCEPT ![t].leaf = pages[p].next] /\ latch' = [latch EXCEPT ![t] = NoPage]
          /\ UNCHANGED <<pages, call, answer, got, owed, made, held, pending, stale>>
      BY <1>4 DEF Examine, Goes, Dropped
    <2>2. Moved(t, pages[p].next, cursor[t].position)
      BY <1>1, <2>1, MovesRight
    <2>3. at'[t] = "walk" /\ cursor'[t].leaf = pages[p].next
      BY <1>1, <2>1, <2>2, MovedRight DEF Types
    <2>4. \A u \in Thread \ {t} : Same(u)
      BY <1>1, <2>1, <2>2, MovedRight DEF Types, Same
    <2>5. cursor'[t].position = cursor[t].position
      BY <1>1, <2>2 DEF Moved, Types
    <2>6. Spot(t)' = pages[p].next
      BY <2>3 DEF Spot
    <2>7. pages[p].next \in DOMAIN pages
      BY <1>1, <1>4 DEF Linked, LinkRight
    <2>8. \A f \in Sought(t) : c.lo[pages[p].next] <= f.key
      <3> SUFFICES ASSUME NEW f \in Sought(t) PROVE c.lo[pages[p].next] <= f.key
        OBVIOUS
      <3>1. f = e /\ f \in Contents
        BY DEF Sought
      <3>2. f \notin ToSet(pages[p].entries)
        BY <1>4, <3>1
      <3>3. QED
        BY <1>1, <3>1, <3>2, Looked
    <2>9. QED
      BY <1>1, <2>1, <2>3, <2>4, <2>5, <2>6, <2>7, <2>8, ReadsOn DEF Reading
  <1>5. CASE Returns(t, "absent")
    BY <1>1, <1>5, QuietReturn
  <1>6. QED
    BY <1>3, <1>4, <1>5 DEF Examine

(* The children of the page that a reader has a latch on. *)
LEMMA SeekLeads ==
  ASSUME TreeInv, NEW c, Ordered(c), NEW t \in Thread, at[t] = "seek"
  PROVE  LET p == IF latch[t] = NoPage THEN Root ELSE ChildFor(pages[latch[t]], cursor[t].position) IN
         p \in DOMAIN pages /\ \A f \in Sought(t) : c.lo[p] <= f.key
  <1>1. /\ Doing(t) /\ Sound(pages) /\ Tree(c) /\ cursor[t].position \in Position /\ Reads(c, t)
        /\ Sought(t) \subseteq Entries
    BY SoughtRight DEF TreeInv, Ordered, OrderTypes, Reading
  <1>2. CASE latch[t] = NoPage
    <2>1. Root \in DOMAIN pages /\ c.lo[Root] = 0
      BY <1>1 DEF Tree, Rooted
    <2>2. \A f \in Sought(t) : f.key \in Nat
      BY <1>1 DEF Entries
    <2>3. QED
      BY <1>2, <2>1, <2>2
  <1>3. CASE latch[t] # NoPage
    <2> DEFINE q == latch[t]
               p == ChildFor(pages[q], cursor[t].position)
    <2>1. q \in DOMAIN pages /\ pages[q].kind = "internal"
      BY <1>1, <1>3 DEF Doing
    <2>2. pages[q].entries \in Seq(NodeEntry)
      BY <1>1, <2>1, PageRight DEF NodePage, LeafPage
    <2>3. NodeDrawn(c, q, pages[q])
      BY <1>1, <2>1 DEF Tree, Drawn
    <2>4. /\ p \in DOMAIN c.lo
          /\ \A f : f.key \in Nat /\ Qualifies(f, cursor[t].position) /\ c.lo[q] <= f.key => c.lo[p] <= f.key
      BY <1>1, <2>2, <2>3, ReaderDown
    <2>5. DOMAIN c.lo = DOMAIN pages
      BY <1>1 DEF Tree, Areas, Charted
    <2>6. Spot(t) = q
      BY <1>3 DEF Spot
    <2>7. \A f \in Sought(t) : f.key \in Nat /\ Qualifies(f, cursor[t].position) /\ c.lo[q] <= f.key
      BY <1>1, <2>6 DEF Reads, Entries
    <2>8. p \in DOMAIN pages /\ \A f \in Sought(t) : c.lo[p] <= f.key
      BY <2>4, <2>5, <2>7
    <2>9. QED
      BY <1>3, <2>8
  <1>4. QED
    BY <1>2, <1>3

(* One page down. *)
LEMMA SeekOrder ==
  ASSUME TreeInv, NEW c, Ordered(c), NEW t \in Thread, Seek(t)
  PROVE  Ordered(c)'
  <1> DEFINE p == IF latch[t] = NoPage THEN Root ELSE ChildFor(pages[latch[t]], cursor[t].position)
  <1>1. /\ at[t] = "seek" /\ Types /\ at[t] \in Reading
        /\ IF IsLeaf(p) /\ call[t].op = "delete"
           THEN Examine(t, p)
           ELSE /\ IF IsLeaf(p)
                   THEN /\ Goes(t, "next")
                        /\ latch' = [latch EXCEPT ![t] = NoPage]
                        /\ cursor' = [cursor EXCEPT ![t].leaf = p]
                   ELSE latch' = [latch EXCEPT ![t] = p] /\ UNCHANGED <<at, cursor>>
                /\ UNCHANGED <<pages, call, answer, got, owed, made, held, pending, stale>>
    BY DEF Seek, TreeInv, Reading
  <1>2. p \in DOMAIN pages /\ \A f \in Sought(t) : c.lo[p] <= f.key
    BY <1>1, SeekLeads
  <1>6. p # NoPage
    BY <1>2, PageRight DEF TreeInv
  <1> HIDE DEF p
  <1>3. CASE IsLeaf(p) /\ call[t].op = "delete"
    BY <1>1, <1>2, <1>3, ExamineOrder DEF IsLeaf
  <1>4. CASE IsLeaf(p) /\ call[t].op # "delete"
    <2>1. /\ at' = [at EXCEPT ![t] = "next"] /\ latch' = [latch EXCEPT ![t] = NoPage]
          /\ cursor' = [cursor EXCEPT ![t].leaf = p]
          /\ UNCHANGED <<pages, call, answer, got, owed, made, held, pending, stale>>
      BY <1>1, <1>4 DEF Goes
    <2>2. Moved(t, p, cursor[t].position)
      BY <1>1, <2>1, MovesRight
    <2>3. at'[t] = "next" /\ cursor'[t].leaf = p /\ cursor'[t].position = cursor[t].position
      BY <1>1, <2>1, <2>2, MovedRight DEF Types, Moved
    <2>4. \A u \in Thread \ {t} : Same(u)
      BY <1>1, <2>1, <2>2, MovedRight DEF Types, Same
    <2>5. Spot(t)' = p
      BY <2>3 DEF Spot
    <2>6. QED
      BY <1>1, <1>2, <2>1, <2>3, <2>4, <2>5, ReadsOn DEF Reading
  <1>5. CASE ~ IsLeaf(p)
    <2>1. /\ latch' = [latch EXCEPT ![t] = p]
          /\ UNCHANGED <<at, cursor, pages, call, answer, got, owed, made, held, pending, stale>>
      BY <1>1, <1>5
    <2>2. \A u \in Thread \ {t} : Same(u)
      BY <1>1, <2>1 DEF Types, Same
    <2>3. Spot(t)' = p
      BY <1>1, <1>6, <2>1 DEF Spot, Types
    <2>4. QED
      BY <1>1, <1>2, <2>1, <2>2, <2>3, ReadsOn
  <1>7. QED
    BY <1>3, <1>4, <1>5

(* delete follows a link. *)
LEMMA WalkOrder ==
  ASSUME TreeInv, NEW c, Ordered(c), NEW t \in Thread, Walk(t)
  PROVE  Ordered(c)'
  <1> DEFINE p == cursor[t].leaf
  <1>1. at[t] = "walk" /\ Examine(t, p) /\ Doing(t) /\ at[t] \in Reading
    BY DEF Walk, TreeInv, Reading
  <1>2. call[t].op = "delete" /\ p \in DOMAIN pages /\ pages[p].kind = "leaf"
    BY <1>1 DEF Doing
  <1>3. Reads(c, t) /\ Spot(t) = p
    BY <1>1, SoughtRight DEF Spot
  <1>4. \A f \in Sought(t) : c.lo[p] <= f.key
    BY <1>3 DEF Reads
  <1> HIDE DEF p
  <1>5. QED
    BY <1>1, <1>2, <1>4, ExamineOrder

(* A scan goes back to the root. *)
LEMMA RestartOrder ==
  ASSUME TreeInv, NEW c, Ordered(c), NEW t \in Thread, Restart(t)
  PROVE  Ordered(c)'
  <1>1. /\ at[t] = "next" /\ at' = [at EXCEPT ![t] = "seek"]
        /\ UNCHANGED <<pages, call, answer, got, owed, made, held, latch, cursor, pending, stale>>
    BY DEF Restart, Goes
  <1>2. Types /\ Doing(t) /\ Tree(c)
    BY DEF TreeInv, Ordered
  <1>3. at'[t] = "seek" /\ latch[t] = NoPage
    BY <1>1, <1>2 DEF Types, Doing
  <1>4. Spot(t)' = Root
    BY <1>1, <1>3 DEF Spot
  <1>5. Root \in DOMAIN pages /\ \A f \in Sought(t) : c.lo[Root] <= f.key
    <2>1. Root \in DOMAIN pages /\ c.lo[Root] = 0
      BY <1>2 DEF Tree, Rooted
    <2>2. Sought(t) \subseteq Entries
      BY <1>1, SoughtRight DEF Reading
    <2>3. QED
      BY <2>1, <2>2 DEF Entries
  <1>6. \A u \in Thread \ {t} : Same(u)
    BY <1>1, <1>2 DEF Types, Same
  <1>7. at[t] \in Reading /\ at'[t] \in Reading
    BY <1>1, <1>3 DEF Reading
  <1>8. QED
    BY <1>1, <1>4, <1>5, <1>6, <1>7, ReadsOn

(* One key, one entry. *)
LEMMA OneOfKey ==
  ASSUME Sound(pages), NEW c, Tree(c), NEW e \in Contents, NEW f \in Contents, e.key = f.key
  PROVE  e = f
  <1>1. PICK p \in DOMAIN pages : pages[p].kind = "leaf" /\ e \in ToSet(pages[p].entries)
    BY ContentsAre
  <1>2. PICK q \in DOMAIN pages : pages[q].kind = "leaf" /\ f \in ToSet(pages[q].entries)
    BY ContentsAre
  <1>3. /\ pages[p].entries \in Seq(LeafEntry) /\ LeafDrawn(c, p, pages[p]) /\ Has(c, p, e.key)
        /\ LeafDrawn(c, q, pages[q]) /\ Has(c, q, f.key)
    BY <1>1, <1>2, LeafRight
  <1>4. c.level[p] = 0 /\ c.level[q] = 0 /\ Sorted(pages[p].entries)
    BY <1>3 DEF LeafDrawn
  <1>5. e.key \in Nat
    BY ContentsRight DEF Entries
  <1>6. p = q
    BY <1>3, <1>4, <1>5, OneHolder DEF Tree
  <1>7. PICK i \in DOMAIN pages[p].entries : e = pages[p].entries[i]
    BY <1>1 DEF ToSet
  <1>8. PICK j \in DOMAIN pages[p].entries : f = pages[p].entries[j]
    BY <1>2, <1>6 DEF ToSet
  <1>9. i = j
    BY <1>3, <1>4, <1>7, <1>8, EntriesKeyed, KeysApart
  <1>10. QED
    BY <1>7, <1>8, <1>9

Ahead(t) == {e \in ToSet(pages[cursor[t].leaf].entries) : Qualifies(e, cursor[t].position)}

IsNearest(e, ahead) ==
    e \in ahead /\ \A f \in ahead : e.key < f.key \/ (e.key = f.key /\ e.rid <= f.rid)

Nearest(ahead) ==
    CHOOSE e \in ahead : \A f \in ahead : e.key < f.key \/ (e.key = f.key /\ e.rid <= f.rid)

(* A leaf under a reader. *)
LEMMA AheadRight ==
  ASSUME TreeInv, NEW c, Ordered(c), NEW t \in Thread, at[t] = "next", pages[cursor[t].leaf].kind = "leaf"
  PROVE  /\ cursor[t].leaf \in DOMAIN pages /\ Spot(t) = cursor[t].leaf
         /\ Ahead(t) \subseteq Contents /\ Ahead(t) \subseteq LeafEntry /\ Ahead(t) \subseteq Entries
         /\ Ahead(t) # {} => IsNearest(Nearest(Ahead(t)), Ahead(t))
         /\ \A f \in Sought(t) :
               \/ f \in Ahead(t)
               \/ /\ pages[cursor[t].leaf].next # NoPage
                  /\ pages[cursor[t].leaf].next \in DOMAIN pages
                  /\ c.lo[pages[cursor[t].leaf].next] <= f.key
                  /\ \A e \in Ahead(t) : e.key < f.key
  <1> DEFINE p == cursor[t].leaf
  <1>1. /\ Sound(pages) /\ Linked(pages) /\ Tree(c) /\ Reads(c, t) /\ Sought(t) \subseteq Contents
        /\ Contents \subseteq LeafEntry /\ Contents \subseteq Entries
    BY SoughtRight, ContentsRight DEF TreeInv, Ordered, Reading
  <1>2. Spot(t) = p
    BY DEF Spot
  <1>3. p \in DOMAIN pages
    BY <1>1, <1>2 DEF Reads
  <1>4. Ahead(t) \subseteq Contents
    BY <1>3, ContentsAre DEF Ahead
  <1>5. ASSUME Ahead(t) # {} PROVE IsNearest(Nearest(Ahead(t)), Ahead(t))
    <2> DEFINE keys == {e.key : e \in Ahead(t)}
    <2>1. keys \in SUBSET Nat /\ keys # {}
      BY <1>1, <1>4, <1>5 DEF Entries
    <2>2. Min(keys) \in keys /\ \A k \in keys : Min(keys) <= k
      <3> HIDE DEF keys
      <3>1. QED
        BY <2>1, MinRight
    <2>3. PICK e \in Ahead(t) : e.key = Min(keys)
      BY <2>2
    <2>4. \A f \in Ahead(t) : e.key <= f.key
      BY <2>2, <2>3
    <2> HIDE DEF keys
    <2>5. ASSUME NEW f \in Ahead(t) PROVE e.key < f.key \/ (e.key = f.key /\ e.rid <= f.rid)
      <3>1. e \in Contents /\ f \in Contents /\ e.key \in Nat /\ f.key \in Nat /\ e.rid \in Nat
        BY <1>1, <1>4 DEF Entries
      <3>2. e.key = f.key => e = f
        BY <1>1, <3>1, OneOfKey
      <3>3. QED
        BY <2>4, <3>1, <3>2
    <2>6. QED
      BY <2>5 DEF IsNearest, Nearest
  <1>6. ASSUME NEW f \in Sought(t)
        PROVE  \/ f \in Ahead(t)
               \/ /\ pages[p].next # NoPage /\ pages[p].next \in DOMAIN pages
                  /\ c.lo[pages[p].next] <= f.key
                  /\ \A e \in Ahead(t) : e.key < f.key
    <2>1. f \in Contents /\ c.lo[p] <= f.key /\ Qualifies(f, cursor[t].position)
      BY <1>1, <1>2 DEF Reads
    <2>2. CASE f \in ToSet(pages[p].entries)
      BY <2>1, <2>2 DEF Ahead
    <2>3. CASE f \notin ToSet(pages[p].entries)
      <3>1. /\ pages[p].next # NoPage /\ pages[p].next \in DOMAIN pages
            /\ c.lo[pages[p].next] <= f.key
            /\ \A e \in ToSet(pages[p].entries) : e.key < f.key
        BY <1>1, <1>3, <2>1, <2>3, Looked
      <3>2. QED
        BY <3>1 DEF Ahead
    <2>4. QED
      BY <2>2, <2>3
  <1>7. QED
    BY <1>1, <1>2, <1>3, <1>4, <1>5, <1>6

(* A lookup that finds nothing, and the insert after it. *)
LEMMA ExhaustedOrder ==
  ASSUME OwnKeys, TreeInv, NEW c, Ordered(c), NEW t \in Thread, at[t] = "next", Exhausted(t),
         UNCHANGED <<pages, owed>>,
         call[t].op = "insert" /\ got[t] = <<>> => Sought(t) = {}
  PROVE  Ordered(c)'
  <1>1. /\ Types /\ OrderTypes /\ Told(t) /\ Doing(t) /\ call[t].op \in {"insert", "scan"}
        /\ at[t] # "propagate" /\ at[t] \in Reading
    BY DEF TreeInv, Ordered, Doing, Reading
  <1>2. CASE Returns(t, "end") \/ Returns(t, "refused")
    BY <1>1, <1>2, QuietReturn
  <1>3. CASE call[t].op = "insert" /\ got[t] = <<>>
    <2>1. /\ at' = [at EXCEPT ![t] = "descend"] /\ cursor' = [cursor EXCEPT ![t] = Nowhere]
          /\ UNCHANGED <<call, answer, got, made, held, latch, pending, stale>>
      BY <1>3 DEF Exhausted, Goes
    <2>2. Moved(t, Nowhere.leaf, Nowhere.position)
      BY <1>1, <2>1, MovesRight
    <2>3. /\ at'[t] = "descend"
          /\ \A u \in Thread \ {t} : Same(u) /\ Kept(u)
      <3>1. at'[t] = "descend"
        BY <1>1, <2>1 DEF Types
      <3>2. \A u \in Thread \ {t} : Same(u)
        BY <1>1, <2>1, <2>2, MovedRight DEF Types, Same
      <3>3. QED
        BY <2>1, <3>1, <3>2 DEF Kept
    <2>4. Contents' = Contents
      BY DEF Contents, IsLeaf
    <2>5. \A e \in Contents : e.key # call[t].entry.key
      BY <1>3 DEF Sought
    <2>6. Told(t)'
      <3>1. Answered(t)'
        BY <1>1, <2>1, <2>3 DEF Told, Answered, Reading
      <3>2. QED
        BY <1>1, <2>1, <2>3, <2>4, <2>5, <3>1 DEF Told, Reading
    <2>7. OrderTypes'
      <3>1. cursor'[t].position \in Position
        BY <1>1, <2>2 DEF Moved, Types, Nowhere, Position, Kinds
      <3>2. \A u \in Thread : cursor'[u].position \in Position
        BY <1>1, <2>3, <3>1 DEF OrderTypes, Same
      <3>3. QED
        BY <1>1, <2>1, <3>2 DEF OrderTypes
    <2>8. Guided(c, t)'
      <3>1. held'[t] = <<>>
        BY <1>1, <2>1 DEF Doing
      <3>2. QED
        BY <2>3, <3>1 DEF Guided, Writes, Reading
    <2>9. pages' = pages /\ at'[t] # "propagate"
      BY <2>3
    <2>10. QED
      BY <1>1, <2>3, <2>6, <2>7, <2>8, <2>9, QuietOrder
  <1>4. QED
    BY <1>1, <1>2, <1>3 DEF Exhausted

(* What is behind an entry that qualifies does so, too. *)
LEMMA QualifiesOn ==
  ASSUME NEW lower \in Bounds, NEW e \in Entries, NEW f \in Entries, e.key <= f.key, Qualifies(e, lower)
  PROVE  Qualifies(f, lower)
  <1>1. lower.kind \in {"unbounded", "included", "excluded"} /\ lower.key \in Nat
        /\ e.key \in Nat /\ f.key \in Nat
    BY DEF Bounds, Entries
  <1>2. CASE lower.kind = "unbounded"
    BY <1>2 DEF Qualifies
  <1>3. CASE lower.kind = "included"
    BY <1>1, <1>3 DEF Qualifies
  <1>4. CASE lower.kind = "excluded"
    BY <1>1, <1>4 DEF Qualifies
  <1>5. QED
    BY <1>1, <1>2, <1>3, <1>4

(* The bounds of a call. *)
LEMMA BoundsRight ==
  ASSUME NEW t \in Thread, NEW n, NEW c, <<t, n, c>> \in Calls
  PROVE  /\ LowerOf(c) \in Bounds /\ LowerOf(c) \in Position /\ UpperOf(c) \in Bounds
         /\ c.op \in {"scan", "insert", "delete"}
         /\ c.op # "scan" => c.entry.key \in Nat /\ LowerOf(c) = From(c.entry.key)
                             /\ UpperOf(c) = From(c.entry.key)
  <1> DEFINE triple == <<t, n, c>>
  <1>1. triple \in Calls /\ triple[3] = c
    OBVIOUS
  <1> HIDE DEF triple
  <1>2. \/ c.op = "scan" /\ c.lower \in Bounds /\ c.upper \in Bounds
        \/ c.op \in {"insert", "delete"} /\ c.entry \in [key : DOMAIN KeyLen, rid : Nat]
    BY <1>1, CallsAssumption
  <1>3. \A b \in Bounds : b \in Position
    BY DEF Bounds, Position, Kinds
  <1>4. CASE c.op = "scan"
    BY <1>2, <1>3, <1>4 DEF LowerOf, UpperOf
  <1>5. CASE c.op # "scan"
    <2>1. c.entry.key \in Nat /\ c.op \in {"insert", "delete"}
      BY <1>2, <1>5, PayloadAssumption
    <2>2. From(c.entry.key) \in Bounds
      BY <2>1 DEF From, Bounds
    <2>3. QED
      BY <1>3, <1>5, <2>1, <2>2 DEF LowerOf, UpperOf
  <1>6. QED
    BY <1>4, <1>5

(* An entry behind what was asked for is behind the lower bound, and no    *)
(* earlier than anything yielded so far.                                   *)
LEMMA YieldRight ==
  ASSUME TreeInv, NEW c, Ordered(c), NEW t \in Thread, at[t] = "next",
         pages[cursor[t].leaf].kind = "leaf", NEW e \in Ahead(t)
  PROVE  /\ e \in Contents /\ e \in LeafEntry /\ e \in Entries /\ Qualifies(e, cursor[t].position)
         /\ Qualifies(e, LowerOf(call[t]))
         /\ call[t].op = "scan" => \A g \in ToSet(got[t]) : g \in LeafEntry /\ g.key <= e.key
  <1>1. /\ e \in Contents /\ e \in LeafEntry /\ e \in Entries /\ Qualifies(e, cursor[t].position)
        /\ Reads(c, t) /\ Told(t) /\ OrderTypes
    BY AheadRight, SoughtRight DEF Ahead, Reading, Ordered
  <1>2. Qualifies(e, LowerOf(call[t]))
    BY <1>1 DEF Reads
  <1>3. ASSUME call[t].op = "scan", NEW g \in ToSet(got[t]) PROVE g \in LeafEntry /\ g.key <= e.key
    <2>1. g \in LeafEntry
      BY <1>1 DEF OrderTypes, ToSet
    <2>2. got[t] # <<>>
      BY DEF ToSet
    <2>3. cursor[t].position.kind \in {"included", "after"} /\ g.key <= cursor[t].position.key
      BY <1>1, <1>3, <2>2 DEF Told, Scans, Reading
    <2>4. cursor[t].position.key \in Nat /\ g.key \in Nat /\ e.key \in Nat
      BY <1>1, <2>1, EntriesRight DEF OrderTypes, Position, Entries
    <2>5. e.key >= cursor[t].position.key
      <3>1. CASE cursor[t].position.kind = "included"
        BY <1>1, <3>1 DEF Qualifies
      <3>2. CASE cursor[t].position.kind = "after"
        BY <1>1, <2>4, <3>2 DEF Qualifies
      <3>3. QED
        BY <2>3, <3>1, <3>2
    <2>6. QED
      BY <2>1, <2>3, <2>4, <2>5
  <1>4. QED
    BY <1>1, <1>2, <1>3

(* What next yields. *)
LEMMA YieldOrder ==
  ASSUME TreeInv, NEW c, Ordered(c), NEW t \in Thread, at[t] = "next",
         pages[cursor[t].leaf].kind = "leaf", NEW e, IsNearest(e, Ahead(t)),
         ~ Beyond(e.key, UpperOf(call[t])),
         got' = [got EXCEPT ![t] = Append(@, e)],
         cursor' = [cursor EXCEPT ![t].position = [kind |-> "after", key |-> e.key, rid |-> e.rid]],
         UNCHANGED <<pages, call, answer, owed, made, at, held, latch, pending, stale>>
  PROVE  Ordered(c)'
  <1> DEFINE position == [kind |-> "after", key |-> e.key, rid |-> e.rid]
             lower == LowerOf(call[t])
  <1>1. /\ Types /\ OrderTypes /\ Told(t) /\ Doing(t) /\ Sound(pages) /\ Tree(c) /\ Reads(c, t)
        /\ at[t] \in Reading /\ call[t].op \in {"insert", "scan"} /\ <<t, made[t], call[t]>> \in Calls
        /\ Sought(t) \subseteq Entries
    <2>1. at[t] \in Reading
      BY DEF Reading
    <2>2. QED
      BY <2>1, SoughtRight DEF TreeInv, Ordered, Doing, Told
  <1>2. /\ e \in Ahead(t) /\ e \in Contents /\ e \in LeafEntry /\ e \in Entries
        /\ Qualifies(e, lower) /\ e.key \in Nat /\ e.rid \in Nat
    BY YieldRight DEF IsNearest, Entries
  <1>3. /\ lower \in Bounds
        /\ call[t].op = "insert" => /\ call[t].entry.key \in Nat /\ lower = From(call[t].entry.key)
                                    /\ UpperOf(call[t]) = From(call[t].entry.key)
    BY <1>1, BoundsRight
  <1>4. position \in Position
    BY <1>2 DEF Position, Kinds
  <1>5. Moved(t, cursor[t].leaf, position)
    BY <1>1, MovesRight
  <1>6. cursor'[t].leaf = cursor[t].leaf /\ cursor'[t].position = position
    BY <1>1, <1>5 DEF Moved, Types
  <1> DEFINE more == Append(got[t], e)
  <1>7. /\ got'[t] = more /\ more \in Seq(LeafEntry) /\ more # <<>> /\ Last(more) = e
        /\ ToSet(more) = ToSet(got[t]) \cup {e}
    <2>1. got[t] \in Seq(LeafEntry) /\ got'[t] = more
      BY <1>1 DEF OrderTypes
    <2> DEFINE s == got[t]
    <2>2. /\ more \in Seq(LeafEntry) /\ Len(more) = Len(s) + 1 /\ more[Len(s) + 1] = e
          /\ DOMAIN s = 1..Len(s) /\ Len(s) \in Nat
          /\ DOMAIN more = 1..(Len(s) + 1) /\ \A i \in 1..Len(s) : more[i] = s[i]
      BY <1>2, <2>1
    <2> HIDE DEF s, more
    <2>3. more # <<>> /\ Last(more) = e
      BY <2>2 DEF Last
    <2>4. ToSet(more) = ToSet(s) \cup {e}
      <3>1. \A i \in 1..(Len(s) + 1) : i \in 1..Len(s) \/ i = Len(s) + 1
        BY <2>2
      <3>2. \A i \in 1..Len(s) : i \in 1..(Len(s) + 1)
        BY <2>2
      <3>3. Len(s) + 1 \in 1..(Len(s) + 1)
        BY <2>2
      <3>4. QED
        BY <2>2, <3>1, <3>2, <3>3 DEF ToSet
    <2>5. QED
      BY <2>1, <2>2, <2>3, <2>4 DEF s
  <1> HIDE DEF more, position
  <1>8. \A u \in Thread \ {t} : Same(u) /\ Kept(u)
    BY <1>1, <1>5, MovedRight DEF Types, OrderTypes, Same, Kept
  <1>9. Contents' = Contents
    BY DEF Contents, IsLeaf
  <1>10. position.kind = "after" /\ position.key = e.key /\ position.rid = e.rid
    BY DEF position
  <1>11. call[t].op = "scan" => Scans(t)'
    <2> SUFFICES ASSUME call[t].op = "scan" PROVE Scans(t)'
      OBVIOUS
    <2>1. Scans(t) /\ owed[t] \subseteq Contents
      BY <1>1 DEF Told
    <2>2. \A f \in owed[t] : f.key = e.key => f = e
      BY <1>1, <1>2, <2>1, OneOfKey
    <2>3. \A g \in ToSet(got[t]) : g.key <= e.key
      BY <1>2, YieldRight
    <2>4. \A f \in owed[t], g \in ToSet(more) : f.key = g.key => f = g
      BY <1>7, <2>1, <2>2 DEF Scans
    <2>5. \A g \in ToSet(more) : g.key <= e.key
      BY <1>2, <1>7, <2>3
    <2>6. QED
      BY <1>6, <1>7, <1>10, <2>4, <2>5 DEF Scans
  <1>12. call[t].op = "insert" => e.key = call[t].entry.key
    <2> SUFFICES ASSUME call[t].op = "insert" PROVE e.key = call[t].entry.key
      OBVIOUS
    <2>1. Qualifies(e, From(call[t].entry.key)) /\ ~ Beyond(e.key, From(call[t].entry.key))
      BY <1>2, <1>3
    <2>2. e.key >= call[t].entry.key /\ ~ (e.key > call[t].entry.key)
      BY <2>1 DEF Qualifies, Beyond, From
    <2>3. QED
      BY <1>2, <1>3, <2>2
  <1>13. Told(t)'
    <2>1. Answered(t)'
      BY <1>1 DEF Told, Answered
    <2>2. at[t] \notin {"descend", "erase"}
      OBVIOUS
    <2>3. call[t].op = "insert" => \E f \in Contents : f.key = call[t].entry.key
      BY <1>2, <1>12
    <2>4. QED
      BY <1>1, <1>9, <1>11, <2>1, <2>2, <2>3 DEF Told
  <1>14. OrderTypes'
    <2>1. got' \in [Thread -> Seq(LeafEntry)]
      BY <1>1, <1>7 DEF OrderTypes
    <2>2. \A u \in Thread : cursor'[u].position \in Position
      BY <1>1, <1>4, <1>6, <1>8 DEF OrderTypes, Same
    <2>3. QED
      BY <1>1, <2>1, <2>2 DEF OrderTypes
  <1>15. Reads(c, t)'
    <2>1. Spot(t)' = Spot(t) /\ Spot(t) \in DOMAIN pages
      BY <1>1, <1>6 DEF Spot, Reads
    <2>2. ASSUME NEW f \in Sought(t)' PROVE c.lo[Spot(t)] <= f.key /\ Qualifies(f, position)
      <3>1. call[t].op = "scan"
        <4>1. call[t].op = "insert" => Sought(t)' = {}
          BY <1>7 DEF Sought
        <4>2. QED
          BY <1>1, <2>2, <4>1
      <3>2. f \in Sought(t) /\ f # e
        BY <1>7, <2>2, <3>1 DEF Sought
      <3>3. f \in Entries /\ f.key \in Nat
        BY <1>1, <3>2 DEF Entries
      <3>4. e.key < f.key
        <4>1. CASE f \in Ahead(t)
          <5>1. e.key < f.key \/ e.key = f.key
            BY <4>1 DEF IsNearest
          <5>2. f \in Contents
            BY <4>1, AheadRight
          <5>3. e.key # f.key
            BY <1>1, <1>2, <3>2, <5>2, OneOfKey
          <5>4. QED
            BY <5>1, <5>3
        <4>2. CASE f \notin Ahead(t)
          BY <1>2, <3>2, <4>2, AheadRight
        <4>3. QED
          BY <4>1, <4>2
      <3>5. Qualifies(f, position)
        BY <1>2, <1>10, <3>3, <3>4 DEF Qualifies
      <3>6. QED
        BY <1>1, <3>2, <3>5 DEF Reads
    <2>3. ASSUME NEW f \in Entries, Qualifies(f, position) PROVE Qualifies(f, lower)
      <3>1. f.key \in Nat /\ e.key <= f.key
        <4>1. f.key > e.key \/ f.key = e.key
          BY <1>10, <2>3 DEF Qualifies
        <4>2. f.key \in Nat
          BY DEF Entries
        <4>3. QED
          BY <1>2, <4>1, <4>2
      <3> HIDE DEF lower
      <3>2. QED
        BY <1>2, <1>3, <3>1, QualifiesOn
    <2>4. QED
      BY <1>6, <2>1, <2>2, <2>3 DEF Reads
  <1>16. Guided(c, t)' /\ at[t] # "propagate" /\ at'[t] # "propagate" /\ pages' = pages
    BY <1>15 DEF Guided
  <1>17. QED
    BY <1>8, <1>13, <1>14, <1>16, QuietOrder

(* next follows a link. *)
LEMMA NextLeafOrder ==
  ASSUME TreeInv, NEW c, Ordered(c), NEW t \in Thread, at[t] = "next",
         pages[cursor[t].leaf].kind = "leaf", Ahead(t) = {}, pages[cursor[t].leaf].next # NoPage,
         cursor' = [cursor EXCEPT ![t] = [leaf |-> pages[cursor[t].leaf].next,
                                          position |-> Carried(@.position)]],
         UNCHANGED <<pages, call, answer, got, owed, made, at, held, latch, pending, stale>>
  PROVE  Ordered(c)'
  <1> DEFINE leaf == pages[cursor[t].leaf].next
             old == cursor[t].position
             position == Carried(old)
             lower == LowerOf(call[t])
  <1>1. /\ Types /\ OrderTypes /\ Told(t) /\ Sound(pages) /\ Linked(pages) /\ Tree(c) /\ Reads(c, t)
        /\ at[t] \in Reading /\ call[t].op \in {"scan", "insert", "delete"}
        /\ <<t, made[t], call[t]>> \in Calls /\ Sought(t) \subseteq Entries
    <2>1. at[t] \in Reading
      BY DEF Reading
    <2>2. QED
      BY <2>1, SoughtRight DEF TreeInv, Ordered, Told
  <1>2. lower \in Bounds /\ old \in Position /\ old.key \in Nat /\ old.rid \in Nat
    BY <1>1, BoundsRight DEF OrderTypes, Position
  <1>3. Moved(t, leaf, position)
    BY <1>1 DEF Moved
  <1>4. cursor'[t].leaf = leaf /\ cursor'[t].position = position
    BY <1>1, <1>3 DEF Moved, Types
  <1>5. leaf \in DOMAIN pages
    <2>1. cursor[t].leaf \in DOMAIN pages
      BY AheadRight
    <2>2. QED
      BY <1>1, <2>1 DEF Linked, LinkRight
  <1>6. \/ old.kind = "after" /\ position = From(old.key)
        \/ old.kind # "after" /\ position = old
    BY DEF Carried
  <1>7. position \in Position
    BY <1>2, <1>6, PositionsRight
  <1>8. \A u \in Thread \ {t} : Same(u) /\ Kept(u)
    BY <1>1, <1>3, MovedRight DEF Types, OrderTypes, Same, Kept
  <1>9. Contents' = Contents
    BY DEF Contents, IsLeaf
  <1> HIDE DEF position, old, lower, leaf
  <1>10. ASSUME NEW f \in Sought(t) PROVE c.lo[leaf] <= f.key /\ Qualifies(f, position)
    <2>1. c.lo[leaf] <= f.key
      <3>1. f \notin Ahead(t)
        OBVIOUS
      <3>2. QED
        BY <3>1, AheadRight DEF leaf
    <2>2. Qualifies(f, old) /\ f.key \in Nat
      BY <1>1 DEF Reads, Entries, old
    <2>3. CASE old.kind = "after" /\ position = From(old.key)
      <3>1. f.key >= old.key
        BY <1>2, <2>2, <2>3 DEF Qualifies
      <3>2. QED
        BY <2>1, <2>3, <3>1 DEF Qualifies, From
    <2>4. QED
      BY <1>6, <2>1, <2>2, <2>3
  <1>11. ASSUME NEW f \in Entries, Qualifies(f, position) PROVE Qualifies(f, lower)
    <2>1. CASE old.kind = "after" /\ position = From(old.key)
      <3> DEFINE g == [key |-> old.key, rid |-> old.rid + 1]
      <3>1. g \in Entries /\ g.key = old.key /\ g.rid = old.rid + 1
        BY <1>2 DEF Entries
      <3>2. f.key >= old.key /\ f.key \in Nat
        BY <1>11, <2>1 DEF Qualifies, From, Entries
      <3> HIDE DEF g
      <3>3. Qualifies(g, old)
        <4>1. g.rid > old.rid
          BY <1>2, <3>1
        <4>2. QED
          BY <2>1, <3>1, <4>1 DEF Qualifies
      <3>4. Qualifies(g, lower)
        BY <1>1, <3>1, <3>3 DEF Reads, old, lower
      <3>5. g.key <= f.key
        BY <1>2, <3>1, <3>2
      <3>6. QED
        BY <1>2, <3>1, <3>4, <3>5, QualifiesOn
    <2>2. CASE old.kind # "after" /\ position = old
      BY <1>1, <1>11, <2>2 DEF Reads, old, lower
    <2>3. QED
      BY <1>6, <2>1, <2>2
  <1>12. Reads(c, t)'
    <2>1. Spot(t)' = leaf
      BY <1>4 DEF Spot
    <2>2. Sought(t)' = Sought(t) /\ LowerOf(call'[t]) = lower
      BY <1>9 DEF Sought, lower
    <2>3. QED
      BY <1>4, <1>5, <1>10, <1>11, <2>1, <2>2 DEF Reads
  <1>13. Told(t)'
    <2>1. Answered(t)'
      BY <1>1 DEF Told, Answered
    <2>2. Scans(t) => Scans(t)'
      <3>1. old.kind \in {"included", "after"} => position.kind = "included" /\ position.key = old.key
        BY <1>6 DEF From
      <3>2. QED
        BY <1>4, <3>1 DEF Scans, old
    <2>3. at[t] \notin {"descend", "erase"}
      OBVIOUS
    <2>4. QED
      BY <1>1, <1>9, <2>1, <2>2, <2>3 DEF Told
  <1>14. OrderTypes'
    <2>1. \A u \in Thread : cursor'[u].position \in Position
      BY <1>1, <1>4, <1>7, <1>8 DEF OrderTypes, Same
    <2>2. QED
      BY <1>1, <2>1 DEF OrderTypes
  <1>15. Guided(c, t)' /\ at[t] # "propagate" /\ at'[t] # "propagate" /\ pages' = pages
    BY <1>12 DEF Guided
  <1>16. QED
    BY <1>8, <1>13, <1>14, <1>15, QuietOrder

(* The cases of next. *)
LEMMA NextCases ==
  ASSUME TreeInv, NEW t \in Thread, NextEntry(t)
  PROVE  /\ at[t] = "next" /\ pages[cursor[t].leaf].kind = "leaf" /\ UNCHANGED <<pages, owed>>
         /\ \/ /\ Ahead(t) # {} /\ Beyond(Nearest(Ahead(t)).key, UpperOf(call[t]))
               /\ Exhausted(t)
            \/ /\ Ahead(t) # {} /\ ~ Beyond(Nearest(Ahead(t)).key, UpperOf(call[t]))
               /\ got' = [got EXCEPT ![t] = Append(@, Nearest(Ahead(t)))]
               /\ cursor' = [cursor EXCEPT ![t].position =
                                [kind |-> "after", key |-> Nearest(Ahead(t)).key,
                                 rid |-> Nearest(Ahead(t)).rid]]
               /\ UNCHANGED <<call, answer, made, at, held, latch, pending, stale>>
            \/ Ahead(t) = {} /\ pages[cursor[t].leaf].next = NoPage /\ Exhausted(t)
            \/ /\ Ahead(t) = {} /\ pages[cursor[t].leaf].next # NoPage
               /\ cursor' = [cursor EXCEPT ![t] =
                                [leaf |-> pages[cursor[t].leaf].next,
                                 position |-> Carried(@.position)]]
               /\ UNCHANGED <<call, answer, got, made, at, held, latch, pending, stale>>
  BY DEF NextEntry, Ahead, Nearest, IsLeaf

(* When next comes to its end, nothing is left that it was to find. *)
LEMMA NothingLeft ==
  ASSUME TreeInv, NEW c, Ordered(c), NEW t \in Thread, at[t] = "next",
         pages[cursor[t].leaf].kind = "leaf",
         \/ Ahead(t) # {} /\ Beyond(Nearest(Ahead(t)).key, UpperOf(call[t]))
         \/ Ahead(t) = {} /\ pages[cursor[t].leaf].next = NoPage
  PROVE  Sought(t) = {}
  <1> SUFFICES ASSUME NEW f \in Sought(t) PROVE FALSE
    OBVIOUS
  <1>1. /\ f \in Contents /\ Told(t) /\ call[t].op \in {"scan", "insert", "delete"} /\ f \in Entries
        /\ <<t, made[t], call[t]>> \in Calls /\ Doing(t)
    BY SoughtRight DEF Ordered, Told, Reading, TreeInv
  <1> DEFINE e == Nearest(Ahead(t))
             upper == UpperOf(call[t])
  <1>2. /\ upper \in Bounds /\ f.key \in Nat
        /\ call[t].op = "insert" => call[t].entry.key \in Nat /\ upper = From(call[t].entry.key)
    BY <1>1, BoundsRight DEF Entries
  <1>3. ~ Beyond(f.key, upper)
    <2>1. CASE call[t].op = "scan"
      BY <1>1, <2>1 DEF Sought, Told
    <2>2. CASE call[t].op = "insert"
      <3>1. f.key = call[t].entry.key
        BY <2>2 DEF Sought
      <3>2. QED
        <4>1. Beyond(f.key, From(call[t].entry.key)) <=> f.key > call[t].entry.key
          BY DEF Beyond, From
        <4>2. ~ (f.key > call[t].entry.key)
          BY <1>2, <3>1
        <4>3. QED
          BY <1>2, <2>2, <4>1, <4>2
    <2>3. QED
      BY <1>1, <2>1, <2>2 DEF Doing
  <1>4. CASE Ahead(t) # {}
    <2>1. e \in Ahead(t) /\ Beyond(e.key, upper) /\ \A g \in Ahead(t) : e.key < g.key \/ e.key = g.key
      BY <1>4, AheadRight DEF IsNearest
    <2>2. e.key \in Nat
      BY <2>1, AheadRight DEF Entries
    <2> HIDE DEF e, upper
    <2>3. e.key <= f.key
      <3>1. f \in Ahead(t) \/ \A g \in Ahead(t) : g.key < f.key
        BY AheadRight
      <3>2. QED
        BY <1>2, <2>1, <2>2, <3>1
    <2>4. upper.kind \in {"unbounded", "included", "excluded"} /\ upper.key \in Nat
      BY <1>2 DEF Bounds
    <2>5. CASE upper.kind = "unbounded"
      BY <2>1, <2>5 DEF Beyond
    <2>6. CASE upper.kind = "included"
      BY <1>2, <1>3, <2>1, <2>2, <2>3, <2>4, <2>6 DEF Beyond
    <2>7. CASE upper.kind = "excluded"
      BY <1>2, <1>3, <2>1, <2>2, <2>3, <2>4, <2>7 DEF Beyond
    <2>8. QED
      BY <2>4, <2>5, <2>6, <2>7
  <1>5. CASE Ahead(t) = {}
    <2>1. pages[cursor[t].leaf].next = NoPage
      BY <1>5
    <2>2. QED
      BY <1>5, <2>1, AheadRight
  <1>6. QED
    BY <1>4, <1>5

(* One look at a leaf. *)
LEMMA NextOrder ==
  ASSUME OwnKeys, TreeInv, NEW c, Ordered(c), NEW t \in Thread, NextEntry(t)
  PROVE  Ordered(c)'
  <1>1. at[t] = "next" /\ pages[cursor[t].leaf].kind = "leaf" /\ UNCHANGED <<pages, owed>>
    BY NextCases
  <1>2. CASE /\ Ahead(t) # {} /\ ~ Beyond(Nearest(Ahead(t)).key, UpperOf(call[t]))
             /\ got' = [got EXCEPT ![t] = Append(@, Nearest(Ahead(t)))]
             /\ cursor' = [cursor EXCEPT ![t].position =
                                [kind |-> "after", key |-> Nearest(Ahead(t)).key,
                                 rid |-> Nearest(Ahead(t)).rid]]
             /\ UNCHANGED <<call, answer, made, at, held, latch, pending, stale>>
    <2> DEFINE e == Nearest(Ahead(t))
    <2>1. IsNearest(e, Ahead(t))
      BY <1>1, <1>2, AheadRight
    <2>2. /\ ~ Beyond(e.key, UpperOf(call[t])) /\ got' = [got EXCEPT ![t] = Append(@, e)]
          /\ cursor' = [cursor EXCEPT ![t].position = [kind |-> "after", key |-> e.key, rid |-> e.rid]]
          /\ UNCHANGED <<pages, call, answer, owed, made, at, held, latch, pending, stale>>
      BY <1>1, <1>2
    <2> HIDE DEF e
    <2>3. QED
      BY <1>1, <2>1, <2>2, YieldOrder
  <1>3. CASE /\ Ahead(t) = {} /\ pages[cursor[t].leaf].next # NoPage
             /\ cursor' = [cursor EXCEPT ![t] =
                                [leaf |-> pages[cursor[t].leaf].next,
                                 position |-> Carried(@.position)]]
             /\ UNCHANGED <<call, answer, got, made, at, held, latch, pending, stale>>
    BY <1>1, <1>3, NextLeafOrder
  <1>4. CASE /\ \/ Ahead(t) # {} /\ Beyond(Nearest(Ahead(t)).key, UpperOf(call[t]))
                \/ Ahead(t) = {} /\ pages[cursor[t].leaf].next = NoPage
             /\ Exhausted(t)
    <2>1. Sought(t) = {}
      BY <1>1, <1>4, NothingLeft
    <2>2. QED
      BY <1>1, <1>4, <2>1, ExhaustedOrder
  <1>5. QED
    BY <1>2, <1>3, <1>4, NextCases

(* A call begins. *)
LEMMA CallOrder ==
  ASSUME OwnKeys, TreeInv, NEW c, Ordered(c), NEW t \in Thread, NEW k, Call(t, k)
  PROVE  Ordered(c)'
  <1> DEFINE lower == LowerOf(k)
             n == made[t] + 1
  <1>1. /\ at[t] = "idle" /\ <<t, n, k>> \in Calls
        /\ call' = [call EXCEPT ![t] = k] /\ answer' = [answer EXCEPT ![t] = "none"]
        /\ got' = [got EXCEPT ![t] = <<>>]
        /\ owed' = [owed EXCEPT ![t] = IF k.op = "scan" THEN InRange(k) ELSE {}]
        /\ made' = [made EXCEPT ![t] = @ + 1]
        /\ at' = [at EXCEPT ![t] = "seek"]
        /\ cursor' = [cursor EXCEPT ![t].position = lower]
        /\ UNCHANGED <<pages, held, latch, pending, stale>>
    BY DEF Call, Goes, OwnKeys
  <1>2. /\ Types /\ OrderTypes /\ Doing(t) /\ Tree(c) /\ Contents \subseteq LeafEntry
        /\ Contents \subseteq Entries
    BY ContentsRight DEF TreeInv, Ordered
  <1>3. /\ lower \in Position /\ k.op \in {"scan", "insert", "delete"}
        /\ k.op # "scan" => k.entry.key \in Nat /\ lower = From(k.entry.key)
    BY <1>1, BoundsRight
  <1>4. InRange(k) \subseteq Contents
    BY DEF InRange
  <1> HIDE DEF lower, n
  <1>5. Moved(t, cursor[t].leaf, lower)
    BY <1>1, <1>2, MovesRight
  <1>6. cursor'[t].position = lower /\ latch'[t] = NoPage /\ at'[t] = "seek" /\ call'[t] = k
    BY <1>1, <1>2, <1>5 DEF Moved, Types, Doing
  <1>7. /\ answer'[t] = "none" /\ got'[t] = <<>> /\ made'[t] = n
        /\ owed'[t] = IF k.op = "scan" THEN InRange(k) ELSE {}
    BY <1>1, <1>2 DEF OrderTypes, n
  <1>8. \A u \in Thread \ {t} : Same(u) /\ Kept(u)
    <2>1. \A u \in Thread \ {t} : Same(u)
      BY <1>1, <1>2, <1>5, MovedRight DEF Types, Same
    <2>2. \A u \in Thread \ {t} : Kept(u)
      BY <1>1, <1>2 DEF OrderTypes, Kept
    <2>3. QED
      BY <2>1, <2>2
  <1>9. Contents' = Contents
    BY <1>1 DEF Contents, IsLeaf
  <1>10. Told(t)'
    <2>1. owed'[t] \subseteq Contents /\ \A f \in owed'[t] : ~ Beyond(f.key, UpperOf(k))
      BY <1>4, <1>7 DEF InRange
    <2>2. Answered(t)'
      BY <1>6, <1>7 DEF Answered
    <2>3. Scans(t)'
      BY <1>7 DEF Scans, ToSet
    <2>4. <<t, made'[t], call'[t]>> \in Calls
      BY <1>1, <1>6, <1>7
    <2>5. QED
      BY <1>6, <1>7, <1>9, <2>1, <2>2, <2>3, <2>4 DEF Told
  <1>11. OrderTypes'
    <2>1. made' \in [Thread -> Nat] /\ answer' = [u \in Thread |-> answer'[u]]
      <3>1. made' \in [Thread -> Nat]
        <4>1. made \in [Thread -> Nat] /\ made' = [made EXCEPT ![t] = made[t] + 1]
          BY <1>1, <1>2 DEF OrderTypes
        <4>2. made[t] + 1 \in Nat
          BY <4>1
        <4>3. QED
          BY <4>1, <4>2
      <3>2. answer' = [u \in Thread |-> answer'[u]]
        BY <1>1, <1>2 DEF OrderTypes
      <3>3. QED
        BY <3>1, <3>2
    <2>2. got' \in [Thread -> Seq(LeafEntry)]
      <3>1. <<>> \in Seq(LeafEntry)
        OBVIOUS
      <3>2. QED
        BY <1>1, <1>2, <3>1 DEF OrderTypes
    <2>3. owed' \in [Thread -> SUBSET LeafEntry]
      <3> DEFINE now == IF k.op = "scan" THEN InRange(k) ELSE {}
      <3>1. now \in SUBSET LeafEntry
        BY <1>2, <1>4
      <3>2. owed' = [owed EXCEPT ![t] = now]
        BY <1>1
      <3> HIDE DEF now
      <3>3. QED
        BY <1>2, <3>1, <3>2 DEF OrderTypes
    <2>4. \A u \in Thread : cursor'[u].position \in Position
      BY <1>2, <1>3, <1>6, <1>8 DEF OrderTypes, Same
    <2>5. QED
      BY <2>1, <2>2, <2>3, <2>4 DEF OrderTypes
  <1>12. Reads(c, t)'
    <2>1. Spot(t)' = Root
      BY <1>6 DEF Spot
    <2>2. Root \in DOMAIN pages /\ c.lo[Root] = 0
      BY <1>2 DEF Tree, Rooted
    <2>3. ASSUME NEW f \in Sought(t)' PROVE f.key \in Nat /\ Qualifies(f, lower)
      <3>1. f \in Contents
        <4>1. CASE k.op = "scan"
          BY <1>4, <1>6, <1>7, <2>3, <4>1 DEF Sought
        <4>2. CASE k.op # "scan"
          BY <1>3, <1>6, <1>9, <2>3, <4>2 DEF Sought
        <4>3. QED
          BY <4>1, <4>2
      <3>2. f.key \in Nat
        BY <1>2, <3>1 DEF Entries
      <3>3. CASE k.op = "scan"
        BY <1>6, <1>7, <2>3, <3>2, <3>3 DEF Sought, InRange, lower
      <3>4. CASE k.op # "scan"
        <4>1. f.key = k.entry.key
          BY <1>3, <1>6, <2>3, <3>4 DEF Sought
        <4>2. QED
          <5>1. Qualifies(f, From(k.entry.key)) <=> f.key >= k.entry.key
            BY DEF Qualifies, From
          <5>2. f.key >= k.entry.key
            BY <3>2, <4>1
          <5>3. QED
            BY <1>3, <3>2, <3>4, <5>1, <5>2
      <3>5. QED
        BY <3>3, <3>4
    <2>4. LowerOf(call'[t]) = lower
      BY <1>6 DEF lower
    <2>5. \A f \in Sought(t)' : c.lo[Root] <= f.key /\ Qualifies(f, lower)
      BY <2>2, <2>3
    <2>6. QED
      BY <1>1, <1>6, <2>1, <2>2, <2>4, <2>5 DEF Reads
  <1>13. Guided(c, t)' /\ at[t] # "propagate" /\ at'[t] # "propagate" /\ pages' = pages
    BY <1>1, <1>6, <1>12 DEF Guided
  <1>14. QED
    BY <1>8, <1>10, <1>11, <1>13, QuietOrder

(* A key that is too long. *)
LEMMA TooLargeOrder ==
  ASSUME TreeInv, NEW c, Ordered(c), NEW t \in Thread, TooLarge(t)
  PROVE  Ordered(c)'
  <1>1. at[t] # "propagate" /\ Returns(t, "too large") /\ UNCHANGED <<pages, owed>>
    BY DEF TooLarge
  <1>2. QED
    BY <1>1, QuietReturn

------------------------------------------------------------------------------
(* Steps of writers.                                                       *)

(* No split is on its way to a page that a thread has a latch on, but to   *)
(* its last one.                                                           *)
LEMMA NotOwed ==
  ASSUME TreeInv, NEW t \in Thread, NEW q \in ToSet(held[t]),
         at[t] # "propagate" \/ q # Last(held[t]), NEW u \in Thread
  PROVE  ~ Owes(u, q)
  <1> SUFFICES ASSUME Owes(u, q) PROVE FALSE
    OBVIOUS
  <1>1. u # t /\ at[u] = "propagate" /\ Doing(u) /\ Exclusive
    BY DEF Owes, TreeInv
  <1>2. held[u] # <<>>
    BY <1>1 DEF Doing
  <1>3. Last(held[u]) \in ToSet(held[u])
    <2>1. PICK h : Levels(h)
      BY DEF TreeInv, Ranked
    <2>2. /\ DOMAIN held[u] = 1..Len(held[u]) /\ Len(held[u]) \in Nat /\ Len(held[u]) # 0
          /\ Last(held[u]) = held[u][Len(held[u])]
      BY <1>2, <2>1, LastLowest
    <2>3. Len(held[u]) \in DOMAIN held[u]
      BY <2>2
    <2>4. QED
      BY <2>2, <2>3 DEF ToSet
  <1>4. QED
    BY <1>1, <1>3 DEF Owes, Exclusive, Apart

(* The children of such a page. *)
LEMMA HeldNode ==
  ASSUME TreeInv, NEW c, Tree(c), NEW t \in Thread, NEW q \in ToSet(held[t]),
         at[t] # "propagate" \/ q # Last(held[t])
  PROVE  /\ q \in DOMAIN pages /\ pages[q].kind = "internal" /\ pages[q] \in NodePage
         /\ Node(c, q, pages[q].first, pages[q].entries)
  <1>1. q \in DOMAIN pages /\ pages[q].kind = "internal"
    BY DEF TreeInv, Doing, ToSet
  <1>2. pages[q] \in NodePage
    BY <1>1, PageRight DEF TreeInv, LeafPage
  <1>3. Meant(q, pages[q].entries)
    BY NotOwed DEF Meant
  <1>4. QED
    BY <1>1, <1>2, <1>3 DEF Tree

(* A thread that stays where it is, while another changes a page that it   *)
(* has no latch on.                                                        *)
LEMMA OtherGuided ==
  ASSUME OwnKeys, TreeInv, NEW c, Ordered(c), NEW d, NEW t \in Thread, at[t] # "idle",
         NEW u \in Thread \ {t}, Same(u), got'[u] = got[u], answer'[u] = answer[u], made'[u] = made[u],
         NEW p, Only(t, p),
         \A q \in DOMAIN pages : /\ q \in DOMAIN pages' /\ d.lo[q] = c.lo[q]
                                 /\ q # p => pages'[q] = pages[q] /\ d.hi[q] = c.hi[q],
         \/ /\ call[t].op = "insert" /\ owed'[u] = owed[u]
            /\ Contents' = Contents \/ Contents' = Contents \cup {call[t].entry}
         \/ /\ call[t].op = "delete" /\ owed'[u] = owed[u] \ {call[t].entry}
            /\ Contents' = Contents \ {call[t].entry}
  PROVE  Told(u)' /\ Guided(d, u)'
  <1>1. /\ Told(u) /\ Told(t) /\ Guided(c, u) /\ Doing(u) /\ at[u] \in Places
        /\ at'[u] = at[u] /\ call'[u] = call[u] /\ held'[u] = held[u] /\ latch'[u] = latch[u]
        /\ cursor'[u] = cursor[u] /\ stale'[u] = stale[u]
    BY DEF TreeInv, Ordered, Same, Types
  <1>2. at[u] # "idle" => call[u].op # "delete" /\ (call[t].op = "delete" => call[u].op # "insert")
    BY DEF TreeInv, Alone, Writing
  <1>3. at[u] # "erase"
    BY <1>1, <1>2 DEF Doing
  <1>4. at[u] # "idle" /\ call[u].op = "insert" =>
           /\ Contents \subseteq Contents'
           /\ \A e \in Contents' : e.key = call[u].entry.key => e \in Contents
    <2> SUFFICES ASSUME at[u] # "idle", call[u].op = "insert"
                 PROVE  /\ Contents \subseteq Contents'
                        /\ \A e \in Contents' : e.key = call[u].entry.key => e \in Contents
      OBVIOUS
    <2>1. call[t].op = "insert" /\ (Contents' = Contents \/ Contents' = Contents \cup {call[t].entry})
      BY <1>2
    <2>2. call[t].entry.key # call[u].entry.key
      <3> DEFINE x == <<t, made[t], call[t]>>
                 y == <<u, made[u], call[u]>>
      <3>1. x \in Calls /\ y \in Calls /\ x[1] = t /\ y[1] = u /\ x[3] = call[t] /\ y[3] = call[u]
        BY <1>1 DEF Told
      <3> HIDE DEF x, y
      <3>2. QED
        BY <2>1, <3>1 DEF OwnKeys
    <2>3. QED
      BY <2>1, <2>2
  <1>5. owed'[u] \subseteq owed[u] /\ owed'[u] \subseteq Contents'
    BY <1>1 DEF Told
  <1>6. Told(u)'
    <2>1. Answered(u)'
      BY <1>1 DEF Told, Answered
    <2>2. at[u] = "descend" => \A e \in Contents' : e.key # call[u].entry.key
      BY <1>1, <1>4 DEF Told, Doing
    <2>3. at[u] \in Reading /\ call[u].op = "scan" => Scans(u)'
      <3>1. at[u] \in Reading /\ call[u].op = "scan" => Scans(u)
        BY <1>1 DEF Told
      <3>2. QED
        BY <1>1, <1>5, <3>1 DEF Scans
    <2>4. at[u] \in Reading /\ call[u].op = "insert" /\ got[u] # <<>> =>
             \E e \in Contents' : e.key = call[u].entry.key
      BY <1>1, <1>4 DEF Told, Reading
    <2>5. call[u].op = "scan" => \A f \in owed'[u] : ~ Beyond(f.key, UpperOf(call[u]))
      BY <1>1, <1>5 DEF Told
    <2>6. at[u] # "idle" => <<u, made[u], call[u]>> \in Calls
      BY <1>1 DEF Told
    <2>7. QED
      BY <1>1, <1>3, <1>5, <2>1, <2>2, <2>3, <2>4, <2>5, <2>6 DEF Told
  <1>7. ASSUME at[u] \in Reading PROVE Reads(d, u)'
    <2>1. Reads(c, u) /\ Spot(u)' = Spot(u) /\ at[u] # "idle" /\ call[u].op \in {"scan", "insert", "delete"}
      BY <1>1, <1>7, SoughtRight DEF Spot, Reading
    <2>2. Sought(u)' \subseteq Sought(u)
      <3>1. CASE call[u].op = "scan"
        BY <1>1, <1>5, <3>1 DEF Sought
      <3>2. CASE call[u].op = "insert"
        BY <1>1, <1>4, <2>1, <3>2 DEF Sought
      <3>3. QED
        BY <1>2, <2>1, <3>1, <3>2
    <2>3. QED
      BY <1>1, <2>1, <2>2 DEF Reads
  <1>8. ASSUME at[u] \in {"descend", "propagate"} PROVE Writes(d, u)'
    <2>1. Writes(c, u)
      BY <1>1, <1>8 DEF Guided
    <2>2. \A i \in DOMAIN held[u] : /\ held[u][i] \in DOMAIN pages /\ held[u][i] # p
                                    /\ pages'[held[u][i]] = pages[held[u][i]]
                                    /\ d.lo[held[u][i]] = c.lo[held[u][i]]
                                    /\ d.hi[held[u][i]] = c.hi[held[u][i]]
      BY <1>1 DEF Doing, Only, ToSet
    <2>3. QED
      BY <1>1, <2>1, <2>2 DEF Writes, Has
  <1>9. QED
    BY <1>1, <1>6, <1>7, <1>8 DEF Guided

InLeaf(pgs, q, e) == pgs[q].kind = "leaf" /\ e \in ToSet(pgs[q].entries)

(* The contents, where a page is replaced by others. *)
LEMMA ContentsWith ==
  ASSUME NEW p \in DOMAIN pages, NEW New, p \in New, DOMAIN pages' = DOMAIN pages \cup New,
         \A q \in DOMAIN pages : q # p => q \notin New /\ pages'[q] = pages[q]
  PROVE  /\ \A e : e \in Contents <=> \/ \E q \in DOMAIN pages \ {p} : InLeaf(pages, q, e)
                                      \/ InLeaf(pages, p, e)
         /\ \A e : e \in Contents' <=> \/ \E q \in DOMAIN pages \ {p} : InLeaf(pages, q, e)
                                       \/ \E q \in New : InLeaf(pages', q, e)
  <1>1. \A e : e \in Contents <=> \E q \in DOMAIN pages : InLeaf(pages, q, e)
    BY DEF Contents, IsLeaf, InLeaf
  <1>2. \A e : e \in Contents' <=> \E q \in DOMAIN pages' : InLeaf(pages', q, e)
    BY DEF Contents, IsLeaf, InLeaf
  <1>3. \A q \in DOMAIN pages \ {p} : \A e : InLeaf(pages', q, e) <=> InLeaf(pages, q, e)
    BY DEF InLeaf
  <1>4. QED
    BY <1>1, <1>2, <1>3

(* A leaf has been written. *)
LEMMA LeafWritten ==
  ASSUME Sound(pages), NEW c, Tree(c), NEW p \in DOMAIN pages, pages[p].kind = "leaf",
         NEW s \in Seq(LeafEntry), Sorted(s), \A e \in ToSet(s) : Has(c, p, e.key),
         pages' = [pages EXCEPT ![p].entries = s],
         \A u \in Thread : \A q \in DOMAIN pages : Owes(u, q)' <=> Owes(u, q),
         \A u \in Thread : at[u] = "propagate" => pending'[u] = pending[u]
  PROVE  /\ Tree(c)' /\ DOMAIN pages' = DOMAIN pages
         /\ \A q \in DOMAIN pages : q # p => pages'[q] = pages[q]
         /\ \A e : InLeaf(pages', p, e) <=> e \in ToSet(s)
  <1>1. /\ pages[p].entries \in Seq(LeafEntry) /\ LeafDrawn(c, p, pages[p])
        /\ pages[p] = Leaf(pages[p].entries, pages[p].next)
    BY LeafRight
  <1>2. /\ DOMAIN pages' = DOMAIN pages /\ pages'[p] = [pages[p] EXCEPT !.entries = s]
        /\ \A q \in DOMAIN pages : q # p => pages'[q] = pages[q]
    OBVIOUS
  <1>3. pages'[p].kind = "leaf" /\ pages'[p].entries = s /\ pages'[p].next = pages[p].next
    BY <1>1, <1>2 DEF Leaf
  <1>4. LeafDrawn(c, p, pages'[p])
    <2>1. \A i \in DOMAIN s : Has(c, p, s[i].key)
      BY DEF ToSet
    <2>2. QED
      BY <1>1, <1>3, <2>1 DEF LeafDrawn
  <1>5. \A q \in DOMAIN pages : Drawn(c, q, pages'[q])
    <2>1. Drawn(c, p, pages'[p])
      BY <1>3, <1>4 DEF Drawn
    <2>2. QED
      BY <1>2, <2>1 DEF Tree
  <1>6. ASSUME NEW q \in DOMAIN pages, NEW r, pages'[q].kind = "internal", Meant(q, r)'
        PROVE  Node(c, q, pages'[q].first, r)
    <2>1. q # p /\ pages'[q] = pages[q] /\ pages[q].kind = "internal"
      BY <1>2, <1>3, <1>6
    <2>2. Meant(q, r)
      BY <1>6, <2>1 DEF Meant, Owes
    <2>3. QED
      BY <2>1, <2>2 DEF Tree
  <1>7. Areas(DOMAIN pages', c) /\ Rooted(DOMAIN pages', c)
    BY <1>2 DEF Tree
  <1>8. Tree(c)'
    BY <1>2, <1>5, <1>6, <1>7 DEF Tree
  <1>9. QED
    BY <1>2, <1>3, <1>8 DEF InLeaf

(* A step that changes one page, or splits it. *)
LEMMA WriteOrder ==
  ASSUME OwnKeys, TreeInv, NEW c, Ordered(c), NEW d, NEW t \in Thread, at[t] # "idle",
         \A u \in Thread \ {t} :
            Same(u) /\ got'[u] = got[u] /\ answer'[u] = answer[u] /\ made'[u] = made[u],
         NEW p, Only(t, p),
         \A q \in DOMAIN pages : /\ q \in DOMAIN pages' /\ d.lo[q] = c.lo[q]
                                 /\ q # p => pages'[q] = pages[q] /\ d.hi[q] = c.hi[q],
         \/ /\ call[t].op = "insert" /\ owed' = owed
            /\ Contents' = Contents \/ Contents' = Contents \cup {call[t].entry}
         \/ /\ call[t].op = "delete" /\ \A u \in Thread : owed'[u] = owed[u] \ {call[t].entry}
            /\ Contents' = Contents \ {call[t].entry},
         Tree(d)', OrderTypes', Told(t)', Guided(d, t)'
  PROVE  Ordered(d)'
  <1>1. ASSUME NEW u \in Thread \ {t} PROVE Told(u)' /\ Guided(d, u)'
    <2>1. \/ /\ call[t].op = "insert" /\ owed'[u] = owed[u]
             /\ Contents' = Contents \/ Contents' = Contents \cup {call[t].entry}
          \/ /\ call[t].op = "delete" /\ owed'[u] = owed[u] \ {call[t].entry}
             /\ Contents' = Contents \ {call[t].entry}
      OBVIOUS
    <2>2. Same(u) /\ got'[u] = got[u] /\ answer'[u] = answer[u] /\ made'[u] = made[u]
      OBVIOUS
    <2>3. QED
      BY <2>1, <2>2, OtherGuided
  <1>2. QED
    BY <1>1 DEF Ordered

(* delete removes the entry, and nothing else. *)
LEMMA EraseOrder ==
  ASSUME OwnKeys, TreeInv, NEW c, Ordered(c), NEW t \in Thread, Erase(t)
  PROVE  /\ Ordered(c)'
         /\ at[t] = "erase" /\ call[t].op = "delete" /\ Returns(t, "deleted")
         /\ call[t].entry \in Contents /\ Contents' = Contents \ {call[t].entry}
         /\ owed' = [u \in Thread |-> owed[u] \ {call[t].entry}]
  <1> DEFINE p == cursor[t].leaf
             e == call[t].entry
             s == stale[t]
             old == pages[p].entries
  <1>1. at[t] = "erase" /\ Writable(p)
    BY DEF Erase
  <1>2. /\ Types /\ OrderTypes /\ Doing(t) /\ Told(t) /\ Tree(c) /\ Sound(pages)
    BY DEF TreeInv, Ordered
  <1>3. /\ p \in DOMAIN pages /\ pages[p].kind = "leaf" /\ call[t].op = "delete" /\ at[t] # "idle"
        /\ e \in ToSet(old) /\ s = RemoveFirst(old, e)
    BY <1>1, <1>2 DEF Doing, Told, Erases
  <1>4. /\ pages' = [pages EXCEPT ![p].entries = s] /\ Returns(t, "deleted")
        /\ owed' = [u \in Thread |-> owed[u] \ {e}]
    BY <1>3 DEF Erase, IsLeaf
  <1>5. /\ old \in Seq(LeafEntry) /\ LeafDrawn(c, p, pages[p]) /\ ToSet(old) \subseteq Contents
        /\ \A f \in ToSet(old) : Has(c, p, f.key)
    BY <1>2, <1>3, LeafRight
  <1>6. Sorted(old) /\ c.level[p] = 0
    BY <1>5 DEF LeafDrawn
  <1> HIDE DEF p, e, s, old
  <1>7. s \in Seq(LeafEntry) /\ Sorted(s) /\ ToSet(s) = ToSet(old) \ {e}
    BY <1>3, <1>5, <1>6, EntriesKeyed, RemoveFirstSorted
  <1>8. \A u \in Thread : owed'[u] = owed[u] \ {e}
    BY <1>4
  <1>9. owed' \in [Thread -> SUBSET LeafEntry]
    BY <1>2, <1>4 DEF OrderTypes
  <1>10. /\ at'[t] = "idle" /\ \A u \in Thread \ {t} : Same(u)
    BY <1>4, ReturnsRight DEF Returns, Goes, TreeInv, Types
  <1>11. \A u \in Thread : \A q \in DOMAIN pages : Owes(u, q)' <=> Owes(u, q)
    BY <1>1, <1>10 DEF Owes, Same
  <1>12. \A u \in Thread : at[u] = "propagate" => pending'[u] = pending[u]
    BY <1>1, <1>10 DEF Same
  <1>13. /\ Tree(c)' /\ DOMAIN pages' = DOMAIN pages
         /\ \A q \in DOMAIN pages : q # p => pages'[q] = pages[q]
         /\ \A f : InLeaf(pages', p, f) <=> f \in ToSet(s)
    <2>1. \A f \in ToSet(s) : Has(c, p, f.key)
      BY <1>5, <1>7
    <2>2. QED
      BY <1>2, <1>3, <1>4, <1>7, <1>11, <1>12, <2>1, LeafWritten
  <1>14. Contents' = Contents \ {e}
    <2>1. /\ \A f : f \in Contents <=> \/ \E q \in DOMAIN pages \ {p} : InLeaf(pages, q, f)
                                       \/ InLeaf(pages, p, f)
          /\ \A f : f \in Contents' <=> \/ \E q \in DOMAIN pages \ {p} : InLeaf(pages, q, f)
                                        \/ InLeaf(pages', p, f)
      <3> DEFINE New == {p}
      <3>1. p \in New /\ DOMAIN pages' = DOMAIN pages \cup New
        BY <1>3, <1>13
      <3>2. \A q \in DOMAIN pages : q # p => q \notin New /\ pages'[q] = pages[q]
        BY <1>13
      <3> HIDE DEF New
      <3>3. /\ \A f : f \in Contents <=> \/ \E q \in DOMAIN pages \ {p} : InLeaf(pages, q, f)
                                         \/ InLeaf(pages, p, f)
            /\ \A f : f \in Contents' <=> \/ \E q \in DOMAIN pages \ {p} : InLeaf(pages, q, f)
                                          \/ \E q \in New : InLeaf(pages', q, f)
        BY <1>3, <3>1, <3>2, ContentsWith
      <3>4. QED
        BY <3>3 DEF New
    <2>2. \A f : InLeaf(pages, p, f) <=> f \in ToSet(old)
      BY <1>3 DEF InLeaf, old
    <2>3. ASSUME NEW q \in DOMAIN pages \ {p}, InLeaf(pages, q, e) PROVE FALSE
      <3>1. /\ pages[q].kind = "leaf" /\ e \in ToSet(pages[q].entries)
        BY <2>3 DEF InLeaf
      <3>2. LeafDrawn(c, q, pages[q]) /\ Has(c, q, e.key)
        BY <1>2, <3>1, LeafRight
      <3>3. Has(c, p, e.key) /\ e.key \in Nat
        BY <1>2, <1>3, <1>5, ContentsRight DEF Entries
      <3>4. c.level[q] = 0
        BY <3>2 DEF LeafDrawn
      <3>5. Areas(DOMAIN pages, c)
        BY <1>2 DEF Tree
      <3>6. p = q
        BY <1>3, <1>6, <3>2, <3>3, <3>4, <3>5, OneHolder
      <3>7. QED
        BY <3>6
    <2>4. QED
      BY <1>7, <1>13, <2>1, <2>2, <2>3
  <1>15. /\ OrderTypes' /\ Told(t)' /\ Guided(c, t)'
         /\ \A u \in Thread \ {t} :
               Same(u) /\ got'[u] = got[u] /\ answer'[u] = answer[u] /\ made'[u] = made[u]
    <2>1. owed'[t] \subseteq owed[t] /\ owed'[t] \subseteq Contents'
      BY <1>2, <1>8, <1>14 DEF Told
    <2>2. QED
      BY <1>2, <1>4, <1>9, <2>1, ReturnsOrder
  <1>16. Only(t, p)
    BY <1>1, OnlyRight
  <1>17. Ordered(c)'
    BY <1>3, <1>8, <1>13, <1>14, <1>15, <1>16, WriteOrder DEF e
  <1>18. e \in Contents
    BY <1>3, <1>5
  <1>19. QED
    BY <1>1, <1>3, <1>4, <1>14, <1>17, <1>18 DEF e

(* The page that an insert goes down to. *)
LEMMA DescendLeads ==
  ASSUME TreeInv, NEW c, Ordered(c), NEW t \in Thread, at[t] = "descend"
  PROVE  LET key == call[t].entry.key
             p == IF held[t] = <<>> THEN Root ELSE ChildFor(pages[Last(held[t])], Towards(key))
         IN  /\ call[t].op = "insert" /\ call[t].entry \in [key : DOMAIN KeyLen, rid : Nat] /\ key \in Nat
             /\ p \in DOMAIN pages /\ Has(c, p, key) /\ p \notin ToSet(held[t])
             /\ held[t] = <<>> => p = Root
             /\ held[t] # <<>> =>
                   LET q == Last(held[t]) IN
                   /\ q \in ToSet(held[t]) /\ q \in DOMAIN pages
                   /\ \E i \in 0..Len(pages[q].entries) : p = Kid(pages[q].first, pages[q].entries, i)
  <1> DEFINE entry == call[t].entry
             key == entry.key
             p == IF held[t] = <<>> THEN Root ELSE ChildFor(pages[Last(held[t])], Towards(key))
             q == Last(held[t])
  <1>1. /\ Types /\ Doing(t) /\ Sound(pages) /\ Tree(c) /\ Writes(c, t)
    BY DEF TreeInv, Ordered, Guided
  <1>2. call[t].op = "insert" /\ entry \in [key : DOMAIN KeyLen, rid : Nat] /\ key \in Nat
    <2>1. call[t].op = "insert" /\ call[t] \in AnyCall
      BY <1>1 DEF Doing, Types
    <2>2. entry \in [key : DOMAIN KeyLen, rid : Nat]
      BY <2>1, CallsRight
    <2>3. \A k \in DOMAIN KeyLen : k \in Nat
      BY PayloadAssumption
    <2>4. QED
      BY <2>1, <2>2, <2>3
  <1>3. CASE held[t] = <<>>
    <2>1. p = Root /\ Root \in DOMAIN pages /\ c.lo[Root] = 0 /\ c.hi[Root] = Open
      BY <1>1, <1>3 DEF Tree, Rooted
    <2>2. Has(c, Root, key)
      BY <1>2, <2>1 DEF Has, Under
    <2>3. ToSet(held[t]) = {}
      BY <1>3 DEF ToSet
    <2> HIDE DEF p, key, entry
    <2>4. QED
      BY <1>2, <1>3, <2>1, <2>2, <2>3 DEF p, key, entry
  <1>4. CASE held[t] # <<>>
    <2>1. PICK h : Levels(h)
      BY DEF TreeInv, Ranked
    <2>2. /\ DOMAIN held[t] = 1..Len(held[t]) /\ Len(held[t]) \in Nat /\ Len(held[t]) # 0
          /\ \A i \in DOMAIN held[t] : h[held[t][i]] \in Nat /\ held[t][i] \in ToSet(held[t])
          /\ q = held[t][Len(held[t])] /\ q \in DOMAIN pages /\ pages[q].kind = "internal"
          /\ \A i \in DOMAIN held[t] : h[q] <= h[held[t][i]]
      BY <1>4, <2>1, LastLowest
    <2>3. Len(held[t]) \in DOMAIN held[t]
      BY <2>2
    <2>4. q \in ToSet(held[t]) /\ Has(c, q, key)
      BY <1>1, <2>2, <2>3 DEF Writes
    <2>5. p = ChildFor(pages[q], Towards(key))
      BY <1>4
    <2> HIDE DEF p, q, key, entry
    <2>6. Node(c, q, pages[q].first, pages[q].entries)
      BY <1>1, <2>4, HeldNode
    <2>7. /\ p \in DOMAIN pages /\ Has(c, p, key)
          /\ \E i \in 0..Len(pages[q].entries) : p = Kid(pages[q].first, pages[q].entries, i)
      BY <1>1, <1>2, <2>2, <2>4, <2>5, <2>6, WriterDown DEF Tree
    <2>8. h[p] < h[q] /\ h[p] \in Nat
      <3>1. h[p] < h[q]
        BY <2>1, <2>2, <2>5, DownRight
      <3>2. QED
        BY <2>1, <2>7, <3>1 DEF Levels, Falls
    <2>9. p \notin ToSet(held[t])
      <3> SUFFICES ASSUME NEW i \in DOMAIN held[t], held[t][i] = p PROVE FALSE
        BY DEF ToSet
      <3>1. h[q] <= h[p] /\ h[q] \in Nat
        BY <2>2, <2>3
      <3>2. QED
        BY <2>8, <3>1
    <2>10. QED
      BY <1>2, <1>4, <2>2, <2>4, <2>7, <2>9 DEF p, q, key, entry
  <1>5. QED
    BY <1>3, <1>4

(* An insert goes down to an internal page. *)
LEMMA DownOrder ==
  ASSUME TreeInv, NEW c, Ordered(c), NEW t \in Thread, at[t] = "descend",
         NEW p, p = IF held[t] = <<>> THEN Root
                    ELSE ChildFor(pages[Last(held[t])], Towards(call[t].entry.key)),
         NEW above, above = <<>> \/ above = held[t],
         held' = [held EXCEPT ![t] = Append(above, p)],
         UNCHANGED <<pages, call, answer, got, owed, made, at, latch, cursor, pending, stale>>
  PROVE  Ordered(c)'
  <1> DEFINE key == call[t].entry.key
             new == Append(above, p)
  <1>1. /\ Types /\ OrderTypes /\ Doing(t) /\ Told(t) /\ Tree(c) /\ Sound(pages) /\ Writes(c, t)
    BY DEF TreeInv, Ordered, Guided
  <1>2. p \in DOMAIN pages /\ Has(c, p, key)
    BY DescendLeads
  <1>3. p \in Nat /\ above \in Seq(Nat)
    <2>1. p \in Nat /\ held[t] \in Seq(Nat)
      BY <1>1, <1>2, PageRight DEF Types
    <2>2. CASE above = <<>>
      BY <2>1, <2>2
    <2>3. CASE above = held[t]
      BY <2>1, <2>3
    <2>4. QED
      BY <2>2, <2>3
  <1>4. /\ new \in Seq(Nat) /\ Len(above) \in Nat /\ DOMAIN above = 1..Len(above)
        /\ DOMAIN new = 1..(Len(above) + 1)
        /\ \A i \in 1..Len(above) : new[i] = above[i]
        /\ new[Len(above) + 1] = p
    BY <1>3
  <1> HIDE DEF new, key
  <1>5. held'[t] = new
    BY <1>1 DEF Types, new
  <1>6. \A i \in 1..Len(above) : above = held[t] /\ i \in DOMAIN held[t] /\ new[i] = held[t][i]
    <2> SUFFICES ASSUME NEW i \in 1..Len(above) PROVE above = held[t]
      BY <1>4
    <2>1. above # <<>>
      BY <1>4
    <2>2. QED
      BY <2>1
  <1>7. \A i \in DOMAIN new : Has(c, new[i], key)
    <2> SUFFICES ASSUME NEW i \in DOMAIN new PROVE Has(c, new[i], key)
      OBVIOUS
    <2>1. i \in 1..Len(above) \/ i = Len(above) + 1
      BY <1>4
    <2>2. CASE i \in 1..Len(above)
      BY <1>1, <1>6, <2>2 DEF Writes, key
    <2>3. CASE i = Len(above) + 1
      BY <1>2, <1>4, <2>3
    <2>4. QED
      BY <2>1, <2>2, <2>3
  <1>8. ASSUME NEW i \in DOMAIN new, i + 1 \in DOMAIN new
        PROVE  new[i + 1] = ChildFor(pages[new[i]], Towards(key))
    <2>1. i \in 1..Len(above)
      BY <1>4, <1>8
    <2>2. above = held[t] /\ i \in DOMAIN held[t] /\ new[i] = held[t][i]
      BY <1>6, <2>1
    <2>3. CASE i = Len(above)
      <3>1. new[i + 1] = p /\ new[i] = Last(held[t]) /\ held[t] # <<>>
        BY <1>4, <2>1, <2>2, <2>3 DEF Last
      <3>2. QED
        BY <3>1 DEF key
    <2>4. CASE i # Len(above)
      <3>1. i + 1 \in 1..Len(above)
        BY <1>4, <2>1, <2>4
      <3>2. i + 1 \in DOMAIN held[t] /\ new[i + 1] = held[t][i + 1]
        BY <1>6, <3>1
      <3>3. QED
        BY <1>1, <2>2, <3>2 DEF Writes, key
    <2>5. QED
      BY <2>3, <2>4
  <1>9. Guided(c, t)'
    <2>1. Writes(c, t)'
      BY <1>5, <1>7, <1>8 DEF Writes, key
    <2>2. at'[t] = "descend"
      OBVIOUS
    <2>3. QED
      BY <2>1, <2>2 DEF Guided, Reading
  <1>10. Contents' = Contents
    BY DEF Contents, IsLeaf
  <1>11. Told(t)'
    BY <1>1, <1>10 DEF Told, Answered, Reading
  <1>12. OrderTypes'
    BY <1>1 DEF OrderTypes
  <1>13. \A u \in Thread \ {t} : Same(u) /\ Kept(u)
    BY <1>1 DEF Types, Same, Kept
  <1>14. QED
    BY <1>9, <1>11, <1>12, <1>13, QuietOrder

(* The entry finds its place in its leaf. *)
LEMMA EntryPlaced ==
  ASSUME TreeInv, NEW c, Ordered(c), NEW t \in Thread, at[t] = "descend", call[t].entry \in LeafEntry,
         NEW p \in DOMAIN pages, pages[p].kind = "leaf", Has(c, p, call[t].entry.key)
  PROVE  LET old == pages[p].entries
             s == InsertSorted(old, call[t].entry)
         IN  /\ old \in Seq(LeafEntry) /\ s \in Seq(LeafEntry) /\ Sorted(s)
             /\ ToSet(s) = ToSet(old) \cup {call[t].entry}
             /\ \A e \in ToSet(s) : Has(c, p, e.key)
  <1> DEFINE old == pages[p].entries
             entry == call[t].entry
             s == InsertSorted(old, entry)
  <1>1. Told(t) /\ Tree(c) /\ Sound(pages)
    BY DEF TreeInv, Ordered
  <1>2. /\ old \in Seq(LeafEntry) /\ LeafDrawn(c, p, pages[p]) /\ ToSet(old) \subseteq Contents
        /\ \A e \in ToSet(old) : Has(c, p, e.key)
    BY <1>1, LeafRight
  <1>3. Sorted(old) /\ Keyed(LeafEntry)
    BY <1>2, EntriesKeyed DEF LeafDrawn
  <1>4. \A i \in DOMAIN old : old[i].key # entry.key
    <2>1. \A e \in ToSet(old) : e.key # entry.key
      BY <1>1, <1>2 DEF Told
    <2>2. QED
      BY <2>1 DEF ToSet
  <1>5. entry \in LeafEntry
    OBVIOUS
  <1> HIDE DEF old, entry
  <1>6. s \in Seq(LeafEntry) /\ \E m : Placed(old, entry, m, s)
    BY <1>2, <1>3, <1>4, <1>5, InsertSortedPlaces
  <1>7. PICK m : Placed(old, entry, m, s)
    BY <1>6
  <1> HIDE DEF s
  <1>8. Sorted(s) /\ ToSet(s) = ToSet(old) \cup {entry}
    BY <1>2, <1>3, <1>5, <1>6, <1>7, PlacedRight
  <1>9. \A e \in ToSet(s) : Has(c, p, e.key)
    BY <1>2, <1>8 DEF entry
  <1>10. QED
    BY <1>2, <1>6, <1>8, <1>9 DEF old, entry, s

(* An insert into a leaf with room. *)
LEMMA InsertOrder ==
  ASSUME OwnKeys, TreeInv, NEW c, Ordered(c), NEW t \in Thread, at[t] = "descend",
         call[t].entry \in LeafEntry,
         NEW p \in DOMAIN pages, pages[p].kind = "leaf", Has(c, p, call[t].entry.key), Only(t, p),
         pages' = [pages EXCEPT ![p].entries = InsertSorted(pages[p].entries, call[t].entry)],
         Returns(t, "inserted"), owed' = owed
  PROVE  Ordered(c)' /\ Contents' = Contents \cup {call[t].entry}
  <1> DEFINE old == pages[p].entries
             entry == call[t].entry
             s == InsertSorted(old, entry)
  <1>1. /\ Types /\ OrderTypes /\ Doing(t) /\ Told(t) /\ Tree(c) /\ Sound(pages)
    BY DEF TreeInv, Ordered
  <1>2. /\ s \in Seq(LeafEntry) /\ Sorted(s) /\ ToSet(s) = ToSet(old) \cup {entry}
        /\ \A e \in ToSet(s) : Has(c, p, e.key)
    BY EntryPlaced
  <1>3. pages' = [pages EXCEPT ![p].entries = s] /\ call[t].op = "insert" /\ at[t] # "idle"
    BY <1>1 DEF Doing
  <1> HIDE DEF s, entry, old
  <1>4. /\ at'[t] = "idle" /\ \A u \in Thread \ {t} : Same(u)
    BY <1>1, ReturnsRight DEF Returns, Goes, Types
  <1>5. \A u \in Thread : \A q \in DOMAIN pages : Owes(u, q)' <=> Owes(u, q)
    BY <1>4 DEF Owes, Same
  <1>6. \A u \in Thread : at[u] = "propagate" => pending'[u] = pending[u]
    BY <1>4 DEF Same
  <1>7. /\ Tree(c)' /\ DOMAIN pages' = DOMAIN pages
        /\ \A q \in DOMAIN pages : q # p => pages'[q] = pages[q]
        /\ \A f : InLeaf(pages', p, f) <=> f \in ToSet(s)
    BY <1>1, <1>2, <1>3, <1>5, <1>6, LeafWritten
  <1>8. Contents' = Contents \cup {entry}
    <2>1. /\ \A f : f \in Contents <=> \/ \E q \in DOMAIN pages \ {p} : InLeaf(pages, q, f)
                                       \/ InLeaf(pages, p, f)
          /\ \A f : f \in Contents' <=> \/ \E q \in DOMAIN pages \ {p} : InLeaf(pages, q, f)
                                        \/ InLeaf(pages', p, f)
      <3> DEFINE New == {p}
      <3>1. p \in New /\ DOMAIN pages' = DOMAIN pages \cup New
        BY <1>7
      <3>2. \A q \in DOMAIN pages : q # p => q \notin New /\ pages'[q] = pages[q]
        BY <1>7
      <3> HIDE DEF New
      <3>3. /\ \A f : f \in Contents <=> \/ \E q \in DOMAIN pages \ {p} : InLeaf(pages, q, f)
                                         \/ InLeaf(pages, p, f)
            /\ \A f : f \in Contents' <=> \/ \E q \in DOMAIN pages \ {p} : InLeaf(pages, q, f)
                                          \/ \E q \in New : InLeaf(pages', q, f)
        BY <3>1, <3>2, ContentsWith
      <3>4. QED
        BY <3>3 DEF New
    <2>2. \A f : InLeaf(pages, p, f) <=> f \in ToSet(old)
      BY DEF InLeaf, old
    <2>3. QED
      BY <1>2, <1>7, <2>1, <2>2
  <1>9. owed' \in [Thread -> SUBSET LeafEntry] /\ owed'[t] \subseteq owed[t] /\ owed'[t] \subseteq Contents'
    BY <1>1, <1>8 DEF OrderTypes, Told
  <1>10. /\ OrderTypes' /\ Told(t)' /\ Guided(c, t)'
         /\ \A u \in Thread \ {t} :
               Same(u) /\ got'[u] = got[u] /\ answer'[u] = answer[u] /\ made'[u] = made[u]
    BY <1>1, <1>9, ReturnsOrder
  <1>11. Ordered(c)'
    BY <1>3, <1>7, <1>8, <1>10, WriteOrder DEF entry
  <1>12. QED
    BY <1>8, <1>11 DEF entry

------------------------------------------------------------------------------
(* Splits.                                                                 *)

\* The halves of p, and the separator between them.
SplitInto(c, p, n, result, left, right) ==
    LET sep == result.split.key IN
    /\ result.split \in NodeEntry /\ result.split = [key |-> sep, child |-> n]
    /\ result.pages = Append([pages EXCEPT ![p] = left], right)
    /\ Between(c, p, sep)
    /\ left.kind = pages[p].kind /\ right.kind = pages[p].kind
    /\ pages[p].kind = "leaf" => left.next = n /\ right.next = pages[p].next
    /\ \A d : Parted(DOMAIN pages, c, p, n, sep, d) =>
          /\ Drawn(d, p, left) /\ Drawn(d, n, right)
          /\ pages[p].kind = "internal" =>
                Node(d, p, left.first, left.entries) /\ Node(d, n, right.first, right.entries)

(* split_leaf *)
LEMMA SplitLeafOrder ==
  ASSUME Sound(pages), Linked(pages), NEW c, Tree(c), NEW p \in DOMAIN pages, pages[p].kind = "leaf",
         NEW s \in Seq(LeafEntry), Sorted(s), \A e \in ToSet(s) : Has(c, p, e.key),
         ~ Fits("leaf", s), RequiredLen("leaf", s) <= PayloadSize + Largest,
         NEW n, n = Len(pages) + 1
  PROVE  \E left, right : /\ SplitInto(c, p, n, SplitLeaf(p, s), left, right)
                          /\ \A e : e \in ToSet(s) <=> e \in ToSet(left.entries) \/ e \in ToSet(right.entries)
  <1> DEFINE mid == SplitPoint("leaf", s)
             a == SubSeq(s, 1, mid)
             b == SubSeq(s, mid + 1, Len(s))
             next == pages[p].next
             left == Leaf(a, n)
             right == Leaf(b, next)
             sep == s[mid + 1].key
             split == [key |-> sep, child |-> n]
             result == SplitLeaf(p, s)
  <1>1. mid \in 1..Len(s) /\ mid + 1 \in 1..Len(s)
    BY EntriesShort, SplitRight
  <1>2. /\ pages[p] \in LeafPage /\ LeafDrawn(c, p, pages[p]) /\ Areas(DOMAIN pages, c)
        /\ n \in Nat /\ n # NoPage
    <2>1. DOMAIN pages = 1..Len(pages) /\ Len(pages) \in Nat /\ pages[p] \in LeafPage
      BY PageRight DEF NodePage
    <2>2. n \in Nat /\ n # NoPage
      BY <2>1 DEF NoPage
    <2>3. QED
      BY <2>1, <2>2, LeafRight DEF Tree
  <1>3. next \in DOMAIN pages \cup {NoPage}
    BY DEF Linked, LinkRight
  <1>4. LeafDrawn(c, p, Leaf(s, next))
    <2>1. \A i \in DOMAIN s : Has(c, p, s[i].key)
      BY DEF ToSet
    <2>2. QED
      BY <1>2, <2>1 DEF LeafDrawn, Leaf
  <1>5. result.pages = Append([pages EXCEPT ![p] = left], right) /\ result.split = split
    BY DEF SplitLeaf
  <1>6. s[mid + 1] \in LeafEntry
    BY <1>1
  <1>7. /\ left.kind = "leaf" /\ left.next = n /\ left.entries = a
        /\ right.kind = "leaf" /\ right.next = next /\ right.entries = b
    BY DEF Leaf
  <1>8. \A e : e \in ToSet(s) <=> e \in ToSet(a) \/ e \in ToSet(b)
    <2>1. mid \in 0..Len(s) /\ mid \in Nat /\ Len(s) \in Nat /\ DOMAIN s = 1..Len(s)
      BY <1>1
    <2>2. /\ a \in Seq(LeafEntry) /\ Len(a) = mid /\ \A i \in 1..mid : a[i] = s[i]
          /\ b \in Seq(LeafEntry) /\ Len(b) = Len(s) - mid /\ \A i \in 1..(Len(s) - mid) : b[i] = s[mid + i]
      BY <2>1, EndsRight
    <2> HIDE DEF a, b, mid
    <2>3. DOMAIN a = 1..mid /\ DOMAIN b = 1..(Len(s) - mid)
      BY <2>2
    <2>4. ASSUME NEW i \in 1..Len(s) PROVE s[i] \in ToSet(a) \/ s[i] \in ToSet(b)
      <3>1. CASE i <= mid
        <4>1. i \in 1..mid
          BY <2>1, <3>1
        <4>2. i \in DOMAIN a /\ a[i] = s[i]
          BY <2>2, <2>3, <4>1
        <4>3. QED
          BY <4>2 DEF ToSet
      <3>2. CASE ~ (i <= mid)
        <4>1. PICK j \in 1..(Len(s) - mid) : mid + j = i
          <5>1. i - mid \in 1..(Len(s) - mid) /\ mid + (i - mid) = i
            BY <2>1, <3>2
          <5>2. QED
            BY <5>1
        <4>2. j \in DOMAIN b /\ b[j] = s[i]
          BY <2>2, <2>3, <4>1
        <4>3. QED
          BY <4>2 DEF ToSet
      <3>3. QED
        BY <3>1, <3>2
    <2>5. ASSUME NEW i \in DOMAIN a PROVE a[i] \in ToSet(s)
      <3>1. i \in DOMAIN s /\ a[i] = s[i]
        BY <2>1, <2>2, <2>3
      <3>2. QED
        BY <3>1 DEF ToSet
    <2>6. ASSUME NEW i \in DOMAIN b PROVE b[i] \in ToSet(s)
      <3>1. mid + i \in 1..Len(s) /\ b[i] = s[mid + i]
        <4>1. i \in 1..(Len(s) - mid)
          BY <2>3
        <4>2. mid + i \in 1..Len(s)
          BY <2>1, <4>1
        <4>3. QED
          BY <2>2, <4>1, <4>2
      <3>2. QED
        BY <2>1, <3>1 DEF ToSet
    <2>7. QED
      BY <2>1, <2>4, <2>5, <2>6 DEF ToSet
  <1>9. /\ sep \in Nat /\ Between(c, p, sep)
        /\ \A d : Parted(DOMAIN pages, c, p, n, sep, d) => LeafDrawn(d, p, left) /\ LeafDrawn(d, n, right)
    <2> HIDE DEF mid, next
    <2>1. QED
      BY <1>1, <1>2, <1>3, <1>4, LeafHalved
  <1>10. split \in NodeEntry
    BY <1>2, <1>6 DEF LeafEntry, NodeEntry
  <1>11. split.key = sep /\ split = [key |-> sep, child |-> n]
    OBVIOUS
  <1> HIDE DEF a, b, mid, next, left, right, sep, split, result
  <1>12. \A d : Parted(DOMAIN pages, c, p, n, sep, d) => Drawn(d, p, left) /\ Drawn(d, n, right)
    BY <1>7, <1>9 DEF Drawn
  <1>13. SplitInto(c, p, n, result, left, right)
    BY <1>5, <1>7, <1>9, <1>10, <1>11, <1>12 DEF SplitInto, next
  <1>14. QED
    BY <1>7, <1>8, <1>13 DEF result

(* split_internal *)
LEMMA SplitInternalOrder ==
  ASSUME Sound(pages), NEW c, Tree(c), NEW p \in DOMAIN pages, pages[p].kind = "internal",
         NEW s, Node(c, p, pages[p].first, s),
         ~ Fits("internal", s), RequiredLen("internal", s) <= PayloadSize + Largest,
         NEW n, n = Len(pages) + 1
  PROVE  \E left, right : SplitInto(c, p, n, SplitInternal(p, s), left, right)
  <1> DEFINE mid == SplitPoint("internal", s)
             a == SubSeq(s, 1, mid)
             b == SubSeq(s, mid + 2, Len(s))
             up == s[mid + 1]
             left == Internal(pages[p].first, a)
             right == Internal(up.child, b)
             sep == up.key
             split == [key |-> sep, child |-> n]
             result == SplitInternal(p, s)
  <1>0. s \in Seq(NodeEntry)
    BY DEF Node
  <1>1. mid \in 1..Len(s) /\ mid + 1 \in 1..Len(s)
    BY <1>0, EntriesShort, SplitRight
  <1>2. Areas(DOMAIN pages, c) /\ n \in Nat
    <2>1. DOMAIN pages = 1..Len(pages) /\ Len(pages) \in Nat
      BY PageRight
    <2>2. QED
      BY <2>1 DEF Tree
  <1>5. result.pages = Append([pages EXCEPT ![p] = left], right) /\ result.split = split
    BY DEF SplitInternal
  <1>6. up \in NodeEntry
    BY <1>0, <1>1
  <1>7. /\ left.kind = "internal" /\ left.first = pages[p].first /\ left.entries = a
        /\ right.kind = "internal" /\ right.first = up.child /\ right.entries = b
    BY DEF Internal
  <1>9. /\ sep \in Nat /\ Between(c, p, sep)
        /\ \A d : Parted(DOMAIN pages, c, p, n, sep, d) =>
               Node(d, p, pages[p].first, a) /\ Node(d, n, up.child, b)
    <2> HIDE DEF mid
    <2>1. QED
      BY <1>1, <1>2, NodeHalved
  <1>10. split \in NodeEntry
    BY <1>2, <1>6 DEF NodeEntry
  <1>11. split.key = sep /\ split = [key |-> sep, child |-> n]
    OBVIOUS
  <1> HIDE DEF a, b, mid, left, right, up, sep, split, result
  <1>12. ASSUME NEW d, Parted(DOMAIN pages, c, p, n, sep, d)
         PROVE  /\ Node(d, p, left.first, left.entries) /\ Node(d, n, right.first, right.entries)
                /\ Drawn(d, p, left) /\ Drawn(d, n, right)
    <2>1. Node(d, p, left.first, left.entries) /\ Node(d, n, right.first, right.entries)
      BY <1>7, <1>9, <1>12
    <2>2. QED
      BY <1>7, <2>1, NodeIsDrawn DEF Drawn
  <1>13. SplitInto(c, p, n, result, left, right)
    BY <1>5, <1>7, <1>9, <1>10, <1>11, <1>12 DEF SplitInto
  <1>14. QED
    BY <1>13 DEF result

\* The pages after a split, and their chart.
PagesSplit(p, n, result, left, right, d) ==
    LET D == DOMAIN pages \cup {n} IN
    /\ DOMAIN result.pages = D /\ n \notin DOMAIN pages /\ n # NoPage /\ n # Root
    /\ Len(result.pages) = n /\ n \in Nat
    /\ result.pages[p] = left /\ result.pages[n] = right
    /\ \A q \in DOMAIN pages : q # p => result.pages[q] = pages[q]
    /\ Areas(D, d) /\ (p # Root => Rooted(D, d))
    /\ \A q \in D : Drawn(d, q, result.pages[q])
    /\ \A q \in D : result.pages[q].kind = "leaf" => result.pages[q].next \in D \cup {NoPage}

(* A split gives such pages. *)
LEMMA SplitPages ==
  ASSUME Sound(pages), Linked(pages), NEW c, Tree(c), NEW p \in DOMAIN pages,
         NEW n, n = Len(pages) + 1, NEW result, NEW left, NEW right,
         SplitInto(c, p, n, result, left, right),
         NEW d, Parted(DOMAIN pages, c, p, n, result.split.key, d)
  PROVE  PagesSplit(p, n, result, left, right, d)
  <1> DEFINE D == DOMAIN pages \cup {n}
             sep == result.split.key
             AnyPage == LeafPage \cup NodePage
  <1>1. /\ result.pages = Append([pages EXCEPT ![p] = left], right) /\ Between(c, p, sep)
        /\ left.kind = pages[p].kind /\ right.kind = pages[p].kind
        /\ pages[p].kind = "leaf" => left.next = n /\ right.next = pages[p].next
        /\ Drawn(d, p, left) /\ Drawn(d, n, right)
    BY DEF SplitInto
  <1>2. Areas(DOMAIN pages, c) /\ Rooted(DOMAIN pages, c) /\ \A q \in DOMAIN pages : Drawn(c, q, pages[q])
    BY DEF Tree
  <1>3. pages \in Seq(AnyPage) /\ DOMAIN pages = 1..Len(pages) /\ Len(pages) \in Nat /\ Root \in DOMAIN pages
    BY PageRight DEF Sound
  <1>4. /\ DOMAIN result.pages = D /\ n \notin DOMAIN pages /\ Len(result.pages) = n /\ n \in Nat
        /\ result.pages[p] = left /\ result.pages[n] = right
        /\ \A q \in DOMAIN pages : q # p => result.pages[q] = pages[q]
    <2> HIDE DEF AnyPage
    <2>1. QED
      BY <1>1, <1>3, AppendedRight
  <1>5. n # NoPage /\ n # Root
    BY <1>3, <1>4 DEF NoPage, Root
  <1>6. Areas(D, d) /\ (p # Root => Rooted(D, d))
    BY <1>1, <1>2, PartedAreas
  <1>7. /\ \A q \in DOMAIN pages : d.lo[q] = c.lo[q] /\ d.level[q] = c.level[q] /\ (q # p => d.hi[q] = c.hi[q])
        /\ DOMAIN d.lo = D
    BY DEF Parted, Charted
  <1>8. \A q \in DOMAIN pages : pages[q].kind = "leaf" => pages[q].next \in DOMAIN pages \cup {NoPage}
    BY DEF Linked, LinkRight
  <1>9. ASSUME NEW q \in D PROVE Drawn(d, q, result.pages[q])
    <2>1. CASE q = p
      BY <1>1, <1>4, <2>1
    <2>2. CASE q = n
      BY <1>1, <1>4, <2>2
    <2>3. CASE q # p /\ q # n
      <3>1. q \in DOMAIN pages /\ result.pages[q] = pages[q]
        BY <1>4, <2>3
      <3>2. /\ \A r \in DOMAIN pages : r \in DOMAIN d.lo /\ d.lo[r] = c.lo[r]
            /\ \A r \in DOMAIN pages : c.level[r] + 1 = c.level[q] => d.level[r] = c.level[r]
            /\ d.lo[q] = c.lo[q] /\ d.hi[q] = c.hi[q] /\ d.level[q] = c.level[q]
        BY <1>7, <2>3, <3>1
      <3>3. Drawn(d, q, pages[q])
        BY <1>2, <1>8, <3>1, <3>2, DrawnStays
      <3>4. QED
        BY <3>1, <3>3
    <2>4. QED
      BY <2>1, <2>2, <2>3
  <1>10. ASSUME NEW q \in D, result.pages[q].kind = "leaf"
         PROVE  result.pages[q].next \in D \cup {NoPage}
    BY <1>1, <1>4, <1>8, <1>10
  <1>11. QED
    BY <1>4, <1>5, <1>6, <1>9, <1>10 DEF PagesSplit

(* The thread's own page is the only one for which it may be. *)
LEMMA OwesHeld ==
  ASSUME TreeInv, NEW u \in Thread, NEW q, Owes(u, q)
  PROVE  q \in ToSet(held[u]) /\ q \in DOMAIN pages /\ pages[q].kind = "internal"
  <1>1. held[u] # <<>> /\ q = Last(held[u])
    BY DEF Owes, TreeInv, Doing
  <1>2. PICK h : Levels(h)
    BY DEF TreeInv, Ranked
  <1>3. /\ DOMAIN held[u] = 1..Len(held[u]) /\ Len(held[u]) \in Nat /\ Len(held[u]) # 0
        /\ q = held[u][Len(held[u])] /\ q \in DOMAIN pages /\ pages[q].kind = "internal"
    BY <1>1, <1>2, LastLowest
  <1>4. Len(held[u]) \in DOMAIN held[u]
    BY <1>3
  <1>5. QED
    BY <1>3, <1>4 DEF ToSet

\* p is one of the children of q.
ChildOf(p, q) == \E i \in 0..Len(pages[q].entries) : p = Kid(pages[q].first, pages[q].entries, i)

(* A split of which the parent is to be told. *)
LEMMA LiftTree ==
  ASSUME TreeInv, NEW c, Tree(c), NEW t \in Thread, NEW p \in DOMAIN pages, Only(t, p),
         at[t] = "propagate" => p = Last(held[t]),
         NEW n, n = Len(pages) + 1, NEW result, NEW left, NEW right,
         SplitInto(c, p, n, result, left, right),
         NEW q \in ToSet(held[t]), at[t] # "propagate" \/ q # Last(held[t]), ChildOf(p, q),
         pages' = result.pages, at'[t] = "propagate", Last(held'[t]) = q, pending'[t] = result.split,
         \A u \in Thread \ {t} : Same(u),
         NEW d, Parted(DOMAIN pages, c, p, n, result.split.key, d)
  PROVE  Tree(d)' /\ p # Root /\ p # q
  <1> DEFINE D == DOMAIN pages \cup {n}
             sep == result.split.key
             split == result.split
  <1>1. Sound(pages) /\ Linked(pages) /\ Areas(DOMAIN pages, c) /\ Rooted(DOMAIN pages, c)
    BY DEF TreeInv, Tree
  <1>2. /\ DOMAIN pages' = D /\ n \notin DOMAIN pages /\ n # NoPage /\ n # Root
        /\ pages'[p] = left /\ pages'[n] = right
        /\ \A x \in DOMAIN pages : x # p => pages'[x] = pages[x]
        /\ Areas(D, d) /\ (p # Root => Rooted(D, d))
        /\ \A x \in D : Drawn(d, x, pages'[x])
    <2>1. /\ DOMAIN result.pages = D /\ n \notin DOMAIN pages /\ n # NoPage /\ n # Root
          /\ result.pages[p] = left /\ result.pages[n] = right
          /\ \A x \in DOMAIN pages : x # p => result.pages[x] = pages[x]
          /\ Areas(D, d) /\ (p # Root => Rooted(D, d))
          /\ \A x \in D : Drawn(d, x, result.pages[x])
      <3>1. PagesSplit(p, n, result, left, right, d)
        BY <1>1, SplitPages
      <3>2. QED
        BY <3>1 DEF PagesSplit
    <2>2. QED
      BY <2>1
  <1>3. /\ split \in NodeEntry /\ split = [key |-> sep, child |-> n] /\ Between(c, p, sep)
        /\ left.kind = pages[p].kind /\ right.kind = pages[p].kind
        /\ pages[p].kind = "internal" =>
              Node(d, p, left.first, left.entries) /\ Node(d, n, right.first, right.entries)
    BY DEF SplitInto
  <1>4. /\ q \in DOMAIN pages /\ pages[q].kind = "internal"
        /\ Node(c, q, pages[q].first, pages[q].entries)
    BY HeldNode
  <1>5. PICK k \in 0..Len(pages[q].entries) : p = Kid(pages[q].first, pages[q].entries, k)
    BY DEF ChildOf
  <1>6. p # q /\ c.level[p] + 1 = c.level[q]
    BY <1>1, <1>4, <1>5, KidsRight
  <1>7. p # Root
    <2>1. c.level[p] \in Nat /\ c.level[q] \in Nat /\ c.level[Root] \in Nat
      BY <1>1, <1>4 DEF Areas, Charted, Rooted
    <2>2. q # Root => c.level[q] < c.level[Root]
      BY <1>1, <1>4 DEF Rooted
    <2>3. QED
      BY <1>6, <2>1, <2>2
  <1>8. /\ \A x \in DOMAIN pages : d.lo[x] = c.lo[x] /\ d.level[x] = c.level[x] /\ (x # p => d.hi[x] = c.hi[x])
        /\ DOMAIN d.lo = D
    BY DEF Parted, Charted
  <1> HIDE DEF split, sep, D
  <1>9. \A u \in Thread \ {t} : \A x : Owes(u, x)' <=> Owes(u, x)
    BY DEF Owes, Same
  <1>10. \A x : Owes(t, x)' <=> x = q
    BY DEF Owes
  <1>11. \A u \in Thread \ {t} : ~ Owes(u, p) /\ ~ Owes(u, n) /\ ~ Owes(u, q)
    <2>1. \A u \in Thread \ {t} : ~ Owes(u, p) /\ ~ Owes(u, n)
      BY <1>2, OwesHeld DEF Only
    <2>2. \A u \in Thread : ~ Owes(u, q)
      BY NotOwed
    <2>3. QED
      BY <2>1, <2>2
  <1>12. ASSUME NEW x \in D, NEW s, pages'[x].kind = "internal", Meant(x, s)'
         PROVE  Node(d, x, pages'[x].first, s)
    <2>1. \/ s = pages'[x].entries
          \/ \E u \in Thread : Owes(u, x)' /\ s = InsertSorted(pages'[x].entries, pending'[u])
      BY <1>12 DEF Meant
    <2>2. CASE x = q
      <3>1. Owes(t, x)'
        BY <1>10, <2>2
      <3>2. PICK u \in Thread : Owes(u, x)' /\ s = InsertSorted(pages'[x].entries, pending'[u])
        BY <1>12, <3>1 DEF Meant
      <3>3. u = t
        BY <1>9, <1>11, <2>2, <3>2
      <3>4. pages'[x] = pages[q]
        BY <1>2, <1>4, <1>6, <2>2
      <3>5. s = InsertSorted(pages[q].entries, [key |-> sep, child |-> n])
        BY <1>3, <3>2, <3>3, <3>4 DEF split
      <3>6. Node(d, q, pages[q].first, InsertSorted(pages[q].entries, [key |-> sep, child |-> n]))
        <4>1. Parted(DOMAIN pages, c, p, n, sep, d)
          BY DEF sep
        <4>2. [key |-> sep, child |-> n] \in NodeEntry
          BY <1>3
        <4>3. Kid(pages[q].first, pages[q].entries, k) = p /\ q # p
          BY <1>5, <1>6
        <4>4. QED
          BY <1>1, <1>3, <1>4, <4>1, <4>2, <4>3, Fostered
      <3>7. QED
        BY <2>2, <3>4, <3>5, <3>6
    <2>3. CASE x = p \/ x = n
      <3>1. x # q
        BY <1>2, <1>4, <1>6, <2>3
      <3>2. s = pages'[x].entries
        BY <1>9, <1>10, <1>11, <2>1, <2>3, <3>1
      <3>3. pages[p].kind = "internal"
        BY <1>2, <1>3, <1>12, <2>3
      <3>4. QED
        BY <1>2, <1>3, <2>3, <3>2, <3>3
    <2>4. CASE x # p /\ x # n /\ x # q
      <3>1. x \in DOMAIN pages /\ pages'[x] = pages[x]
        BY <1>2, <2>4 DEF D
      <3>2. Meant(x, s)
        <4>1. ~ Owes(t, x)
          BY <2>4 DEF Owes
        <4>2. \A u \in Thread : Owes(u, x) <=> Owes(u, x)'
          BY <1>9, <1>10, <2>4, <4>1
        <4>3. \A u \in Thread : Owes(u, x) => pending'[u] = pending[u]
          BY <4>1 DEF Same
        <4>4. QED
          BY <1>12, <3>1, <4>2, <4>3 DEF Meant
      <3>3. Node(c, x, pages[x].first, s)
        BY <1>12, <3>1, <3>2 DEF Tree
      <3>4. ASSUME NEW i \in 0..Len(s)
            PROVE  LET r == Kid(pages[x].first, s, i) IN
                   r \in DOMAIN d.lo /\ d.lo[r] = c.lo[r] /\ d.hi[r] = c.hi[r] /\ d.level[r] = c.level[r]
        <4> DEFINE r == Kid(pages[x].first, s, i)
        <4>1. r \in DOMAIN pages
          BY <1>1, <3>1, <3>3, KidsRight
        <4>2. r # p
          <5>1. r = p => x = q
            BY <1>1, <1>4, <1>5, <3>1, <3>3, OneParent
          <5>2. QED
            BY <2>4, <5>1
        <4> HIDE DEF r
        <4>3. r \in DOMAIN d.lo /\ d.lo[r] = c.lo[r] /\ d.hi[r] = c.hi[r] /\ d.level[r] = c.level[r]
          BY <1>8, <4>1, <4>2 DEF D
        <4>4. QED
          BY <4>3 DEF r
      <3>5. d.level[x] = c.level[x] /\ d.lo[x] = c.lo[x] /\ d.hi[x] = c.hi[x]
        BY <1>8, <2>4, <3>1
      <3>6. Node(d, x, pages[x].first, s)
        BY <1>1, <3>1, <3>3, <3>4, <3>5, NodeStays
      <3>7. QED
        BY <3>1, <3>6
    <2>5. QED
      BY <2>2, <2>3, <2>4
  <1>13. Tree(d)'
    BY <1>2, <1>7, <1>12 DEF Tree
  <1>14. QED
    BY <1>6, <1>7, <1>13

\* The pages after a split of the root, and their chart.
RootGrown(n, m, left, right, g) ==
    /\ Tree(g)' /\ DOMAIN pages' = DOMAIN pages \cup {Root, n, m} /\ {n, m} \cap DOMAIN pages = {}
    /\ pages'[Root].kind = "internal" /\ pages'[m] = left /\ pages'[n] = right
    /\ \A q \in DOMAIN pages : q # Root => pages'[q] = pages[q]

(* A root that is split: it moves, and the new root leads to both halves.  *)
LEMMA GrowTree ==
  ASSUME TreeInv, NEW c, Tree(c), NEW t \in Thread, Root \in DOMAIN pages, Only(t, Root),
         at[t] = "propagate" => Root = Last(held[t]),
         NEW n, n = Len(pages) + 1, NEW m, m = n + 1, NEW result, NEW left, NEW right,
         SplitInto(c, Root, n, result, left, right),
         pages' = GrowNewRoot(result.pages, Root, result.split), at'[t] # "propagate",
         \A u \in Thread \ {t} : Same(u),
         NEW d, Parted(DOMAIN pages, c, Root, n, result.split.key, d),
         NEW g, Grown(DOMAIN pages \cup {n}, d, m, g)
  PROVE  RootGrown(n, m, left, right, g)
  <1> DEFINE D == DOMAIN pages \cup {n}
             E == D \cup {m}
             split == result.split
             sep == split.key
             top == Internal(m, <<split>>)
  <1>1. Sound(pages) /\ Linked(pages) /\ Areas(DOMAIN pages, c) /\ Rooted(DOMAIN pages, c)
    BY DEF TreeInv, Tree
  <1>2. PagesSplit(Root, n, result, left, right, d)
    BY <1>1, SplitPages
  <1>3. /\ split \in NodeEntry /\ split = [key |-> sep, child |-> n] /\ Between(c, Root, sep)
        /\ left.kind = pages[Root].kind /\ right.kind = pages[Root].kind
        /\ pages[Root].kind = "internal" =>
              Node(d, Root, left.first, left.entries) /\ Node(d, n, right.first, right.entries)
    BY DEF SplitInto
  <1>4. /\ DOMAIN result.pages = D /\ n \notin DOMAIN pages /\ n # Root /\ Len(result.pages) = n /\ n \in Nat
        /\ result.pages[Root] = left /\ result.pages[n] = right
        /\ \A q \in DOMAIN pages : q # Root => result.pages[q] = pages[q]
        /\ Areas(D, d) /\ \A q \in D : Drawn(d, q, result.pages[q])
        /\ \A q \in D : result.pages[q].kind = "leaf" => result.pages[q].next \in D \cup {NoPage}
    BY <1>2 DEF PagesSplit
  <1>5. top.kind = "internal" /\ top.first = m /\ top.entries = <<split>>
    BY DEF Internal
  <1>6. /\ DOMAIN pages' = E /\ m \notin D /\ m \in Nat
        /\ pages'[Root] = top /\ pages'[m] = left /\ pages'[n] = right
        /\ \A q \in DOMAIN pages : q # Root => pages'[q] = pages[q]
    <2> DEFINE S == {result.pages[q] : q \in D}
               rp == result.pages
    <2>1. rp \in Seq(S) /\ DOMAIN rp = D /\ Len(rp) = n
      <3>1. \E AnyPage : pages \in Seq(AnyPage)
        BY <1>1 DEF Sound
      <3>2. rp = Append([pages EXCEPT ![Root] = left], right)
        BY DEF SplitInto
      <3>3. DOMAIN pages = 1..Len(pages) /\ Len(pages) \in Nat
        BY <3>1
      <3>4. D = 1..n
        BY <1>4, <3>3
      <3>5. rp = [i \in 1..n |-> rp[i]]
        <4> DEFINE w == [pages EXCEPT ![Root] = left]
        <4>1. PICK AnyPage : pages \in Seq(AnyPage)
          BY <3>1
        <4>2. w \in Seq(AnyPage \cup {left, right})
          BY <4>1
        <4>3. Len(w) = Len(pages)
          BY <4>1
        <4> HIDE DEF w
        <4>4. Append(w, right) \in Seq(AnyPage \cup {left, right}) /\ Len(Append(w, right)) = n
          BY <4>2, <4>3
        <4>5. QED
          BY <3>2, <4>4 DEF w
      <3>6. \A i \in 1..n : rp[i] \in S
        BY <3>4
      <3> HIDE DEF rp, S, D
      <3>7. rp \in Seq(S)
        BY <1>4, <3>5, <3>6
      <3>8. QED
        BY <1>4, <3>7 DEF rp
    <2>2. pages' = Append([rp EXCEPT ![Root] = top], rp[Root])
      BY <1>4 DEF GrowNewRoot
    <2>3. Root \in DOMAIN rp /\ m = Len(rp) + 1
      BY <2>1
    <2> HIDE DEF rp, S, top, D
    <2>4. /\ DOMAIN pages' = DOMAIN rp \cup {m} /\ m \notin DOMAIN rp /\ m \in Nat
          /\ pages'[Root] = top /\ pages'[m] = rp[Root] /\ \A q \in DOMAIN rp : q # Root => pages'[q] = rp[q]
      <3> DEFINE r == Append([rp EXCEPT ![Root] = top], rp[Root])
      <3>1. /\ DOMAIN r = DOMAIN rp \cup {m} /\ m \notin DOMAIN rp /\ m \in Nat
            /\ r[Root] = top /\ r[m] = rp[Root] /\ \A q \in DOMAIN rp : q # Root => r[q] = rp[q]
        BY <2>1, <2>3, AppendedRight
      <3>2. QED
        BY <2>2, <3>1
    <2>5. QED
      BY <1>4, <2>1, <2>4 DEF rp, D
  <1>7. /\ \A x \in DOMAIN pages : d.lo[x] = c.lo[x] /\ d.level[x] = c.level[x] /\ (x # Root => d.hi[x] = c.hi[x])
        /\ d.lo[n] = sep /\ d.hi[n] = c.hi[Root] /\ d.level[n] = c.level[Root] /\ d.hi[Root] = sep
        /\ DOMAIN d.lo = D
    BY DEF Parted, Charted
  <1>8. c.lo[Root] = 0 /\ c.hi[Root] = Open /\ \A x \in DOMAIN pages : x # Root => c.level[x] < c.level[Root]
    BY <1>1 DEF Rooted
  <1>9. /\ \A x \in D : g.lo[x] = d.lo[x] /\ (x # Root => g.hi[x] = d.hi[x] /\ g.level[x] = d.level[x])
        /\ g.lo[m] = d.lo[Root] /\ g.hi[m] = d.hi[Root] /\ g.level[m] = d.level[Root]
        /\ DOMAIN g.lo = E
    BY DEF Grown, Charted
  <1> HIDE DEF split, sep, top, D, E
  <1>10. d.lo[Root] = 0 /\ \A x \in D : d.level[x] <= d.level[Root] /\ d.level[x] \in Nat
    <2>1. d.level[Root] \in Nat /\ \A x \in D : d.level[x] \in Nat
      BY <1>4 DEF Areas, Charted, D
    <2>2. \A x \in DOMAIN pages : x # Root => d.level[x] < d.level[Root]
      BY <1>7, <1>8
    <2>3. d.level[n] = d.level[Root] /\ d.lo[Root] = 0
      BY <1>7, <1>8
    <2>4. \A x \in D : x = Root \/ x = n \/ x \in DOMAIN pages
      BY DEF D
    <2>5. QED
      BY <2>1, <2>2, <2>3, <2>4
  <1>11. Areas(E, g) /\ Rooted(E, g)
    <2>1. Grown(D, d, m, g)
      BY DEF D
    <2>2. QED
      BY <1>4, <1>10, <2>1, GrownAreas DEF E
  <1>12. Node(g, Root, m, <<split>>)
    <2>1. Grown(D, d, m, g) /\ split.child = n /\ n \in D /\ split.key = sep
      BY <1>3 DEF D, sep
    <2>2. split.child \in D /\ split.child # Root /\ d.hi[Root] = split.key /\ d.lo[split.child] = split.key
          /\ d.hi[split.child] = Open /\ d.level[split.child] = d.level[Root]
      BY <1>4, <1>7, <1>8, <2>1
    <2>3. QED
      BY <1>3, <1>4, <1>10, <2>1, <2>2, GrownRoot
  <1>13. ASSUME NEW x \in D, NEW y, g.lo[y] = d.lo[x], g.hi[y] = d.hi[x], g.level[y] = d.level[x]
         PROVE  /\ Drawn(g, y, result.pages[x])
                /\ \A first, s : Node(d, x, first, s) => Node(g, y, first, s)
    <2>1. \A r \in D : d.level[r] + 1 = d.level[x] => r # Root
      <3> SUFFICES ASSUME d.level[Root] + 1 = d.level[x], Root \in D PROVE FALSE
        OBVIOUS
      <3>1. d.level[x] <= d.level[Root] /\ d.level[x] \in Nat /\ d.level[Root] \in Nat
        BY <1>10
      <3>2. QED
        BY <3>1
    <2>2. \A r \in D : r \in DOMAIN g.lo /\ g.lo[r] = d.lo[r]
      BY <1>9 DEF E
    <2>3. Drawn(g, y, result.pages[x])
      <3>1. \A r \in D : d.level[r] + 1 = d.level[x] => g.level[r] = d.level[r]
        BY <1>9, <2>1
      <3>2. Drawn(d, x, result.pages[x])
        BY <1>4 DEF D
      <3>3. result.pages[x].kind = "leaf" => result.pages[x].next \in D \cup {NoPage}
        BY <1>4 DEF D
      <3>4. Areas(D, d)
        BY <1>4 DEF D
      <3>5. QED
        BY <1>13, <2>2, <3>1, <3>2, <3>3, <3>4, DrawnStays
    <2>4. ASSUME NEW first, NEW s, Node(d, x, first, s) PROVE Node(g, y, first, s)
      <3>0. Areas(D, d)
        BY <1>4 DEF D
      <3>1. ASSUME NEW i \in 0..Len(s)
            PROVE  LET r == Kid(first, s, i) IN
                   r \in DOMAIN g.lo /\ g.lo[r] = d.lo[r] /\ g.hi[r] = d.hi[r] /\ g.level[r] = d.level[r]
        <4> DEFINE r == Kid(first, s, i)
        <4>1. r \in D /\ d.level[r] + 1 = d.level[x]
          BY <2>4, <3>0, KidsRight
        <4> HIDE DEF r
        <4>2. r # Root
          BY <2>1, <4>1
        <4>3. QED
          BY <1>9, <2>2, <4>1, <4>2 DEF r
      <3>2. QED
        BY <1>13, <2>4, <3>0, <3>1, NodeStays
    <2>5. QED
      BY <2>3, <2>4
  <1>14. ASSUME NEW x \in DOMAIN pages, x # Root
         PROVE  x \in D /\ result.pages[x] = pages[x] /\ pages'[x] = pages[x]
                /\ g.lo[x] = d.lo[x] /\ g.hi[x] = d.hi[x] /\ g.level[x] = d.level[x]
    BY <1>4, <1>6, <1>9, <1>14 DEF D
  <1>15. n \in D /\ Root \in D /\ g.lo[n] = d.lo[n] /\ g.hi[n] = d.hi[n] /\ g.level[n] = d.level[n]
    BY <1>4, <1>9 DEF D
  <1>16. \A x \in E : x = Root \/ x = m \/ x = n \/ (x \in DOMAIN pages /\ x # Root)
    BY DEF E, D
  <1>17. ASSUME NEW x \in E PROVE Drawn(g, x, pages'[x])
    <2>1. CASE x = Root
      <3>1. NodeDrawn(g, Root, top)
        BY <1>5, <1>12, NodeIsDrawn
      <3>2. QED
        BY <1>5, <1>6, <2>1, <3>1 DEF Drawn
    <2>2. CASE x = m
      <3>1. Drawn(g, m, result.pages[Root])
        BY <1>9, <1>13, <1>15
      <3>2. QED
        BY <1>4, <1>6, <2>2, <3>1
    <2>3. CASE x = n
      <3>1. Drawn(g, n, result.pages[n])
        BY <1>13, <1>15
      <3>2. QED
        BY <1>4, <1>6, <2>3, <3>1
    <2>4. CASE x \in DOMAIN pages /\ x # Root
      <3>1. Drawn(g, x, result.pages[x])
        BY <1>13, <1>14, <2>4
      <3>2. QED
        BY <1>14, <2>4, <3>1
    <2>5. QED
      BY <1>16, <2>1, <2>2, <2>3, <2>4
  <1>18. /\ \A u \in Thread \ {t} : \A x : Owes(u, x)' <=> Owes(u, x)
         /\ \A x : ~ Owes(t, x)'
    BY DEF Owes, Same
  <1>19. \A u \in Thread \ {t} : ~ Owes(u, Root) /\ ~ Owes(u, n) /\ ~ Owes(u, m)
    <2>1. n \notin DOMAIN pages /\ m \notin DOMAIN pages
      BY <1>4, <1>6 DEF D
    <2>2. QED
      BY <2>1, OwesHeld DEF Only
  <1>20. ASSUME NEW x \in E, NEW s, pages'[x].kind = "internal", Meant(x, s)'
         PROVE  Node(g, x, pages'[x].first, s)
    <2>1. \/ s = pages'[x].entries
          \/ \E u \in Thread : Owes(u, x)' /\ s = InsertSorted(pages'[x].entries, pending'[u])
      BY <1>20 DEF Meant
    <2>2. x \in {Root, n, m} => s = pages'[x].entries
      BY <1>18, <1>19, <2>1
    <2>3. CASE x = Root
      BY <1>5, <1>6, <1>12, <2>2, <2>3
    <2>4. CASE x = m
      <3>1. Node(d, Root, left.first, left.entries)
        BY <1>3, <1>6, <1>20, <2>4
      <3>2. Node(g, m, left.first, left.entries)
        BY <1>9, <1>13, <1>15, <3>1
      <3>3. QED
        BY <1>6, <2>2, <2>4, <3>2
    <2>5. CASE x = n
      <3>1. Node(d, n, right.first, right.entries)
        BY <1>3, <1>6, <1>20, <2>5
      <3>2. Node(g, n, right.first, right.entries)
        BY <1>13, <1>15, <3>1
      <3>3. QED
        BY <1>6, <2>2, <2>5, <3>2
    <2>6. CASE x \in DOMAIN pages /\ x # Root
      <3>1. pages'[x] = pages[x]
        BY <1>14, <2>6
      <3>2. Meant(x, s)
        <4>1. ~ Owes(t, x)
          BY <2>6 DEF Owes
        <4>2. \A u \in Thread : Owes(u, x) <=> Owes(u, x)'
          BY <1>18, <4>1
        <4>3. \A u \in Thread : Owes(u, x) => pending'[u] = pending[u]
          BY <4>1 DEF Same
        <4>4. QED
          BY <1>20, <3>1, <4>2, <4>3 DEF Meant
      <3>3. Node(c, x, pages[x].first, s)
        BY <1>20, <2>6, <3>1, <3>2 DEF Tree
      <3>4. ASSUME NEW i \in 0..Len(s)
            PROVE  LET r == Kid(pages[x].first, s, i) IN
                   r \in DOMAIN d.lo /\ d.lo[r] = c.lo[r] /\ d.hi[r] = c.hi[r] /\ d.level[r] = c.level[r]
        <4> DEFINE r == Kid(pages[x].first, s, i)
        <4>1. r \in DOMAIN pages /\ c.level[r] + 1 = c.level[x]
          BY <1>1, <2>6, <3>3, KidsRight
        <4> HIDE DEF r
        <4>2. r # Root
          <5>1. c.level[Root] \in Nat /\ c.level[x] \in Nat /\ c.level[x] < c.level[Root]
            BY <1>1, <1>8, <2>6 DEF Areas, Charted
          <5>2. QED
            BY <4>1, <5>1
        <4>3. QED
          BY <1>7, <4>1, <4>2 DEF r, D
      <3>5. d.level[x] = c.level[x] /\ d.lo[x] = c.lo[x] /\ d.hi[x] = c.hi[x]
        BY <1>7, <2>6
      <3>6. Node(d, x, pages[x].first, s)
        BY <1>1, <2>6, <3>3, <3>4, <3>5, NodeStays
      <3>7. Node(g, x, pages[x].first, s)
        BY <1>13, <1>14, <2>6, <3>6
      <3>8. QED
        BY <3>1, <3>7
    <2>7. QED
      BY <1>16, <2>3, <2>4, <2>5, <2>6
  <1>21. Tree(g)'
    BY <1>6, <1>11, <1>17, <1>20 DEF Tree
  <1>22. DOMAIN pages' = DOMAIN pages \cup {Root, n, m} /\ {n, m} \cap DOMAIN pages = {}
    BY <1>4, <1>6 DEF E, D
  <1>23. QED
    BY <1>5, <1>6, <1>21, <1>22 DEF RootGrown

\* Both halves of a leaf together have the entry as well.
Shares(t, p, left, right) ==
    pages[p].kind = "leaf" =>
        \A e : e \in ToSet(left.entries) \/ e \in ToSet(right.entries) <=>
                  e \in ToSet(pages[p].entries) \/ e = call[t].entry

\* What a split, or an insert, of page p adds.
Gains(t, p) ==
    /\ pages[p].kind = "leaf" => Contents' = Contents \cup {call[t].entry}
    /\ pages[p].kind # "leaf" => Contents' = Contents

(* A split loses nothing. *)
LEMMA HalvesKept ==
  ASSUME NEW p \in DOMAIN pages, NEW New, p \in New, DOMAIN pages' = DOMAIN pages \cup New,
         \A q \in DOMAIN pages : q # p => q \notin New /\ pages'[q] = pages[q],
         NEW t, NEW left, NEW right, Shares(t, p, left, right),
         \A e : (\E q \in New : InLeaf(pages', q, e)) <=>
                   /\ pages[p].kind = "leaf"
                   /\ e \in ToSet(left.entries) \/ e \in ToSet(right.entries)
  PROVE  Gains(t, p)
  <1>1. /\ \A e : e \in Contents <=> \/ \E q \in DOMAIN pages \ {p} : InLeaf(pages, q, e)
                                     \/ InLeaf(pages, p, e)
        /\ \A e : e \in Contents' <=> \/ \E q \in DOMAIN pages \ {p} : InLeaf(pages, q, e)
                                      \/ \E q \in New : InLeaf(pages', q, e)
    BY ContentsWith
  <1>2. \A e : InLeaf(pages, p, e) <=> pages[p].kind = "leaf" /\ e \in ToSet(pages[p].entries)
    BY DEF InLeaf
  <1>3. CASE pages[p].kind = "leaf"
    <2>1. \A e : e \in Contents' <=> e \in Contents \/ e = call[t].entry
      BY <1>1, <1>2, <1>3 DEF Shares
    <2>2. QED
      BY <1>3, <2>1 DEF Gains
  <1>4. CASE pages[p].kind # "leaf"
    <2>1. \A e : e \in Contents' <=> e \in Contents
      BY <1>1, <1>2, <1>4
    <2>2. Contents' = Contents
      BY <2>1
    <2>3. QED
      BY <1>4, <2>2 DEF Gains
  <1>5. QED
    BY <1>3, <1>4

\* A split of p by thread t, which has its latch and those above.
Splits(c, t, p, n, result, left, right) ==
    /\ at[t] \in {"descend", "propagate"} /\ call[t].op = "insert"
    /\ p \in DOMAIN pages /\ Only(t, p) /\ (at[t] = "propagate" => p = Last(held[t]))
    /\ n = Len(pages) + 1 /\ SplitInto(c, p, n, result, left, right)
    /\ Shares(t, p, left, right)

\* A parent that waits for the separator.
Parent(t, p, above) ==
    /\ above \in Seq(Nat) /\ above # <<>>
    /\ \A i \in DOMAIN above : i \in DOMAIN held[t] /\ above[i] = held[t][i] /\ above[i] # p
    /\ at[t] # "propagate" \/ Last(above) # Last(held[t])
    /\ ChildOf(p, Last(above))

(* A split below a page that the thread has a latch on. *)
LEMMA LiftOrder ==
  ASSUME OwnKeys, TreeInv, NEW c, Ordered(c), NEW t \in Thread, NEW p, NEW n, NEW result,
         NEW left, NEW right, Splits(c, t, p, n, result, left, right),
         NEW above, Parent(t, p, above), Lift(t, p, above, result), owed' = owed
  PROVE  (\E d : Ordered(d)') /\ Gains(t, p)
  <1> DEFINE q == Last(above)
             sep == result.split.key
  <1>1. /\ Types /\ OrderTypes /\ Doing(t) /\ Told(t) /\ Tree(c) /\ Sound(pages) /\ Linked(pages)
        /\ Guided(c, t) /\ Areas(DOMAIN pages, c)
    BY DEF TreeInv, Ordered, Tree
  <1>2. /\ at[t] \in {"descend", "propagate"} /\ call[t].op = "insert"
        /\ p \in DOMAIN pages /\ Only(t, p) /\ (at[t] = "propagate" => p = Last(held[t]))
        /\ n = Len(pages) + 1 /\ SplitInto(c, p, n, result, left, right)
        /\ Shares(t, p, left, right)
    BY DEF Splits
  <1>3. /\ pages' = result.pages
        /\ pending' = [pending EXCEPT ![t] = result.split]
        /\ held' = [held EXCEPT ![t] = above]
        /\ at' = [at EXCEPT ![t] = "propagate"]
        /\ answer' = [answer EXCEPT ![t] = "applied"]
        /\ UNCHANGED <<call, got, made, latch, cursor, stale>>
    BY DEF Lift, Parent, Goes
  <1>4. /\ above \in Seq(Nat) /\ DOMAIN above = 1..Len(above) /\ Len(above) \in Nat /\ Len(above) # 0
        /\ \A i \in DOMAIN above : i \in DOMAIN held[t] /\ above[i] = held[t][i] /\ above[i] # p
        /\ at[t] # "propagate" \/ q # Last(held[t])
        /\ ChildOf(p, q)
    BY DEF Parent
  <1>5. q \in ToSet(held[t])
    <2>1. Len(above) \in DOMAIN above /\ q = above[Len(above)]
      BY <1>4 DEF Last
    <2>2. QED
      BY <1>4, <2>1 DEF ToSet
  <1>6. /\ at'[t] = "propagate" /\ held'[t] = above /\ pending'[t] = result.split
        /\ answer'[t] = "applied" /\ call'[t] = call[t] /\ made'[t] = made[t] /\ owed'[t] = owed[t]
        /\ \A u \in Thread \ {t} :
              Same(u) /\ got'[u] = got[u] /\ answer'[u] = answer[u] /\ made'[u] = made[u]
    <2>1. /\ at'[t] = "propagate" /\ held'[t] = above /\ pending'[t] = result.split
          /\ call'[t] = call[t] /\ made'[t] = made[t] /\ owed'[t] = owed[t]
          /\ \A u \in Thread \ {t} : Same(u)
      BY <1>1, <1>3 DEF Types, Same
    <2>2. /\ answer'[t] = "applied"
          /\ \A u \in Thread \ {t} : got'[u] = got[u] /\ answer'[u] = answer[u] /\ made'[u] = made[u]
      BY <1>1, <1>3 DEF OrderTypes
    <2>3. QED
      BY <2>1, <2>2
  <1>7. n \notin DOMAIN pages
    BY <1>1, <1>2 DEF Sound
  <1>8. PICK d : Parted(DOMAIN pages, c, p, n, sep, d)
    <2>1. sep \in Nat /\ Charted(DOMAIN pages, c)
      <3>1. result.split \in NodeEntry
        BY <1>2 DEF SplitInto
      <3>2. QED
        BY <1>1, <3>1, EntriesKeyed DEF Keyed, Areas
    <2>2. QED
      BY <1>2, <1>7, <2>1, PartedIs
  <1> HIDE DEF q
  <1>9. Tree(d)' /\ p # Root /\ p # q
    <2>1. Last(held'[t]) = q
      BY <1>6 DEF q
    <2>2. QED
      BY <1>1, <1>2, <1>3, <1>4, <1>5, <1>6, <1>8, <2>1, LiftTree
  <1>10. PagesSplit(p, n, result, left, right, d)
    BY <1>1, <1>2, <1>8, SplitPages
  <1>11. /\ DOMAIN pages' = DOMAIN pages \cup {p, n}
         /\ pages'[p] = left /\ pages'[n] = right
         /\ \A x \in DOMAIN pages : x # p => x \notin {p, n} /\ pages'[x] = pages[x]
    BY <1>2, <1>3, <1>10 DEF PagesSplit
  <1>12. Gains(t, p)
    <2>1. left.kind = pages[p].kind /\ right.kind = pages[p].kind
      BY <1>2 DEF SplitInto
    <2> DEFINE New == {p, n}
    <2>2. \A e : (\E x \in New : InLeaf(pages', x, e)) <=>
                    /\ pages[p].kind = "leaf"
                    /\ e \in ToSet(left.entries) \/ e \in ToSet(right.entries)
      BY <1>11, <2>1 DEF InLeaf
    <2>3. p \in New /\ DOMAIN pages' = DOMAIN pages \cup New
      BY <1>11
    <2>4. \A x \in DOMAIN pages : x # p => x \notin New /\ pages'[x] = pages[x]
      BY <1>11
    <2> HIDE DEF New
    <2>5. QED
      BY <1>2, <2>2, <2>3, <2>4, HalvesKept
  <1>13. \A x \in DOMAIN pages : /\ x \in DOMAIN pages' /\ d.lo[x] = c.lo[x]
                                 /\ x # p => pages'[x] = pages[x] /\ d.hi[x] = c.hi[x]
    BY <1>8, <1>11 DEF Parted
  <1>14. Contents' = Contents \/ Contents' = Contents \cup {call[t].entry}
    BY <1>12 DEF Gains
  <1>15. OrderTypes'
    BY <1>1, <1>3 DEF OrderTypes
  <1>16. Told(t)'
    <2>1. owed'[t] \subseteq Contents'
      BY <1>1, <1>6, <1>14 DEF Told
    <2>2. Answered(t)'
      BY <1>6 DEF Answered
    <2>3. <<t, made'[t], call'[t]>> \in Calls
      BY <1>1, <1>2, <1>6 DEF Told
    <2>4. call'[t].op = "insert"
      BY <1>2, <1>6
    <2>5. QED
      BY <1>6, <2>1, <2>2, <2>3, <2>4 DEF Told, Reading
  <1>17. Guided(d, t)'
    <2> DEFINE key == call[t].entry.key
    <2>1. Writes(c, t)
      BY <1>1, <1>2 DEF Guided
    <2>2. ASSUME NEW i \in DOMAIN above
          PROVE  /\ above[i] \in DOMAIN pages /\ Has(d, above[i], key)
                 /\ pages'[above[i]] = pages[above[i]]
      <3>1. i \in DOMAIN held[t] /\ above[i] = held[t][i] /\ above[i] # p
        BY <1>4
      <3>2. above[i] \in DOMAIN pages /\ Has(c, above[i], key)
        BY <1>1, <2>1, <3>1 DEF Writes, Doing
      <3>3. QED
        BY <1>13, <3>1, <3>2 DEF Has
    <2>3. ASSUME NEW i \in DOMAIN above, i + 1 \in DOMAIN above
          PROVE  above[i + 1] = ChildFor(pages'[above[i]], Towards(key))
      <3>1. held[t][i + 1] = ChildFor(pages[held[t][i]], Towards(key))
        BY <1>4, <2>1, <2>3 DEF Writes
      <3>2. QED
        BY <1>4, <2>2, <2>3, <3>1
    <2>4. Writes(d, t)'
      BY <1>6, <2>2, <2>3 DEF Writes
    <2>5. QED
      BY <1>6, <2>4 DEF Guided, Reading
  <1>18. Ordered(d)'
    <2>1. at[t] # "idle"
      BY <1>2
    <2>2. \A u \in Thread \ {t} :
             Same(u) /\ got'[u] = got[u] /\ answer'[u] = answer[u] /\ made'[u] = made[u]
      BY <1>6
    <2>3. QED
      BY <1>2, <1>9, <1>13, <1>14, <1>15, <1>16, <1>17, <2>1, <2>2, WriteOrder
  <1>19. QED
    BY <1>12, <1>18

(* A split of the root. *)
LEMMA GrowOrder ==
  ASSUME OwnKeys, TreeInv, NEW c, Ordered(c), NEW t \in Thread, NEW n, NEW result,
         NEW left, NEW right, Splits(c, t, Root, n, result, left, right),
         Lift(t, Root, <<>>, result), owed' = owed
  PROVE  (\E d : Ordered(d)') /\ Gains(t, Root)
  <1> DEFINE m == n + 1
             sep == result.split.key
             D == DOMAIN pages
  <1>1. /\ Types /\ OrderTypes /\ Told(t) /\ Tree(c) /\ Sound(pages) /\ Linked(pages)
        /\ Areas(DOMAIN pages, c)
    BY DEF TreeInv, Ordered, Tree
  <1>2. /\ at[t] \in {"descend", "propagate"} /\ call[t].op = "insert"
        /\ Root \in DOMAIN pages /\ Only(t, Root) /\ (at[t] = "propagate" => Root = Last(held[t]))
        /\ n = Len(pages) + 1 /\ SplitInto(c, Root, n, result, left, right)
        /\ Shares(t, Root, left, right)
    BY DEF Splits
  <1>3. /\ pages' = GrowNewRoot(result.pages, Root, result.split)
        /\ Returns(t, "inserted")
    BY DEF Lift
  <1>4. at'[t] = "idle" /\ \A u \in Thread \ {t} : Same(u)
    BY <1>1, <1>3, ReturnsRight DEF Returns, Goes, Types
  <1>5. n \notin DOMAIN pages /\ m \notin DOMAIN pages \cup {n} /\ n \in Nat
    <2>1. DOMAIN pages = 1..Len(pages) /\ Len(pages) \in Nat
      BY <1>1 DEF Sound
    <2>2. QED
      BY <1>2, <2>1
  <1>6. PICK d : Parted(D, c, Root, n, sep, d)
    <2>1. sep \in Nat /\ Charted(DOMAIN pages, c)
      <3>1. result.split \in NodeEntry
        BY <1>2 DEF SplitInto
      <3>2. QED
        BY <1>1, <3>1, EntriesKeyed DEF Keyed, Areas
    <2>2. QED
      BY <1>2, <1>5, <2>1, PartedIs
  <1>7. PICK g : Grown(D \cup {n}, d, m, g)
    <2>1. Charted(D \cup {n}, d)
      BY <1>6 DEF Parted
    <2>2. Root \in D \cup {n}
      BY <1>2
    <2>3. m \notin D \cup {n}
      BY <1>5
    <2> HIDE DEF m, D
    <2>4. QED
      BY <2>1, <2>2, <2>3, GrownIs
  <1>8. /\ Tree(g)' /\ DOMAIN pages' = D \cup {Root, n, m} /\ {n, m} \cap D = {}
        /\ pages'[Root].kind = "internal" /\ pages'[m] = left /\ pages'[n] = right
        /\ \A q \in D : q # Root => pages'[q] = pages[q]
    <2>1. m = n + 1 /\ at'[t] # "propagate"
      BY <1>4
    <2>2. at[t] = "propagate" => Root = Last(held[t])
      BY <1>2
    <2>3. Tree(c) /\ Root \in DOMAIN pages /\ Only(t, Root) /\ n = Len(pages) + 1
      BY <1>1, <1>2
    <2>4. SplitInto(c, Root, n, result, left, right)
      BY <1>2
    <2>5. pages' = GrowNewRoot(result.pages, Root, result.split)
      BY <1>3
    <2>6. \A u \in Thread \ {t} : Same(u)
      BY <1>4
    <2>7. Parted(DOMAIN pages, c, Root, n, result.split.key, d) /\ Grown(DOMAIN pages \cup {n}, d, m, g)
      BY <1>6, <1>7
    <2> HIDE DEF m
    <2>8. RootGrown(n, m, left, right, g)
      BY <2>1, <2>2, <2>3, <2>4, <2>5, <2>6, <2>7, GrowTree
    <2>9. QED
      BY <2>8 DEF RootGrown
  <1>9. Gains(t, Root)
    <2>1. left.kind = pages[Root].kind /\ right.kind = pages[Root].kind
      BY <1>2 DEF SplitInto
    <2> DEFINE New == {Root, n, m}
    <2>2. \A e : (\E x \in New : InLeaf(pages', x, e)) <=>
                    /\ pages[Root].kind = "leaf"
                    /\ e \in ToSet(left.entries) \/ e \in ToSet(right.entries)
      <3>1. \A e : (\E x \in New : InLeaf(pages', x, e)) <=>
                      InLeaf(pages', Root, e) \/ InLeaf(pages', n, e) \/ InLeaf(pages', m, e)
        OBVIOUS
      <3>2. \A e : ~ InLeaf(pages', Root, e)
        BY <1>8 DEF InLeaf
      <3>3. \A e : /\ InLeaf(pages', n, e) <=> pages[Root].kind = "leaf" /\ e \in ToSet(right.entries)
                   /\ InLeaf(pages', m, e) <=> pages[Root].kind = "leaf" /\ e \in ToSet(left.entries)
        BY <1>8, <2>1 DEF InLeaf
      <3> HIDE DEF New, m
      <3>4. QED
        BY <3>1, <3>2, <3>3
    <2>3. Root \in New /\ DOMAIN pages' = DOMAIN pages \cup New
      BY <1>8
    <2>4. \A x \in DOMAIN pages : x # Root => x \notin New /\ pages'[x] = pages[x]
      BY <1>8
    <2> HIDE DEF New
    <2>5. QED
      BY <1>2, <2>2, <2>3, <2>4, HalvesKept
  <1>10. \A x \in DOMAIN pages : /\ x \in DOMAIN pages' /\ g.lo[x] = c.lo[x]
                                 /\ x # Root => pages'[x] = pages[x] /\ g.hi[x] = c.hi[x]
    <2> SUFFICES ASSUME NEW x \in DOMAIN pages
                 PROVE  /\ x \in DOMAIN pages' /\ g.lo[x] = c.lo[x]
                        /\ x # Root => pages'[x] = pages[x] /\ g.hi[x] = c.hi[x]
      OBVIOUS
    <2>1. d.lo[x] = c.lo[x] /\ (x # Root => d.hi[x] = c.hi[x])
      BY <1>6 DEF Parted
    <2>2. g.lo[x] = d.lo[x] /\ (x # Root => g.hi[x] = d.hi[x])
      BY <1>7 DEF Grown
    <2>3. QED
      BY <1>8, <2>1, <2>2
  <1>11. Contents' = Contents \/ Contents' = Contents \cup {call[t].entry}
    BY <1>9 DEF Gains
  <1>12. /\ OrderTypes' /\ Told(t)' /\ Guided(g, t)'
         /\ \A u \in Thread \ {t} :
               Same(u) /\ got'[u] = got[u] /\ answer'[u] = answer[u] /\ made'[u] = made[u]
    <2>1. owed' \in [Thread -> SUBSET LeafEntry] /\ owed'[t] \subseteq owed[t] /\ owed'[t] \subseteq Contents'
      BY <1>1, <1>11 DEF OrderTypes, Told
    <2>2. QED
      BY <1>1, <1>3, <2>1, ReturnsOrder
  <1>13. Ordered(g)'
    <2>1. at[t] # "idle"
      BY <1>2
    <2>2. QED
      BY <1>2, <1>8, <1>10, <1>11, <1>12, <2>1, WriteOrder
  <1>14. QED
    BY <1>9, <1>13

\* A step of an insert as its caller sees it.
Tells(t, values) ==
    /\ call' = call /\ owed' = owed
    /\ \E value \in values : answer' = [answer EXCEPT ![t] = value]
    /\ got' = got \/ got' = [got EXCEPT ![t] = <<>>]

(* What the end of a step tells. *)
LEMMA LiftTells ==
  ASSUME NEW t, owed' = owed
  PROVE  /\ Returns(t, "inserted") => Tells(t, {"inserted"})
         /\ \A p, above, result : Lift(t, p, above, result) => Tells(t, {"applied", "inserted"})
  <1>1. Returns(t, "inserted") => Tells(t, {"inserted"})
    BY DEF Returns, Tells
  <1>2. ASSUME NEW p, NEW above, NEW result, Lift(t, p, above, result)
        PROVE  Tells(t, {"applied", "inserted"})
    <2>1. CASE above = <<>>
      <3>1. Returns(t, "inserted")
        BY <1>2, <2>1 DEF Lift
      <3>2. QED
        BY <3>1 DEF Returns, Tells
    <2>2. CASE above # <<>>
      BY <1>2, <2>2 DEF Lift, Tells
    <2>3. QED
      BY <2>1, <2>2
  <1>3. QED
    BY <1>1, <1>2

(* The sizes of a leaf that takes an entry, and when it has to be split. *)
LEMMA LeafGrows ==
  ASSUME Sound(pages), NEW p \in DOMAIN pages, pages[p].kind = "leaf", NEW e \in LeafEntry
  PROVE  LET s == InsertSorted(pages[p].entries, e) IN
         /\ RequiredLen("leaf", s) <= PayloadSize + Largest
         /\ ~ Fits("leaf", s) => ~ IsSafe(pages[p], e.key)
  <1> DEFINE old == pages[p].entries
             s == InsertSorted(old, e)
             probe == [key |-> e.key]
             S == LeafEntry \cup {probe}
  <1>1. old \in Seq(LeafEntry) /\ RequiredLen("leaf", old) <= PayloadSize
    <2>1. pages[p] \in LeafPage
      BY PageRight DEF NodePage
    <2>2. Fits("leaf", old)
      BY DEF Sound
    <2>3. QED
      BY <2>1, <2>2 DEF LeafPage, Fits
  <1>2. e.key \in ShortKeys
    BY DEF LeafEntry
  <1>3. EntrySize("leaf", e) \in Nat /\ EntrySize("leaf", e) <= Largest
    BY <1>2, LargestRight
  <1>4. Sized(S) /\ old \in Seq(S) /\ probe \in S /\ Sized(LeafEntry)
    BY <1>1, <1>2, EntriesShort DEF Sized
  <1>5. EntrySize("leaf", probe) = EntrySize("leaf", e)
    BY DEF EntrySize
  <1>6. IsSafe(pages[p], e.key) => Fits("leaf", InsertSorted(old, probe))
    BY DEF IsSafe
  <1> HIDE DEF S, old, probe
  <1>7. /\ RequiredLen("leaf", old) \in Nat
        /\ RequiredLen("leaf", s) = RequiredLen("leaf", old) + EntrySize("leaf", e)
    BY <1>1, <1>4, InsertSortedRight
  <1>8. RequiredLen("leaf", InsertSorted(old, probe)) = RequiredLen("leaf", old) + EntrySize("leaf", probe)
    BY <1>4, InsertSortedRight
  <1> HIDE DEF s
  <1>9. RequiredLen("leaf", s) <= PayloadSize + Largest
    BY <1>1, <1>3, <1>7, LargestRight DEF Largest
  <1>10. ~ Fits("leaf", s) => ~ IsSafe(pages[p], e.key)
    BY <1>5, <1>6, <1>7, <1>8 DEF Fits
  <1>11. QED
    BY <1>9, <1>10 DEF s, old

(* The parent of a page that an insert has gone down to. *)
LEMMA DescendParent ==
  ASSUME TreeInv, NEW c, Ordered(c), NEW t \in Thread, at[t] = "descend", held[t] # <<>>
  PROVE  Parent(t, ChildFor(pages[Last(held[t])], Towards(call[t].entry.key)), held[t])
  <1> DEFINE p == ChildFor(pages[Last(held[t])], Towards(call[t].entry.key))
  <1>1. p \notin ToSet(held[t]) /\ ChildOf(p, Last(held[t]))
    BY DescendLeads DEF ChildOf
  <1>2. held[t] \in Seq(Nat)
    BY DEF TreeInv, Types
  <1> HIDE DEF p
  <1>3. Parent(t, p, held[t])
    BY <1>1, <1>2 DEF Parent, ToSet
  <1>4. QED
    BY <1>3 DEF p

(* Descend *)
LEMMA DescendOrder ==
  ASSUME OwnKeys, TreeInv, NEW c, Ordered(c), NEW t \in Thread, Descend(t)
  PROVE  /\ \E d : Ordered(d)'
         /\ \/ UNCHANGED <<pages, call, answer, got, owed>>
            \/ Contents' = Contents \cup {call[t].entry} /\ Tells(t, {"applied", "inserted"})
  <1> DEFINE entry == call[t].entry
             p == IF held[t] = <<>> THEN Root ELSE ChildFor(pages[Last(held[t])], Towards(entry.key))
             above == IF IsSafe(pages[p], entry.key) THEN <<>> ELSE held[t]
             s == InsertSorted(pages[p].entries, entry)
             n == Len(pages) + 1
             result == SplitLeaf(p, s)
  <1>1. /\ at[t] = "descend" /\ KeyLen[entry.key] <= MaxKeyLen /\ Writable(p) /\ owed' = owed
        /\ IF IsLeaf(p)
           THEN InsertIntoLeaf(t, p, above)
           ELSE /\ held' = [held EXCEPT ![t] = Append(above, p)]
                /\ UNCHANGED <<pages, call, answer, got, made, at, latch, cursor, pending, stale>>
    BY DEF Descend
  <1>2. /\ call[t].op = "insert" /\ p \in DOMAIN pages /\ Has(c, p, entry.key)
        /\ held[t] = <<>> => p = Root
        /\ entry \in [key : DOMAIN KeyLen, rid : Nat]
    BY <1>1, DescendLeads
  <1>3. entry \in LeafEntry
    BY <1>1, <1>2 DEF LeafEntry, ShortKeys
  <1>4. Only(t, p) /\ Sound(pages) /\ Linked(pages) /\ Tree(c)
    BY <1>1, OnlyRight DEF TreeInv, Ordered
  <1>5. held[t] # <<>> => Parent(t, p, held[t])
    BY <1>1, DescendParent
  <1>6. above = <<>> \/ above = held[t]
    OBVIOUS
  <1>7. ~ IsSafe(pages[p], entry.key) => above = held[t]
    OBVIOUS
  <1>8. p = IF held[t] = <<>> THEN Root ELSE ChildFor(pages[Last(held[t])], Towards(call[t].entry.key))
    OBVIOUS
  <1>9. s = InsertSorted(pages[p].entries, entry)
    OBVIOUS
  <1> HIDE DEF p, above, s, n, result
  <1>10. CASE ~ IsLeaf(p)
    <2>1. /\ held' = [held EXCEPT ![t] = Append(above, p)]
          /\ UNCHANGED <<pages, call, answer, got, owed, made, at, latch, cursor, pending, stale>>
      BY <1>1, <1>10
    <2>2. Ordered(c)'
      BY <1>1, <1>6, <1>8, <2>1, DownOrder
    <2>3. QED
      BY <2>1, <2>2
  <1>11. CASE IsLeaf(p) /\ Fits("leaf", s)
    <2>1. pages' = [pages EXCEPT ![p].entries = s] /\ Returns(t, "inserted") /\ pages[p].kind = "leaf"
      BY <1>1, <1>9, <1>11 DEF InsertIntoLeaf, IsLeaf
    <2>2. Ordered(c)' /\ Contents' = Contents \cup {entry}
      BY <1>1, <1>2, <1>3, <1>4, <1>9, <2>1, InsertOrder
    <2>3. Tells(t, {"inserted"})
      BY <1>1, <2>1, LiftTells
    <2>4. Tells(t, {"applied", "inserted"})
      BY <2>3 DEF Tells
    <2>5. QED
      BY <2>2, <2>4
  <1>12. CASE IsLeaf(p) /\ ~ Fits("leaf", s)
    <2>1. Lift(t, p, above, result) /\ pages[p].kind = "leaf"
      BY <1>1, <1>9, <1>12 DEF InsertIntoLeaf, IsLeaf, result
    <2>2. above = held[t] /\ RequiredLen("leaf", s) <= PayloadSize + Largest
      BY <1>2, <1>3, <1>4, <1>7, <1>9, <1>12, <2>1, LeafGrows
    <2>3. /\ s \in Seq(LeafEntry) /\ Sorted(s) /\ ToSet(s) = ToSet(pages[p].entries) \cup {entry}
          /\ \A e \in ToSet(s) : Has(c, p, e.key)
      BY <1>1, <1>2, <1>3, <1>9, <2>1, EntryPlaced
    <2>4. PICK left, right : /\ SplitInto(c, p, n, result, left, right)
                             /\ \A e : e \in ToSet(s) <=> e \in ToSet(left.entries) \/ e \in ToSet(right.entries)
      BY <1>2, <1>4, <1>12, <2>1, <2>2, <2>3, SplitLeafOrder DEF n, result
    <2>5. Shares(t, p, left, right)
      BY <2>3, <2>4 DEF Shares
    <2>6. Splits(c, t, p, n, result, left, right)
      BY <1>1, <1>2, <1>4, <2>4, <2>5 DEF Splits, n
    <2>7. (\E d : Ordered(d)') /\ Gains(t, p)
      <3>1. CASE held[t] = <<>>
        <4>1. p = Root /\ above = <<>>
          BY <1>2, <2>2, <3>1
        <4>2. Splits(c, t, Root, n, result, left, right) /\ Lift(t, Root, <<>>, result)
          BY <2>1, <2>6, <4>1
        <4>3. (\E d : Ordered(d)') /\ Gains(t, Root)
          BY <1>1, <4>2, GrowOrder
        <4>4. QED
          BY <4>1, <4>3
      <3>2. CASE held[t] # <<>>
        <4>1. Parent(t, p, above)
          BY <1>5, <2>2, <3>2
        <4>2. QED
          BY <1>1, <2>1, <2>6, <4>1, LiftOrder
      <3>3. QED
        BY <3>1, <3>2
    <2>8. Contents' = Contents \cup {entry}
      BY <2>1, <2>7 DEF Gains
    <2>9. Tells(t, {"applied", "inserted"})
      BY <1>1, <2>1, LiftTells
    <2>10. QED
      BY <2>7, <2>8, <2>9
  <1>13. QED
    BY <1>10, <1>11, <1>12

(* The page that a separator is for. *)
LEMMA PropagateLeads ==
  ASSUME TreeInv, NEW c, Ordered(c), NEW t \in Thread, at[t] = "propagate"
  PROVE  LET p == Last(held[t])
             s == InsertSorted(pages[p].entries, pending[t])
         IN  /\ call[t].op = "insert" /\ p \in DOMAIN pages /\ Only(t, p) /\ pages[p].kind = "internal"
             /\ Node(c, p, pages[p].first, s)
             /\ Front(held[t]) # <<>> => Parent(t, p, Front(held[t]))
  <1> DEFINE p == Last(held[t])
             s == InsertSorted(pages[p].entries, pending[t])
             above == Front(held[t])
             q == Last(above)
             key == call[t].entry.key
  <1>1. /\ Types /\ Doing(t) /\ Sound(pages) /\ Tree(c) /\ Writes(c, t)
    BY DEF TreeInv, Ordered, Guided
  <1>2. call[t].op = "insert" /\ held[t] # <<>> /\ held[t] \in Seq(Nat) /\ call[t] \in AnyCall
    BY <1>1 DEF Doing, Types
  <1>3. PICK h : Levels(h)
    BY DEF TreeInv, Ranked
  <1>4. /\ DOMAIN held[t] = 1..Len(held[t]) /\ Len(held[t]) \in Nat /\ Len(held[t]) # 0
        /\ \A i \in DOMAIN held[t] : h[held[t][i]] \in Nat /\ held[t][i] \in ToSet(held[t])
        /\ p = held[t][Len(held[t])]
        /\ p \in DOMAIN pages /\ pages[p].kind = "internal"
    BY <1>2, <1>3, LastLowest
  <1>5. Only(t, p)
    <2>1. p \in ToSet(held[t])
      BY <1>4
    <2>2. QED
      BY <2>1, OnlyRight
  <1>6. Node(c, p, pages[p].first, s)
    <2>1. Meant(p, s)
      BY DEF Meant, Owes
    <2>2. QED
      BY <1>1, <1>4, <2>1 DEF Tree
  <1>7. key \in Nat
    <2>1. call[t].entry \in [key : DOMAIN KeyLen, rid : Nat]
      BY <1>2, CallsRight
    <2>2. QED
      BY <2>1, PayloadAssumption
  <1>8. ASSUME above # <<>> PROVE Parent(t, p, above)
    <2>1. above \in Seq(Nat) /\ Len(above) = Len(held[t]) - 1
          /\ \A i \in DOMAIN above : i \in DOMAIN held[t] /\ i < Len(held[t]) /\ above[i] = held[t][i]
      BY <1>2, FrontRight
    <2>2. /\ Len(above) \in Nat /\ Len(above) \in DOMAIN above /\ Len(above) + 1 = Len(held[t])
          /\ q = above[Len(above)]
      <3>1. Len(above) \in Nat /\ Len(above) # 0 /\ DOMAIN above = 1..Len(above)
        <4> HIDE DEF above
        <4>1. above \in Seq(Nat) /\ above # <<>>
          BY <1>8, <2>1
        <4>2. QED
          BY <4>1
      <3>2. Len(above) + 1 = Len(held[t])
        BY <1>4, <2>1
      <3>3. QED
        BY <3>1, <3>2 DEF Last
    <2>3. /\ Len(above) \in DOMAIN held[t] /\ Len(above) + 1 \in DOMAIN held[t]
          /\ q = held[t][Len(above)] /\ p = held[t][Len(above) + 1]
      BY <1>4, <2>1, <2>2
    <2>4. Coupled(h, t)
      BY <1>3 DEF Levels
    <2>5. \A i \in DOMAIN above : above[i] # p
      <3> SUFFICES ASSUME NEW i \in DOMAIN above PROVE h[p] < h[above[i]] /\ h[p] \in Nat
        OBVIOUS
      <3>1. i \in DOMAIN held[t] /\ i < Len(held[t]) /\ above[i] = held[t][i] /\ Len(held[t]) \in DOMAIN held[t]
        BY <1>4, <2>1
      <3>2. h[held[t][Len(held[t])]] < h[held[t][i]] /\ h[held[t][Len(held[t])]] \in Nat
        BY <1>4, <2>4, <3>1 DEF Coupled
      <3>3. QED
        BY <1>4, <3>1, <3>2
    <2> HIDE DEF above, q, p, s
    <2>6. q # p /\ q \in ToSet(held[t])
      BY <1>4, <2>2, <2>3, <2>5
    <2>7. q \in DOMAIN pages /\ Node(c, q, pages[q].first, pages[q].entries)
      BY <1>1, <2>6, HeldNode DEF p
    <2>8. Has(c, q, key) /\ p = ChildFor(pages[q], Towards(key))
      BY <1>1, <2>3 DEF Writes
    <2>9. ChildOf(p, q)
      BY <1>1, <1>7, <2>7, <2>8, WriterDown DEF Tree, ChildOf
    <2>10. QED
      BY <1>8, <2>1, <2>5, <2>6, <2>9 DEF Parent, p, q
  <1>9. QED
    BY <1>2, <1>4, <1>5, <1>6, <1>8

(* The sizes of an internal page that takes a separator. *)
LEMMA NodeGrows ==
  ASSUME TreeInv, NEW t \in Thread, at[t] = "propagate", NEW p, p = Last(held[t]),
         p \in DOMAIN pages, pages[p].kind = "internal"
  PROVE  LET s == InsertSorted(pages[p].entries, pending[t]) IN
         /\ RequiredLen("internal", s) <= PayloadSize + Largest
         /\ ~ Fits("internal", s) /\ Front(held[t]) = <<>> => p = Root
  <1> DEFINE split == pending[t]
             old == pages[p].entries
             s == InsertSorted(old, split)
  <1>1. Types /\ Doing(t) /\ Sound(pages)
    BY DEF TreeInv
  <1>2. split \in NodeEntry /\ held[t] # <<>> /\ held[t] \in Seq(Nat)
    BY <1>1 DEF Doing, Types
  <1>3. old \in Seq(NodeEntry) /\ RequiredLen("internal", old) <= PayloadSize
    <2>1. pages[p] \in NodePage
      BY <1>1, PageRight DEF LeafPage
    <2>2. Fits("internal", old)
      BY <1>1 DEF Sound
    <2>3. QED
      BY <2>1, <2>2 DEF NodePage, Fits
  <1>4. Sized(NodeEntry)
    BY EntriesShort
  <1>5. split.key \in ShortKeys
    BY <1>2 DEF NodeEntry
  <1>6. EntrySize("internal", split) = 4 + KeyLen[split.key] + 8
    BY DEF EntrySize
  <1>7. Roomy(pages[p]) <=> RequiredLen("internal", old) + 4 + MaxKeyLen + 8 <= PayloadSize
    BY DEF Roomy
  <1> HIDE DEF old, split
  <1>8. /\ RequiredLen("internal", old) \in Nat
        /\ RequiredLen("internal", s) = RequiredLen("internal", old) + EntrySize("internal", split)
    BY <1>2, <1>3, <1>4, InsertSortedRight
  <1>9. /\ EntrySize("internal", split) \in Nat /\ EntrySize("internal", split) <= Largest
        /\ MaxKeyLen \in Int /\ PayloadSize \in Nat
    BY <1>5, LargestRight
  <1>10. KeyLen[split.key] \in Nat /\ KeyLen[split.key] <= MaxKeyLen
    BY <1>5, PayloadAssumption DEF ShortKeys
  <1> HIDE DEF s
  <1>11. RequiredLen("internal", s) <= PayloadSize + Largest
    BY <1>3, <1>8, <1>9, LargestRight DEF Largest
  <1>12. ASSUME ~ Fits("internal", s), Front(held[t]) = <<>> PROVE p = Root
    <2>1. ~ Roomy(pages[p])
      <3>1. ~ (RequiredLen("internal", s) <= PayloadSize)
        BY <1>12 DEF Fits
      <3>2. QED
        BY <1>6, <1>7, <1>8, <1>9, <1>10, <3>1
    <2>2. Len(Front(held[t])) = Len(held[t]) - 1 /\ Len(held[t]) \in Nat
      BY <1>2, FrontRight
    <2>3. Len(held[t]) = 1
      BY <1>12, <2>2
    <2>4. held[t][1] = p
      BY <2>3 DEF Last
    <2>5. QED
      BY <1>1, <1>2, <2>1, <2>4 DEF Doing
  <1>13. QED
    BY <1>11, <1>12 DEF s, old, split

(* A separator finds its place in a page with room. *)
LEMMA RaiseOrder ==
  ASSUME OwnKeys, TreeInv, NEW c, Ordered(c), NEW t \in Thread, at[t] = "propagate",
         NEW p, p = Last(held[t]), NEW s, s = InsertSorted(pages[p].entries, pending[t]),
         pages' = [pages EXCEPT ![p].entries = s], Returns(t, "inserted"), owed' = owed
  PROVE  Ordered(c)' /\ Contents' = Contents
  <1>1. /\ Types /\ OrderTypes /\ Doing(t) /\ Told(t) /\ Tree(c) /\ Sound(pages)
    BY DEF TreeInv, Ordered
  <1>2. /\ call[t].op = "insert" /\ p \in DOMAIN pages /\ Only(t, p) /\ pages[p].kind = "internal"
        /\ Node(c, p, pages[p].first, s)
    BY PropagateLeads
  <1>3. /\ DOMAIN pages' = DOMAIN pages /\ \A q \in DOMAIN pages : q # p => pages'[q] = pages[q]
        /\ pages'[p].kind = "internal" /\ pages'[p].first = pages[p].first /\ pages'[p].entries = s
    <2>1. pages[p] \in NodePage
      BY <1>1, <1>2, PageRight DEF LeafPage
    <2>2. QED
      BY <1>2, <2>1 DEF NodePage
  <1>4. at'[t] = "idle" /\ \A u \in Thread \ {t} : Same(u)
    BY <1>1, ReturnsRight DEF Returns, Goes, Types
  <1>5. Contents' = Contents
    <2>1. \A q \in DOMAIN pages : /\ pages'[q].kind = pages[q].kind
                                  /\ pages[q].kind = "leaf" => pages'[q] = pages[q]
      BY <1>2, <1>3
    <2>2. \A e : e \in Contents' <=>
                    \E q \in DOMAIN pages' : pages'[q].kind = "leaf" /\ e \in ToSet(pages'[q].entries)
      BY DEF Contents, IsLeaf
    <2>3. \A e : e \in Contents' <=> e \in Contents
      BY <1>3, <2>1, <2>2, ContentsAre
    <2>4. QED
      BY <2>3
  <1>6. Tree(c)'
    <2>1. Areas(DOMAIN pages', c) /\ Rooted(DOMAIN pages', c)
      BY <1>1, <1>3 DEF Tree
    <2>2. ASSUME NEW q \in DOMAIN pages
          PROVE  /\ Drawn(c, q, pages'[q])
                 /\ \A x : pages'[q].kind = "internal" /\ Meant(q, x)' => Node(c, q, pages'[q].first, x)
      <3>1. CASE q = p
        <4>1. NodeDrawn(c, p, pages'[p])
          BY <1>2, <1>3, NodeIsDrawn
        <4>2. \A u \in Thread : ~ Owes(u, p)'
          <5>1. ASSUME NEW u \in Thread, Owes(u, p)' PROVE FALSE
            <6>1. u # t
              BY <1>4, <5>1 DEF Owes
            <6>2. Owes(u, p)
              BY <1>4, <5>1, <6>1 DEF Owes, Same
            <6>3. p \in ToSet(held[u])
              BY <6>2, OwesHeld
            <6>4. QED
              BY <1>2, <6>1, <6>3 DEF Only
          <5>2. QED
            BY <5>1
        <4>3. \A x : Meant(p, x)' => x = s
          BY <1>3, <4>2 DEF Meant
        <4>4. QED
          BY <1>2, <1>3, <3>1, <4>1, <4>3 DEF Drawn
      <3>2. CASE q # p
        <4>1. pages'[q] = pages[q]
          BY <1>3, <3>2
        <4>2. \A u \in Thread : Owes(u, q)' <=> Owes(u, q)
          BY <1>4, <3>2 DEF Owes, Same
        <4>3. \A u \in Thread : Owes(u, q) => pending'[u] = pending[u]
          BY <1>4, <3>2 DEF Owes, Same
        <4>4. \A x : Meant(q, x)' => Meant(q, x)
          BY <4>1, <4>2, <4>3 DEF Meant
        <4>5. QED
          BY <1>1, <4>1, <4>4 DEF Tree
      <3>3. QED
        BY <3>1, <3>2
    <2>3. QED
      BY <1>3, <2>1, <2>2 DEF Tree
  <1>7. /\ OrderTypes' /\ Told(t)' /\ Guided(c, t)'
        /\ \A u \in Thread \ {t} :
              Same(u) /\ got'[u] = got[u] /\ answer'[u] = answer[u] /\ made'[u] = made[u]
    <2>1. owed' \in [Thread -> SUBSET LeafEntry] /\ owed'[t] \subseteq owed[t] /\ owed'[t] \subseteq Contents'
      BY <1>1, <1>5 DEF OrderTypes, Told
    <2>2. QED
      BY <1>1, <2>1, ReturnsOrder
  <1>8. Ordered(c)'
    <2>1. \A q \in DOMAIN pages : /\ q \in DOMAIN pages' /\ c.lo[q] = c.lo[q]
                                  /\ q # p => pages'[q] = pages[q] /\ c.hi[q] = c.hi[q]
      BY <1>3
    <2>2. QED
      BY <1>2, <1>5, <1>6, <1>7, <2>1, WriteOrder
  <1>9. QED
    BY <1>5, <1>8

(* Propagate *)
LEMMA PropagateOrder ==
  ASSUME OwnKeys, TreeInv, NEW c, Ordered(c), NEW t \in Thread, Propagate(t)
  PROVE  /\ \E d : Ordered(d)'
         /\ Contents' = Contents /\ Tells(t, {"applied", "inserted"}) /\ answer[t] = "applied"
  <1> DEFINE p == Last(held[t])
             s == InsertSorted(pages[p].entries, pending[t])
             n == Len(pages) + 1
             above == Front(held[t])
             result == SplitInternal(p, s)
  <1>1. /\ at[t] = "propagate" /\ owed' = owed
        /\ IF Fits("internal", s)
           THEN pages' = [pages EXCEPT ![p].entries = s] /\ Returns(t, "inserted")
           ELSE Lift(t, p, above, result)
    BY DEF Propagate
  <1>2. /\ call[t].op = "insert" /\ p \in DOMAIN pages /\ Only(t, p) /\ pages[p].kind = "internal"
        /\ Node(c, p, pages[p].first, s)
        /\ above # <<>> => Parent(t, p, above)
    BY <1>1, PropagateLeads
  <1>3. answer[t] = "applied"
    BY <1>1 DEF Ordered, Told, Answered
  <1>4. Sound(pages) /\ Tree(c)
    BY DEF TreeInv, Ordered
  <1>5. /\ RequiredLen("internal", s) <= PayloadSize + Largest
        /\ ~ Fits("internal", s) /\ above = <<>> => p = Root
    BY <1>1, <1>2, NodeGrows
  <1>6. p = Last(held[t]) /\ s = InsertSorted(pages[p].entries, pending[t])
    OBVIOUS
  <1> HIDE DEF p, s, n, above, result
  <1>7. CASE Fits("internal", s)
    <2>1. pages' = [pages EXCEPT ![p].entries = s] /\ Returns(t, "inserted")
      BY <1>1, <1>7
    <2>2. Ordered(c)' /\ Contents' = Contents
      BY <1>1, <1>6, <2>1, RaiseOrder
    <2>3. Tells(t, {"inserted"})
      BY <1>1, <2>1, LiftTells
    <2>4. Tells(t, {"applied", "inserted"})
      BY <2>3 DEF Tells
    <2>5. QED
      BY <1>3, <2>2, <2>4
  <1>8. CASE ~ Fits("internal", s)
    <2>1. Lift(t, p, above, result)
      BY <1>1, <1>8
    <2>2. PICK left, right : SplitInto(c, p, n, result, left, right)
      BY <1>2, <1>4, <1>5, <1>8, SplitInternalOrder DEF n, result
    <2>3. Splits(c, t, p, n, result, left, right)
      BY <1>1, <1>2, <1>6, <2>2 DEF Splits, Shares, n
    <2>4. (\E d : Ordered(d)') /\ Gains(t, p)
      <3>1. CASE above = <<>>
        <4>1. p = Root
          BY <1>5, <1>8, <3>1
        <4>2. Splits(c, t, Root, n, result, left, right) /\ Lift(t, Root, <<>>, result)
          BY <2>1, <2>3, <3>1, <4>1
        <4>3. (\E d : Ordered(d)') /\ Gains(t, Root)
          BY <1>1, <4>2, GrowOrder
        <4>4. QED
          BY <4>1, <4>3
      <3>2. CASE above # <<>>
        BY <1>1, <1>2, <2>1, <2>3, <3>2, LiftOrder
      <3>3. QED
        BY <3>1, <3>2
    <2>5. Contents' = Contents
      BY <1>2, <2>4 DEF Gains
    <2>6. QED
      BY <1>1, <1>3, <2>1, <2>4, <2>5, LiftTells
  <1>9. QED
    BY <1>7, <1>8

------------------------------------------------------------------------------
(* The invariant.                                                          *)

(* The empty tree. *)
LEMMA OrderInit == Init => OrderInv
  <1> SUFFICES ASSUME Init PROVE OrderInv
    OBVIOUS
  <1> DEFINE zero == [p \in {Root} |-> 0]
             c == [lo |-> zero, hi |-> zero, level |-> zero]
  <1>1. /\ pages = <<Leaf(<<>>, NoPage)>>
        /\ answer = [t \in Thread |-> "idle"] /\ got = [t \in Thread |-> <<>>]
        /\ owed = [t \in Thread |-> {}] /\ made = [t \in Thread |-> 0]
        /\ at = [t \in Thread |-> "idle"] /\ cursor = [t \in Thread |-> Nowhere]
        /\ call = [t \in Thread |-> Idle]
    BY DEF Init
  <1>2. DOMAIN pages = {Root} /\ pages[Root] = Leaf(<<>>, NoPage)
    BY <1>1 DEF Root
  <1>3. /\ pages[Root].kind = "leaf" /\ pages[Root].entries = <<>> /\ pages[Root].next = NoPage
    BY <1>2 DEF Leaf
  <1>4. zero \in [{Root} -> Nat] /\ zero[Root] = 0
    OBVIOUS
  <1>5. c.lo = zero /\ c.hi = zero /\ c.level = zero
    OBVIOUS
  <1> HIDE DEF zero, c
  <1>6. Areas({Root}, c) /\ Rooted({Root}, c)
    BY <1>4, <1>5 DEF Areas, Charted, Disjoint, Under, Open, Rooted
  <1>7. Drawn(c, Root, pages[Root])
    BY <1>3, <1>4, <1>5 DEF Drawn, LeafDrawn, Sorted, Open
  <1>8. Tree(c)
    BY <1>2, <1>3, <1>6, <1>7 DEF Tree
  <1>9. OrderTypes
    <2>1. Nowhere.position \in Position
      BY DEF Nowhere, Position, Kinds
    <2>2. QED
      BY <1>1, <2>1 DEF OrderTypes
  <1>10. ASSUME NEW t \in Thread PROVE Told(t) /\ Guided(c, t)
    BY <1>1 DEF Told, Guided, Answered, Reading, Idle
  <1>11. Ordered(c)
    BY <1>8, <1>9, <1>10 DEF Ordered
  <1>12. QED
    BY <1>11, TreeInit DEF OrderInv

(* Nothing happens. *)
LEMMA StutterOrder ==
  ASSUME NEW c, Ordered(c), UNCHANGED vars
  PROVE  Ordered(c)'
  <1>1. UNCHANGED <<pages, call, answer, got, owed, made, at, held, latch, cursor, pending, stale>>
    BY DEF vars
  <1>2. Tree(c)'
    BY <1>1, TreeKept DEF Owes, Ordered
  <1>3. OrderTypes'
    BY <1>1 DEF Ordered, OrderTypes
  <1>4. \A u \in Thread : Told(u)' /\ Guided(c, u)'
    BY <1>1, OtherKept DEF Ordered, Same, Kept
  <1>5. QED
    BY <1>2, <1>3, <1>4 DEF Ordered

(* Every step keeps the order, if deletes keep apart and keys are not      *)
(* repeated.                                                               *)
LEMMA OrderStays == DeletesAlone /\ OwnKeys /\ OrderInv /\ [Next]_vars => OrderInv'
  <1> SUFFICES ASSUME DeletesAlone, OwnKeys, OrderInv, [Next]_vars PROVE OrderInv'
    OBVIOUS
  <1>1. TreeInv /\ TreeInv'
    BY TreeStays DEF OrderInv
  <1>2. PICK c : Ordered(c)
    BY DEF OrderInv
  <1>3. ASSUME NEW t \in Thread, Step(t) PROVE \E d : Ordered(d)'
    <2>1. CASE Seek(t) \/ Walk(t) \/ Restart(t)
      BY <1>1, <1>2, <2>1, SeekOrder, WalkOrder, RestartOrder
    <2>2. CASE NextEntry(t) \/ TooLarge(t)
      BY <1>1, <1>2, <2>2, NextOrder, TooLargeOrder
    <2>3. CASE Descend(t) \/ Propagate(t)
      BY <1>1, <1>2, <2>3, DescendOrder, PropagateOrder
    <2>4. CASE Erase(t)
      BY <1>1, <1>2, <2>4, EraseOrder
    <2>5. QED
      BY <1>3, <2>1, <2>2, <2>3, <2>4 DEF Step
  <1>4. ASSUME NEW t \in Thread, NEW k, Call(t, k) PROVE \E d : Ordered(d)'
    BY <1>1, <1>2, <1>4, CallOrder
  <1>5. CASE Finished \/ UNCHANGED vars
    <2>1. UNCHANGED vars
      BY <1>5 DEF Finished
    <2>2. Ordered(c)'
      BY <1>2, <2>1, StutterOrder
    <2>3. QED
      BY <1>1, <2>2 DEF OrderInv
  <1>6. ASSUME NEW t \in Thread, Step(t) PROVE OrderInv'
    BY <1>1, <1>3, <1>6 DEF OrderInv
  <1>7. ASSUME NEW t \in Thread, NEW k, Call(t, k) PROVE OrderInv'
    BY <1>1, <1>4, <1>7 DEF OrderInv
  <1>8. QED
    BY <1>5, <1>6, <1>7 DEF Next

(* Where deletes keep apart from other writers, and keys are not repeated, *)
(* the tree has a chart at any time: every leaf has the keys of its range, *)
(* splits of which the parent does not know yet included, and whoever reads *)
(* or writes is at or to the left of what it looks for.                    *)
THEOREM OrderAlways == DeletesAlone /\ OwnKeys => (Spec => []OrderInv)
  <1> SUFFICES ASSUME DeletesAlone /\ OwnKeys PROVE Spec => []OrderInv
    OBVIOUS
  <1>1. DeletesAlone /\ OwnKeys /\ OrderInv /\ [Next]_vars => OrderInv'
    BY OrderStays
  <1>2. OrderInv /\ [Next]_vars => OrderInv'
    BY <1>1
  <1>3. QED
    BY OrderInit, <1>2, PTL DEF Spec

------------------------------------------------------------------------------
(* Searchable: what the chart says of the leaves.                          *)

(* Finitely many numbers have a bound. *)
LEMMA Bounded ==
  ASSUME NEW n \in Nat, NEW f \in [1..n -> Nat]
  PROVE  \E b \in Nat : \A i \in 1..n : f[i] <= b
  <1> DEFINE Good == {m \in 0..n : \E b \in Nat : \A i \in 1..m : f[i] <= b}
  <1>1. 0 \in Good
    <2>1. \A i \in 1..0 : f[i] <= 0
      OBVIOUS
    <2>2. QED
      BY <2>1
  <1>2. ASSUME NEW m \in 1..n, m - 1 \in Good PROVE m \in Good
    <2>1. PICK b \in Nat : \A i \in 1..(m - 1) : f[i] <= b
      BY <1>2
    <2> DEFINE d == IF b <= f[m] THEN f[m] ELSE b
    <2>2. f[m] \in Nat
      OBVIOUS
    <2>3. d \in Nat /\ b <= d /\ f[m] <= d
      BY <2>2
    <2> HIDE DEF d
    <2>4. ASSUME NEW i \in 1..m PROVE f[i] <= d
      <3>1. CASE i = m
        BY <2>3, <3>1
      <3>2. CASE i # m
        <4>1. i \in 1..(m - 1)
          BY <3>2
        <4>2. f[i] <= b /\ f[i] \in Nat
          BY <2>1, <4>1
        <4>3. QED
          BY <2>3, <4>2
      <3>3. QED
        BY <3>1, <3>2
    <2>5. \E a \in Nat : \A i \in 1..m : f[i] <= a
      BY <2>3, <2>4
    <2>6. m \in 0..n
      OBVIOUS
    <2>7. QED
      BY <2>5, <2>6
  <1> HIDE DEF Good
  <1>3. 0..n \subseteq Good
    BY <1>1, <1>2, Climbs
  <1>4. n \in Good
    BY <1>3
  <1>5. QED
    BY <1>4 DEF Good

\* f takes from next what it makes of each element that is not an end.
Follows(f, D, Ends, next, base, step) ==
    \A p \in D : f[p] = IF p \in Ends THEN base[p] ELSE step[<<p, f[next[p]]>>]

(* Where each step leads to a smaller rank, there is such a function. *)
LEMMA Recursion ==
  ASSUME NEW D, NEW A, NEW n \in Nat, NEW rank \in [D -> 0..n], NEW Ends, NEW next \in [D -> D],
         \A p \in D : p \notin Ends => rank[next[p]] < rank[p],
         NEW base \in [D -> A], NEW step \in [D \X A -> A]
  PROVE  \E f \in [D -> A] : Follows(f, D, Ends, next, base, step)
  <1> DEFINE Right(f, p) == f[p] = IF p \in Ends THEN base[p] ELSE step[<<p, f[next[p]]>>]
             Good == {m \in 0..n : \E f \in [D -> A] : \A p \in D : rank[p] <= m => Right(f, p)}
  <1>1. 0 \in Good
    <2>1. ASSUME NEW p \in D, rank[p] <= 0 PROVE p \in Ends
      <3>1. rank[p] \in Nat /\ rank[next[p]] \in Nat
        OBVIOUS
      <3>2. QED
        BY <2>1, <3>1
    <2>2. QED
      BY <2>1
  <1>2. ASSUME NEW m \in 1..n, m - 1 \in Good PROVE m \in Good
    <2>1. PICK f \in [D -> A] : \A p \in D : rank[p] <= m - 1 => Right(f, p)
      BY <1>2
    <2> DEFINE g == [p \in D |-> IF p \in Ends THEN base[p] ELSE step[<<p, f[next[p]]>>]]
    <2>2. ASSUME NEW p \in D PROVE g[p] \in A
      <3>1. next[p] \in D /\ f[next[p]] \in A /\ base[p] \in A
        OBVIOUS
      <3>2. <<p, f[next[p]]>> \in D \X A
        BY <3>1
      <3>3. step[<<p, f[next[p]]>>] \in A
        BY <3>2
      <3>4. QED
        BY <3>1, <3>3
    <2>3. g \in [D -> A]
      BY <2>2
    <2>4. ASSUME NEW p \in D, rank[p] <= m PROVE Right(g, p)
      <3>1. CASE p \in Ends
        BY <3>1
      <3>2. CASE p \notin Ends
        <4>1. next[p] \in D /\ rank[next[p]] <= m - 1
          <5>1. next[p] \in D /\ rank[next[p]] < rank[p]
            BY <3>2
          <5>2. rank[p] \in Nat /\ rank[next[p]] \in Nat
            BY <5>1
          <5>3. QED
            BY <2>4, <5>1, <5>2
        <4>2. Right(f, next[p])
          BY <2>1, <4>1
        <4>3. g[next[p]] = f[next[p]]
          BY <4>1, <4>2
        <4>4. g[p] = step[<<p, f[next[p]]>>]
          BY <3>2
        <4>5. QED
          BY <3>2, <4>3, <4>4
      <3>3. QED
        BY <3>1, <3>2
    <2> HIDE DEF g
    <2>5. \A p \in D : rank[p] <= m => Right(g, p)
      BY <2>4
    <2> HIDE DEF Right
    <2>6. QED
      BY <2>3, <2>5
  <1> HIDE DEF Good
  <1>3. 0..n \subseteq Good
    BY <1>1, <1>2, Climbs
  <1>4. n \in Good
    BY <1>3
  <1>5. PICK f \in [D -> A] : \A p \in D : rank[p] <= n => Right(f, p)
    BY <1>4 DEF Good
  <1>6. \A p \in D : rank[p] <= n
    OBVIOUS
  <1>7. QED
    BY <1>5, <1>6 DEF Follows

(* LeafFor ends in a leaf: at or to the left of what it is for, and in the *)
(* leftmost one where it is for nothing.                                   *)
LEMMA LeafForRight ==
  ASSUME Sound(pages), NEW c, Tree(c), NEW position \in Position
  PROVE  /\ LeafFor(position) \in Leaves
         /\ \A f : f.key \in Nat /\ Qualifies(f, position) => c.lo[LeafFor(position)] <= f.key
         /\ position.kind = "unbounded" => c.lo[LeafFor(position)] = 0
  <1> DEFINE D == DOMAIN pages
             Solves(d) == d = [p \in D |-> IF IsLeaf(p) THEN p ELSE d[ChildFor(pages[p], position)]]
             down[p \in D] == IF IsLeaf(p) THEN p ELSE down[ChildFor(pages[p], position)]
             next == [p \in D |-> IF IsLeaf(p) THEN p ELSE ChildFor(pages[p], position)]
             base == [p \in D |-> p]
             step == [a \in D \X D |-> a[2]]
  <1>1. LeafFor(position) = down[Root]
    BY DEF LeafFor
  <1>2. down = CHOOSE d : Solves(d)
    OBVIOUS
  <1>3. /\ D = 1..Len(pages) /\ Len(pages) \in Nat /\ c.level \in [D -> Nat] /\ c.lo \in [D -> Nat]
        /\ Root \in D /\ c.lo[Root] = 0
    BY DEF Sound, Tree, Areas, Charted, Rooted
  <1>4. ASSUME NEW p \in D, ~ IsLeaf(p)
        PROVE  LET q == ChildFor(pages[p], position) IN
               /\ q \in D /\ c.level[q] + 1 = c.level[p]
               /\ \A f : f.key \in Nat /\ Qualifies(f, position) /\ c.lo[p] <= f.key => c.lo[q] <= f.key
               /\ position.kind = "unbounded" => c.lo[q] = c.lo[p]
    <2>1. pages[p] \in NodePage /\ pages[p].kind = "internal"
      BY <1>4, PageRight DEF IsLeaf, LeafPage, NodePage
    <2>2. pages[p].entries \in Seq(NodeEntry) /\ NodeDrawn(c, p, pages[p])
      BY <2>1 DEF NodePage, Tree, Drawn
    <2>3. DOMAIN c.lo = D
      BY <1>3
    <2>4. QED
      BY <2>2, <2>3, ReaderDown
  <1>5. PICK n \in Nat : \A p \in D : c.level[p] <= n
    BY <1>3, Bounded
  <1>6. next \in [D -> D] /\ base \in [D -> D] /\ step \in [D \X D -> D]
    BY <1>4
  <1>7. /\ \A p \in D : base[p] = p /\ next[p] = IF IsLeaf(p) THEN p ELSE ChildFor(pages[p], position)
        /\ \A p, q \in D : step[<<p, q>>] = q
    OBVIOUS
  <1> HIDE DEF D, next, base, step, down
  <1>8. c.level \in [D -> 0..n]
    <2>1. \A p \in D : c.level[p] \in 0..n
      BY <1>3, <1>5
    <2>2. QED
      BY <1>3, <2>1
  <1>9. \A p \in D : p \notin Leaves => c.level[next[p]] < c.level[p]
    <2> SUFFICES ASSUME NEW p \in D, ~ IsLeaf(p) PROVE c.level[next[p]] < c.level[p]
      BY DEF Leaves, D
    <2>1. next[p] \in D /\ c.level[next[p]] + 1 = c.level[p]
      BY <1>4, <1>7
    <2>2. c.level[next[p]] \in Nat
      BY <1>3, <2>1
    <2>3. QED
      BY <2>1, <2>2
  <1>10. PICK d \in [D -> D] : Follows(d, D, Leaves, next, base, step)
    BY <1>6, <1>8, <1>9, Recursion
  <1>11. Solves(d)
    <2>1. \A p \in D : d[p] = IF IsLeaf(p) THEN p ELSE d[ChildFor(pages[p], position)]
      <3> SUFFICES ASSUME NEW p \in D
                   PROVE  d[p] = IF IsLeaf(p) THEN p ELSE d[ChildFor(pages[p], position)]
        OBVIOUS
      <3>1. p \in Leaves <=> IsLeaf(p)
        BY DEF Leaves, D
      <3>2. d[p] = IF p \in Leaves THEN base[p] ELSE step[<<p, d[next[p]]>>]
        BY <1>10 DEF Follows
      <3>3. next[p] \in D /\ d[next[p]] \in D
        BY <1>6, <1>10
      <3>4. step[<<p, d[next[p]]>>] = d[next[p]]
        BY <1>7, <3>3
      <3>5. QED
        BY <1>7, <3>1, <3>2, <3>4
    <2>2. QED
      BY <2>1
  <1>12. Solves(down)
    <2> HIDE DEF Solves
    <2>1. QED
      BY <1>2, <1>11
  <1>13. \A p \in D : down[p] = IF IsLeaf(p) THEN p ELSE down[ChildFor(pages[p], position)]
    BY <1>12
  <1> DEFINE Right(p) ==
                /\ down[p] \in Leaves
                /\ \A f : f.key \in Nat /\ Qualifies(f, position) /\ c.lo[p] <= f.key => c.lo[down[p]] <= f.key
                /\ position.kind = "unbounded" => c.lo[down[p]] = c.lo[p]
             Bad == {p \in D : ~ Right(p)}
             Low == {c.level[p] : p \in Bad}
  <1>14. \A p \in D : Right(p)
    <2> SUFFICES ASSUME Bad # {} PROVE FALSE
      OBVIOUS
    <2>1. Low \in SUBSET Nat /\ Low # {}
      BY <1>3
    <2>2. PICK m \in Low : \A x \in Low : m <= x
      BY <2>1, MinRight
    <2>3. PICK p \in Bad : c.level[p] = m
      BY <2>2
    <2>4. CASE IsLeaf(p)
      <3>1. down[p] = p /\ p \in Leaves
        BY <1>13, <2>4 DEF Leaves, D
      <3>2. QED
        BY <3>1
    <2>5. CASE ~ IsLeaf(p)
      <3> DEFINE q == ChildFor(pages[p], position)
      <3>1. /\ q \in D /\ c.level[q] + 1 = c.level[p] /\ down[p] = down[q]
            /\ \A f : f.key \in Nat /\ Qualifies(f, position) /\ c.lo[p] <= f.key => c.lo[q] <= f.key
            /\ position.kind = "unbounded" => c.lo[q] = c.lo[p]
        BY <1>4, <1>13, <2>5
      <3> HIDE DEF q
      <3>2. Right(q)
        <4> SUFFICES ASSUME q \in Bad PROVE FALSE
          BY <3>1
        <4>1. m <= c.level[q] /\ c.level[q] \in Nat /\ c.level[q] + 1 = m
          BY <1>3, <2>2, <2>3, <3>1
        <4>2. QED
          BY <4>1
      <3>3. Right(p)
        BY <3>1, <3>2
      <3>4. QED
        BY <3>3
    <2>6. QED
      BY <2>4, <2>5
  <1>15. Right(Root)
    BY <1>3, <1>14
  <1>16. QED
    BY <1>1, <1>3, <1>15

(* A sequence with one more in front. *)
LEMMA ConsRight ==
  ASSUME NEW S, NEW x \in S, NEW s \in Seq(S)
  PROVE  /\ <<x>> \o s \in Seq(S) /\ DOMAIN (<<x>> \o s) = 1..(Len(s) + 1)
         /\ (<<x>> \o s)[1] = x /\ \A i \in 1..Len(s) : (<<x>> \o s)[i + 1] = s[i]
         /\ ToSet(<<x>> \o s) = {x} \cup ToSet(s)
  <1> DEFINE r == <<x>> \o s
  <1>1. Len(s) \in Nat /\ DOMAIN s = 1..Len(s) /\ r \in Seq(S) /\ Len(r) = Len(s) + 1
    OBVIOUS
  <1>2. DOMAIN r = 1..(Len(s) + 1) /\ r[1] = x
    BY <1>1
  <1>3. ASSUME NEW i \in 1..Len(s) PROVE r[i + 1] = s[i]
    <2>1. i + 1 \in 1..(Len(s) + 1) /\ i + 1 > 1 /\ (i + 1) - 1 = i
      BY <1>1
    <2>2. QED
      BY <1>1, <2>1
  <1> HIDE DEF r
  <1>4. ToSet(r) = {x} \cup ToSet(s)
    <2>1. ASSUME NEW y \in ToSet(r) PROVE y \in {x} \cup ToSet(s)
      <3>1. PICK i \in 1..(Len(s) + 1) : r[i] = y
        BY <1>2 DEF ToSet
      <3>2. CASE i = 1
        BY <1>2, <3>1, <3>2
      <3>3. CASE i # 1
        <4>1. PICK j \in 1..Len(s) : j + 1 = i
          <5>1. i - 1 \in 1..Len(s) /\ (i - 1) + 1 = i
            BY <1>1, <3>3
          <5>2. QED
            BY <5>1
        <4>2. y = s[j]
          BY <1>3, <3>1, <4>1
        <4>3. QED
          BY <1>1, <4>2 DEF ToSet
      <3>4. QED
        BY <3>2, <3>3
    <2>2. x \in ToSet(r)
      <3>1. 1 \in DOMAIN r
        BY <1>1, <1>2
      <3>2. QED
        BY <1>2, <3>1 DEF ToSet
    <2>3. ASSUME NEW y \in ToSet(s) PROVE y \in ToSet(r)
      <3>1. PICK i \in 1..Len(s) : s[i] = y
        BY <1>1 DEF ToSet
      <3>2. i + 1 \in DOMAIN r
        BY <1>1, <1>2
      <3>3. QED
        BY <1>3, <3>1, <3>2 DEF ToSet
    <2>4. QED
      BY <2>1, <2>2, <2>3
  <1>5. QED
    BY <1>1, <1>2, <1>3, <1>4 DEF r

\* The leaves from p on.
Rest(c, p) == {q \in Leaves : c.lo[p] <= c.lo[q]}

\* s has the leaves from p on, in the order of their ranges.
Chain(c, p, s) ==
    /\ s \in Seq(Nat) /\ ToSet(s) = Rest(c, p)
    /\ \A i, j \in DOMAIN s : i < j => c.lo[s[i]] < c.lo[s[j]]

(* Behind a leaf is what its link leads to. *)
LEMMA RestRight ==
  ASSUME Sound(pages), Linked(pages), NEW c, Tree(c), NEW p \in Leaves
  PROVE  LET r == pages[p].next IN
         /\ r = NoPage => Rest(c, p) = {p}
         /\ r # NoPage => r \in Leaves /\ c.lo[p] < c.lo[r] /\ Rest(c, p) = {p} \cup Rest(c, r)
  <1> DEFINE r == pages[p].next
  <1>1. /\ c.lo \in [DOMAIN pages -> Nat] /\ c.hi \in [DOMAIN pages -> Nat]
        /\ Areas(DOMAIN pages, c) /\ p \in DOMAIN pages /\ pages[p].kind = "leaf"
    BY DEF Tree, Areas, Charted, Leaves, IsLeaf
  <1>2. \A q \in Leaves : /\ q \in DOMAIN pages /\ LeafDrawn(c, q, pages[q]) /\ c.level[q] = 0
                          /\ c.lo[q] \in Nat /\ Has(c, q, c.lo[q])
    <2> SUFFICES ASSUME NEW q \in Leaves
                 PROVE  /\ q \in DOMAIN pages /\ LeafDrawn(c, q, pages[q]) /\ c.level[q] = 0
                        /\ c.lo[q] \in Nat /\ Has(c, q, c.lo[q])
      OBVIOUS
    <2>1. q \in DOMAIN pages /\ pages[q].kind = "leaf"
      BY DEF Leaves, IsLeaf
    <2>2. LeafDrawn(c, q, pages[q])
      BY <2>1 DEF Tree, Drawn
    <2>3. c.lo[q] \in Nat /\ Under(c.lo[q], c.hi[q])
      BY <1>1, <2>1 DEF Areas
    <2>4. QED
      BY <2>1, <2>2, <2>3 DEF LeafDrawn, Has
  <1>3. ASSUME NEW q \in Leaves, Has(c, p, c.lo[q]) PROVE q = p
    BY <1>1, <1>2, <1>3, OneHolder
  <1>4. LeafDrawn(c, p, pages[p])
    BY <1>2
  <1> HIDE DEF r
  <1>5. CASE r = NoPage
    <2>1. c.hi[p] = Open
      BY <1>4, <1>5 DEF LeafDrawn, r
    <2>2. \A q \in Leaves : c.lo[p] <= c.lo[q] => q = p
      BY <1>3, <2>1 DEF Has, Under
    <2>3. p \in Rest(c, p)
      BY <1>2 DEF Rest
    <2>4. Rest(c, p) = {p}
      BY <2>2, <2>3 DEF Rest
    <2>5. QED
      BY <1>5, <2>4 DEF r
  <1>6. CASE r # NoPage
    <2>1. c.hi[p] # Open /\ c.hi[p] = c.lo[r]
      BY <1>4, <1>6 DEF LeafDrawn, r
    <2>2. r \in Leaves
      BY <1>1, <1>6 DEF Linked, LinkRight, Leaves, IsLeaf, r
    <2>3. c.lo[p] < c.lo[r]
      BY <1>1, <2>1 DEF Areas, Under
    <2>4. ASSUME NEW q \in Leaves PROVE c.lo[p] <= c.lo[q] <=> q = p \/ c.lo[r] <= c.lo[q]
      <3>1. c.lo[p] \in Nat /\ c.lo[q] \in Nat /\ c.lo[r] \in Nat
        BY <1>2, <2>2
      <3>2. ASSUME c.lo[p] <= c.lo[q], ~ (c.lo[r] <= c.lo[q]) PROVE q = p
        <4>1. Has(c, p, c.lo[q])
          BY <2>1, <3>1, <3>2 DEF Has, Under
        <4>2. QED
          BY <1>3, <4>1
      <3>3. QED
        BY <2>3, <3>1, <3>2
    <2>5. Rest(c, p) = {p} \cup Rest(c, r)
      BY <2>4 DEF Rest
    <2>6. QED
      BY <1>6, <2>2, <2>3, <2>5 DEF r
  <1>7. QED
    BY <1>5, <1>6

\* The leaves from each page on, by the links: as in Searchable.
Links(from) ==
    from = [p \in DOMAIN pages |->
               IF ~ IsLeaf(p) \/ pages[p].next = NoPage
               THEN <<p>>
               ELSE <<p>> \o from[pages[p].next]]

(* There are such chains. *)
LEMMA LinksIs ==
  ASSUME Sound(pages), Linked(pages), NEW c, Tree(c)
  PROVE  \E from : Links(from)
  <1> DEFINE D == DOMAIN pages
             A == Seq(Nat)
             Ends == {p \in D : ~ IsLeaf(p) \/ pages[p].next = NoPage}
             next == [p \in D |-> IF p \in Ends THEN p ELSE pages[p].next]
             base == [p \in D |-> <<p>>]
             step == [a \in D \X A |-> <<a[1]>> \o a[2]]
  <1>1. D = 1..Len(pages) /\ Len(pages) \in Nat /\ c.lo \in [D -> Nat]
    BY DEF Sound, Tree, Areas, Charted
  <1>2. PICK n \in Nat : \A p \in D : c.lo[p] <= n
    BY <1>1, Bounded
  <1> DEFINE rank == [p \in D |-> n - c.lo[p]]
  <1>3. ASSUME NEW p \in D, p \notin Ends
        PROVE  pages[p].next \in D /\ c.lo[p] < c.lo[pages[p].next]
    <2>1. p \in Leaves /\ pages[p].next # NoPage
      BY <1>3 DEF Leaves
    <2>2. pages[p].next \in Leaves /\ c.lo[p] < c.lo[pages[p].next]
      BY <2>1, RestRight
    <2>3. QED
      BY <2>2 DEF Leaves
  <1>4. \A p \in D : p \in Nat /\ <<p>> \in A
    BY <1>1
  <1>5. next \in [D -> D] /\ base \in [D -> A]
    BY <1>3, <1>4
  <1>6. step \in [D \X A -> A]
    <2>1. \A p \in D, s \in A : <<p>> \o s \in A
      BY <1>4, ConsRight
    <2>2. QED
      BY <2>1
  <1>7. /\ \A p \in D : base[p] = <<p>> /\ next[p] = IF p \in Ends THEN p ELSE pages[p].next
        /\ \A p \in D, s \in A : step[<<p, s>>] = <<p>> \o s
        /\ \A p \in D : p \in Ends <=> ~ IsLeaf(p) \/ pages[p].next = NoPage
        /\ \A p \in D : rank[p] = n - c.lo[p]
    OBVIOUS
  <1>8. rank \in [D -> 0..n]
    <2>1. \A p \in D : n - c.lo[p] \in 0..n
      BY <1>1, <1>2
    <2>2. QED
      BY <2>1
  <1> HIDE DEF D, A, Ends, next, base, step, rank
  <1>9. \A p \in D : p \notin Ends => rank[next[p]] < rank[p]
    <2> SUFFICES ASSUME NEW p \in D, p \notin Ends PROVE rank[next[p]] < rank[p]
      OBVIOUS
    <2>1. next[p] = pages[p].next /\ next[p] \in D /\ c.lo[p] < c.lo[next[p]]
      BY <1>3, <1>7
    <2>2. /\ rank[p] = n - c.lo[p] /\ rank[next[p]] = n - c.lo[next[p]]
          /\ c.lo[p] \in Nat /\ c.lo[next[p]] \in Nat
      BY <1>1, <1>7, <2>1
    <2>3. QED
      BY <2>1, <2>2
  <1>10. PICK from \in [D -> A] : Follows(from, D, Ends, next, base, step)
    BY <1>5, <1>6, <1>8, <1>9, Recursion
  <1>11. \A p \in D : from[p] = IF ~ IsLeaf(p) \/ pages[p].next = NoPage
                                THEN <<p>> ELSE <<p>> \o from[pages[p].next]
    <2> SUFFICES ASSUME NEW p \in D
                 PROVE  from[p] = IF ~ IsLeaf(p) \/ pages[p].next = NoPage
                                  THEN <<p>> ELSE <<p>> \o from[pages[p].next]
      OBVIOUS
    <2>1. from[p] = IF p \in Ends THEN base[p] ELSE step[<<p, from[next[p]]>>]
      BY <1>10 DEF Follows
    <2>2. CASE p \in Ends
      BY <1>7, <2>1, <2>2
    <2>3. CASE p \notin Ends
      <3>1. next[p] = pages[p].next /\ next[p] \in D /\ from[next[p]] \in A
        BY <1>3, <1>7, <1>10, <2>3
      <3>2. step[<<p, from[next[p]]>>] = <<p>> \o from[next[p]]
        BY <1>7, <3>1
      <3>3. QED
        BY <1>7, <2>1, <2>3, <3>1, <3>2
    <2>4. QED
      BY <2>2, <2>3
  <1>12. from = [p \in D |-> IF ~ IsLeaf(p) \/ pages[p].next = NoPage
                             THEN <<p>> ELSE <<p>> \o from[pages[p].next]]
    BY <1>10, <1>11
  <1>13. QED
    BY <1>12 DEF Links, D

(* They have the leaves in the order of their ranges. *)
LEMMA LinksRight ==
  ASSUME Sound(pages), Linked(pages), NEW c, Tree(c), NEW from, Links(from), NEW p \in Leaves
  PROVE  Chain(c, p, from[p])
  <1>1. /\ DOMAIN pages = 1..Len(pages) /\ Len(pages) \in Nat /\ c.lo \in [DOMAIN pages -> Nat]
        /\ Leaves \subseteq DOMAIN pages
    BY DEF Sound, Tree, Areas, Charted, Leaves
  <1>2. PICK n \in Nat : \A q \in DOMAIN pages : c.lo[q] <= n
    BY <1>1, Bounded
  <1> DEFINE Bad == {q \in Leaves : ~ Chain(c, q, from[q])}
             High == {c.lo[q] : q \in Bad}
  <1> SUFFICES ASSUME Bad # {} PROVE FALSE
    OBVIOUS
  <1>3. High \in SUBSET (0..n) /\ High # {}
    <2>1. \A q \in Leaves : c.lo[q] \in 0..n
      BY <1>1, <1>2
    <2>2. QED
      BY <2>1
  <1>4. PICK m \in High : \A x \in High : m >= x
    <2> HIDE DEF High
    <2>1. QED
      BY <1>3, MaxRight
  <1>5. PICK q \in Bad : c.lo[q] = m
    BY <1>4
  <1> DEFINE r == pages[q].next
             s == from[r]
             x == from[q]
  <1>6. q \in Leaves /\ q \in DOMAIN pages /\ IsLeaf(q) /\ q \in Nat /\ c.lo[q] \in Nat
    BY <1>1 DEF Leaves
  <1>7. x = IF r = NoPage THEN <<q>> ELSE <<q>> \o s
    <2>1. x = IF ~ IsLeaf(q) \/ r = NoPage THEN <<q>> ELSE <<q>> \o from[r]
      BY <1>6 DEF Links
    <2>2. QED
      BY <1>6, <2>1
  <1>8. /\ r = NoPage => Rest(c, q) = {q}
        /\ r # NoPage => r \in Leaves /\ c.lo[q] < c.lo[r] /\ Rest(c, q) = {q} \cup Rest(c, r)
    BY <1>6, RestRight
  <1>9. \A y \in Bad : m >= c.lo[y]
    BY <1>4
  <1> HIDE DEF High, r, s, x
  <1>10. Chain(c, q, x)
    <2>1. CASE r = NoPage
      <3>1. x = <<q>>
        BY <1>7, <2>1
      <3>2. x \in Seq(Nat) /\ DOMAIN x = {1} /\ ToSet(x) = {q}
        BY <1>6, <3>1 DEF ToSet
      <3>3. \A i, j \in DOMAIN x : ~ (i < j)
        BY <3>2
      <3>4. QED
        BY <1>8, <2>1, <3>2, <3>3 DEF Chain
    <2>2. CASE r # NoPage
      <3>1. r \in Leaves /\ c.lo[q] < c.lo[r] /\ Rest(c, q) = {q} \cup Rest(c, r) /\ x = <<q>> \o s
        BY <1>7, <1>8, <2>2
      <3>2. Chain(c, r, s)
        <4> SUFFICES ASSUME r \in Bad PROVE FALSE
          BY <3>1 DEF s
        <4>1. m >= c.lo[r] /\ c.lo[r] \in Nat /\ m \in Nat
          BY <1>1, <1>5, <1>6, <1>9, <3>1
        <4>2. QED
          BY <1>5, <3>1, <4>1
      <3>3. s \in Seq(Nat) /\ ToSet(s) = Rest(c, r) /\ DOMAIN s = 1..Len(s) /\ Len(s) \in Nat
        BY <3>2 DEF Chain
      <3>4. /\ x \in Seq(Nat) /\ DOMAIN x = 1..(Len(s) + 1) /\ x[1] = q
            /\ \A i \in 1..Len(s) : x[i + 1] = s[i]
            /\ ToSet(x) = {q} \cup ToSet(s)
        BY <1>6, <3>1, <3>3, ConsRight
      <3>5. \A i \in 1..Len(s) : c.lo[r] <= c.lo[s[i]] /\ c.lo[s[i]] \in Nat
        <4> SUFFICES ASSUME NEW i \in 1..Len(s) PROVE c.lo[r] <= c.lo[s[i]] /\ c.lo[s[i]] \in Nat
          OBVIOUS
        <4>1. s[i] \in Rest(c, r)
          BY <3>3 DEF ToSet
        <4>2. QED
          BY <1>1, <4>1 DEF Rest
      <3>6. ASSUME NEW i \in DOMAIN x, NEW j \in DOMAIN x, i < j PROVE c.lo[x[i]] < c.lo[x[j]]
        <4>1. PICK k \in 1..Len(s) : k + 1 = j
          <5>1. i \in Nat /\ 1 <= i /\ j \in Nat /\ j <= Len(s) + 1 /\ Len(s) \in Nat
            BY <3>3, <3>4
          <5>2. j - 1 \in 1..Len(s) /\ (j - 1) + 1 = j
            BY <3>6, <5>1
          <5>3. QED
            BY <5>2
        <4>2. x[j] = s[k]
          BY <3>4, <4>1
        <4>3. CASE i = 1
          <5>1. c.lo[r] \in Nat
            BY <1>1, <3>1
          <5>2. c.lo[r] <= c.lo[s[k]] /\ c.lo[s[k]] \in Nat
            BY <3>5, <4>1
          <5>3. c.lo[q] < c.lo[s[k]]
            BY <1>6, <3>1, <5>1, <5>2
          <5>4. x[i] = q
            BY <3>4, <4>3
          <5>5. QED
            BY <4>2, <5>3, <5>4
        <4>4. CASE i # 1
          <5>1. PICK l \in 1..Len(s) : l + 1 = i
            <6>1. i - 1 \in 1..Len(s) /\ (i - 1) + 1 = i
              BY <3>3, <3>4, <4>4
            <6>2. QED
              BY <6>1
          <5>2. x[i] = s[l] /\ l < k
            BY <3>4, <3>6, <4>1, <5>1
          <5>3. QED
            BY <3>2, <3>3, <4>2, <5>2 DEF Chain
        <4>5. QED
          BY <4>3, <4>4
      <3>7. QED
        BY <3>1, <3>3, <3>4, <3>6 DEF Chain
    <2>3. QED
      BY <2>1, <2>2
  <1>11. QED
    BY <1>10 DEF x

(* Leaves that come one behind the other have their keys in this order. *)
LEMMA Behind ==
  ASSUME Sound(pages), NEW c, Tree(c), NEW p \in Leaves, NEW q \in Leaves, c.lo[p] < c.lo[q],
         NEW k \in Nat, Has(c, p, k)
  PROVE  k < c.lo[q]
  <1>1. /\ Areas(DOMAIN pages, c) /\ p \in DOMAIN pages /\ q \in DOMAIN pages
        /\ c.lo[p] \in Nat /\ c.lo[q] \in Nat /\ c.hi[p] \in Nat /\ c.level[p] = 0 /\ c.level[q] = 0
    BY DEF Tree, Areas, Charted, Leaves, IsLeaf, Drawn, LeafDrawn
  <1>2. p # q
    BY <1>1
  <1>3. c.lo[q] < c.lo[p] \/ (c.hi[p] # Open /\ c.hi[p] <= c.lo[q])
    BY <1>1, <1>2 DEF Areas, Disjoint
  <1>4. c.hi[p] = Open \/ k < c.hi[p]
    BY DEF Has, Under
  <1>5. QED
    BY <1>1, <1>3, <1>4

(* The chart says that the tree is searchable. *)
LEMMA OrderSearchable == OrderInv => Searchable
  <1> SUFFICES ASSUME OrderInv PROVE Searchable
    OBVIOUS
  <1>1. PICK c : Ordered(c)
    BY DEF OrderInv
  <1>2. Sound(pages) /\ Linked(pages) /\ Tree(c)
    BY <1>1 DEF OrderInv, TreeInv, Ordered
  <1> DEFINE from[p \in DOMAIN pages] ==
                IF ~ IsLeaf(p) \/ pages[p].next = NoPage
                THEN <<p>>
                ELSE <<p>> \o from[pages[p].next]
             first == LeafFor(Nowhere.position)
             chain == from[first]
  <1>3. Links(from)
    <2>1. from = CHOOSE f : Links(f)
      BY DEF Links
    <2>2. \E f : Links(f)
      BY <1>2, LinksIs
    <2> HIDE DEF from
    <2>3. QED
      BY <2>1, <2>2
  <1>4. Nowhere.position \in Position /\ Nowhere.position.kind = "unbounded"
    BY DEF Nowhere, Position, Kinds
  <1>5. first \in Leaves /\ c.lo[first] = 0
    BY <1>2, <1>4, LeafForRight
  <1> HIDE DEF from, first
  <1>6. Chain(c, first, chain)
    BY <1>2, <1>3, <1>5, LinksRight
  <1>7. \A q \in Leaves : /\ q \in DOMAIN pages /\ pages[q].kind = "leaf" /\ c.lo[q] \in Nat
                          /\ pages[q].entries \in Seq(LeafEntry) /\ Sorted(pages[q].entries)
                          /\ \A e \in ToSet(pages[q].entries) : Has(c, q, e.key) /\ e.key \in Nat
    <2> SUFFICES ASSUME NEW q \in Leaves
                 PROVE  /\ q \in DOMAIN pages /\ pages[q].kind = "leaf" /\ c.lo[q] \in Nat
                        /\ pages[q].entries \in Seq(LeafEntry) /\ Sorted(pages[q].entries)
                        /\ \A e \in ToSet(pages[q].entries) : Has(c, q, e.key) /\ e.key \in Nat
      OBVIOUS
    <2>1. q \in DOMAIN pages /\ pages[q].kind = "leaf"
      BY DEF Leaves, IsLeaf
    <2>2. /\ pages[q].entries \in Seq(LeafEntry) /\ LeafDrawn(c, q, pages[q])
          /\ ToSet(pages[q].entries) \subseteq Contents
          /\ \A e \in ToSet(pages[q].entries) : Has(c, q, e.key)
      BY <1>2, <2>1, LeafRight
    <2>3. \A e \in Contents : e.key \in Nat
      BY <1>2, ContentsRight DEF Entries
    <2>4. c.lo[q] \in Nat
      BY <1>2, <2>1 DEF Tree, Areas, Charted
    <2>5. QED
      BY <2>1, <2>2, <2>3, <2>4 DEF LeafDrawn
  <1> HIDE DEF chain
  <1>8. ToSet(chain) = Leaves
    <2>1. \A q \in Leaves : 0 <= c.lo[q]
      BY <1>7
    <2>2. QED
      BY <1>5, <1>6, <2>1 DEF Chain, Rest
  <1>9. /\ DOMAIN chain = 1..Len(chain) /\ Len(chain) \in Nat /\ chain \in Seq(Nat)
        /\ \A i \in DOMAIN chain : chain[i] \in Leaves
    BY <1>6, <1>8 DEF Chain, ToSet
  <1>10. ASSUME NEW n \in DOMAIN chain, NEW i \in DOMAIN pages[chain[n]].entries
         PROVE  LET key == pages[chain[n]].entries[i].key IN
                /\ \A j \in 1..(i - 1) : pages[chain[n]].entries[j].key <= key
                /\ \A m \in 1..(n - 1) : \A e \in ToSet(pages[chain[m]].entries) : e.key <= key
                /\ LeafFor(From(key)) \in ToSet(SubSeq(chain, 1, n))
    <2> DEFINE p == chain[n]
               s == pages[p].entries
               key == s[i].key
               q == LeafFor(From(key))
    <2>1. p \in Leaves
      BY <1>9
    <2>2. s \in Seq(LeafEntry) /\ Sorted(s) /\ DOMAIN s = 1..Len(s) /\ Len(s) \in Nat
      BY <1>7, <2>1
    <2>3. key \in Nat /\ Has(c, p, key) /\ c.lo[p] \in Nat /\ c.lo[p] <= key
      <3>1. s[i] \in ToSet(s)
        BY DEF ToSet
      <3>2. QED
        BY <1>7, <2>1, <3>1 DEF Has
    <2>4. \A j \in 1..(i - 1) : s[j].key <= key
      <3> SUFFICES ASSUME NEW j \in 1..(i - 1) PROVE s[j].key <= key
        OBVIOUS
      <3>1. j \in DOMAIN s /\ j < i
        BY <2>2
      <3>2. s[j].key < key
        BY <2>2, <3>1 DEF Sorted
      <3>3. s[j].key \in Nat
        <4>1. s[j] \in ToSet(s)
          BY <3>1 DEF ToSet
        <4>2. QED
          BY <1>7, <2>1, <4>1
      <3> HIDE DEF key
      <3>4. QED
        BY <2>3, <3>2, <3>3
    <2>5. \A m \in 1..(n - 1) : \A e \in ToSet(pages[chain[m]].entries) : e.key <= key
      <3> SUFFICES ASSUME NEW m \in 1..(n - 1), NEW e \in ToSet(pages[chain[m]].entries)
                   PROVE  e.key <= key
        OBVIOUS
      <3>1. m \in DOMAIN chain /\ m < n /\ chain[m] \in Leaves
        BY <1>9
      <3>2. c.lo[chain[m]] < c.lo[p]
        BY <1>6, <3>1 DEF Chain
      <3>3. Has(c, chain[m], e.key) /\ e.key \in Nat
        BY <1>7, <3>1
      <3> HIDE DEF p, key
      <3>4. e.key < c.lo[p]
        BY <1>2, <2>1, <3>1, <3>2, <3>3, Behind
      <3>5. QED
        BY <2>3, <3>3, <3>4
    <2>6. q \in Leaves /\ c.lo[q] <= key
      <3>1. From(key) \in Position
        BY <2>3, PositionsRight
      <3> DEFINE f == [key |-> key]
      <3>2. f.key = key /\ Qualifies(f, From(key))
        BY <2>3 DEF Qualifies, From
      <3> HIDE DEF key, f
      <3>3. f.key \in Nat
        BY <2>3, <3>2
      <3>4. QED
        BY <1>2, <3>1, <3>2, <3>3, LeafForRight
    <2>7. q \in ToSet(SubSeq(chain, 1, n))
      <3>1. PICK k \in DOMAIN chain : chain[k] = q
        BY <1>8, <2>6 DEF ToSet
      <3>2. k <= n
        <4> SUFFICES ASSUME n < k PROVE FALSE
          BY <1>9
        <4>1. c.lo[p] < c.lo[q]
          BY <1>6, <3>1 DEF Chain
        <4> HIDE DEF p, q, key
        <4>2. key < c.lo[q]
          BY <1>2, <2>1, <2>3, <2>6, <4>1, Behind
        <4>3. c.lo[q] \in Nat
          BY <1>7, <2>6
        <4>4. QED
          BY <2>3, <2>6, <4>2, <4>3
      <3>3. /\ DOMAIN SubSeq(chain, 1, n) = 1..n /\ k \in 1..n
            /\ SubSeq(chain, 1, n)[k] = chain[k]
        BY <1>9, <3>2
      <3>4. QED
        BY <3>1, <3>3 DEF ToSet
    <2>8. QED
      BY <2>4, <2>5, <2>7
  <1>11. QED
    BY <1>8, <1>10 DEF Searchable, chain, from, first

(* Where deletes keep apart from other writers, and keys are not repeated: *)
(* at any time the links lead through all leaves in the order of their     *)
(* keys, and whoever goes down for a key comes out at or to the left of it. *)
THEOREM SearchableAlways == DeletesAlone /\ OwnKeys => (Spec => []Searchable)
  <1> SUFFICES ASSUME DeletesAlone /\ OwnKeys PROVE Spec => []Searchable
    OBVIOUS
  <1>1. OrderInv => Searchable
    BY OrderSearchable
  <1>2. Spec => []OrderInv
    BY OrderAlways
  <1>3. QED
    BY <1>1, <1>2, PTL

------------------------------------------------------------------------------
(* The tree is an ordered index.                                           *)

\* What the index sees of what readers have found.
Shown == [t \in Thread |-> IF call[t].op = "scan" THEN got[t] ELSE <<>>]

Stutters == Contents' = Contents /\ UNCHANGED <<call, answer, owed>> /\ Shown' = Shown

IndexCalls == {triple[3] : triple \in Calls}

(* What qualifies for a scan's start and is not beyond its end is within it. *)
LEMMA WithinRight ==
  ASSUME NEW lower \in Bounds, NEW upper \in Bounds, NEW e \in Entries
  PROVE  Index!Within(e, lower, upper) <=> Qualifies(e, lower) /\ ~ Beyond(e.key, upper)
  <1>1. /\ lower.kind \in {"unbounded", "included", "excluded"} /\ lower.key \in Nat
        /\ upper.kind \in {"unbounded", "included", "excluded"} /\ upper.key \in Nat
        /\ e.key \in Nat
    BY DEF Bounds, Entries
  <1> DEFINE Above == CASE lower.kind = "unbounded" -> TRUE
                        [] lower.kind = "included"  -> e.key >= lower.key
                        [] lower.kind = "excluded"  -> e.key > lower.key
             Below == CASE upper.kind = "unbounded" -> TRUE
                        [] upper.kind = "included"  -> e.key <= upper.key
                        [] upper.kind = "excluded"  -> e.key < upper.key
  <1>2. Above <=> Qualifies(e, lower)
    BY <1>1 DEF Qualifies
  <1>3. Below <=> ~ Beyond(e.key, upper)
    <2>1. CASE upper.kind = "unbounded"
      BY <2>1 DEF Beyond
    <2>2. CASE upper.kind = "included"
      <3>1. e.key <= upper.key <=> ~ (e.key > upper.key)
        BY <1>1
      <3>2. QED
        BY <2>2, <3>1 DEF Beyond
    <2>3. CASE upper.kind = "excluded"
      <3>1. e.key < upper.key <=> ~ (e.key >= upper.key)
        BY <1>1
      <3>2. QED
        BY <2>3, <3>1 DEF Beyond
    <2>4. QED
      BY <1>1, <2>1, <2>2, <2>3
  <1>4. QED
    BY <1>2, <1>3 DEF Index!Within

(* While an insert or a delete runs, or nothing is yielded, the index sees *)
(* no entries of it.                                                       *)
LEMMA ShownKept ==
  ASSUME OrderTypes, NEW t \in Thread, call' = call,
         \A u \in Thread \ {t} : got'[u] = got[u],
         call[t].op # "scan" \/ got'[t] = got[t]
  PROVE  Shown' = Shown
  <1>1. \A u \in Thread : (IF call[u].op = "scan" THEN got[u] ELSE <<>>)
                        = (IF call'[u].op = "scan" THEN got'[u] ELSE <<>>)
    OBVIOUS
  <1>2. QED
    BY <1>1 DEF Shown

(* A step that a call ends with, and that changes no page. *)
LEMMA EndShown ==
  ASSUME OrderTypes, NEW t \in Thread, NEW value, Returns(t, value),
         call[t].op # "scan" \/ value = "end"
  PROVE  Shown' = Shown /\ call' = call /\ answer' = [answer EXCEPT ![t] = value]
  <1>1. /\ call' = call /\ answer' = [answer EXCEPT ![t] = value]
        /\ got' = [got EXCEPT ![t] = IF value = "end" THEN @ ELSE <<>>]
    BY DEF Returns
  <1>2. \A u \in Thread \ {t} : got'[u] = got[u]
    BY <1>1 DEF OrderTypes
  <1>3. call[t].op # "scan" \/ got'[t] = got[t]
    BY <1>1 DEF OrderTypes
  <1>4. QED
    BY <1>1, <1>2, <1>3, ShownKept

(* A call begins, and a scan is owed what is in its bounds. *)
LEMMA CallCalls ==
  ASSUME TreeInv, NEW c, Ordered(c), NEW t \in Thread, NEW k, Call(t, k)
  PROVE  k \in IndexCalls /\ Index!Call(t, k)
  <1> DEFINE Theirs == {e \in Contents : Index!Within(e, call'[t].lower, call'[t].upper)}
             Ours == InRange(k)
  <1>1. /\ at[t] = "idle" /\ <<t, made[t] + 1, k>> \in Calls
        /\ call' = [call EXCEPT ![t] = k] /\ answer' = [answer EXCEPT ![t] = "none"]
        /\ got' = [got EXCEPT ![t] = <<>>]
        /\ owed' = [owed EXCEPT ![t] = IF k.op = "scan" THEN Ours ELSE {}]
        /\ pages' = pages
    BY DEF Call
  <1>2. Told(t) /\ OrderTypes /\ Types /\ Sound(pages)
    BY DEF Ordered, TreeInv
  <1>3. answer[t] \notin {"none", "applied"}
    BY <1>1, <1>2 DEF Told, Answered
  <1>4. k \in IndexCalls
    <2> DEFINE triple == <<t, made[t] + 1, k>>
    <2>1. triple \in Calls /\ triple[3] = k
      BY <1>1
    <2> HIDE DEF triple
    <2>2. QED
      BY <2>1 DEF IndexCalls
  <1>5. call'[t] = k /\ \A u \in Thread \ {t} : call'[u] = call[u]
    BY <1>1, <1>2 DEF Types
  <1>6. ASSUME k.op = "scan" PROVE Ours = Theirs
    <2>1. /\ LowerOf(k) = k.lower /\ UpperOf(k) = k.upper
          /\ LowerOf(k) \in Bounds /\ UpperOf(k) \in Bounds
      BY <1>1, <1>6, BoundsRight DEF LowerOf, UpperOf
    <2>2. Contents \subseteq Entries
      BY <1>2, ContentsRight
    <2>3. \A e \in Contents : Index!Within(e, k.lower, k.upper)
                                <=> Qualifies(e, LowerOf(k)) /\ ~ Beyond(e.key, UpperOf(k))
      BY <2>1, <2>2, WithinRight
    <2>4. QED
      BY <1>5, <2>3 DEF InRange
  <1>7. owed' = [owed EXCEPT ![t] = IF k.op = "scan" THEN Theirs ELSE {}]
    <2> HIDE DEF Ours, Theirs
    <2>1. QED
      BY <1>1, <1>6
  <1>8. Contents' = Contents
    BY <1>1 DEF Contents, IsLeaf
  <1>9. Shown' = [Shown EXCEPT ![t] = <<>>]
    <2>1. got'[t] = <<>> /\ \A u \in Thread \ {t} : got'[u] = got[u]
      BY <1>1, <1>2 DEF OrderTypes
    <2>2. QED
      BY <1>5, <2>1 DEF Shown
  <1>10. QED
    BY <1>1, <1>3, <1>4, <1>7, <1>8, <1>9 DEF Index!Call, Index!Wanted, Shown

(* The kept contents of a step that changes no page. *)
LEMMA ContentsKept == pages' = pages => Contents' = Contents
  BY DEF Contents, IsLeaf

(* A step that neither answers a call nor yields anything. *)
LEMMA PassStutters ==
  ASSUME UNCHANGED <<pages, call, answer, got, owed>>
  PROVE  Stutters
  BY ContentsKept DEF Stutters, Shown

(* What an insert tells shows that it is applied, and nothing of its lookup. *)
LEMMA TellsShown ==
  ASSUME OrderTypes, NEW t \in Thread, call[t].op = "insert", NEW values, Tells(t, values)
  PROVE  Shown' = Shown
  <1>1. call' = call /\ (got' = got \/ got' = [got EXCEPT ![t] = <<>>])
    BY DEF Tells
  <1>2. \A u \in Thread \ {t} : got'[u] = got[u]
    BY <1>1 DEF OrderTypes
  <1>3. QED
    BY <1>1, <1>2, ShownKept

(* insert puts its entry in at the leaf. *)
LEMMA DescendInserts ==
  ASSUME OwnKeys, TreeInv, NEW c, Ordered(c), NEW t \in Thread, Descend(t)
  PROVE  Stutters \/ Index!Insert(t)
  <1>1. \/ UNCHANGED <<pages, call, answer, got, owed>>
        \/ Contents' = Contents \cup {call[t].entry} /\ Tells(t, {"applied", "inserted"})
    BY DescendOrder
  <1>2. at[t] = "descend" /\ OrderTypes /\ Told(t) /\ Doing(t)
    BY DEF Descend, TreeInv, Ordered
  <1>3. CASE UNCHANGED <<pages, call, answer, got, owed>>
    BY <1>3, PassStutters
  <1>4. CASE Contents' = Contents \cup {call[t].entry} /\ Tells(t, {"applied", "inserted"})
    <2>1. call[t].op = "insert" /\ answer[t] = "none"
      BY <1>2 DEF Doing, Told, Answered
    <2>2. \A e \in Contents : e.key # call[t].entry.key
      BY <1>2 DEF Told
    <2>3. /\ call' = call /\ owed' = owed
          /\ \/ answer' = [answer EXCEPT ![t] = "applied"]
             \/ answer' = [answer EXCEPT ![t] = "inserted"]
      BY <1>4 DEF Tells
    <2>4. Shown' = Shown
      BY <1>2, <1>4, <2>1, TellsShown
    <2>5. QED
      BY <1>4, <2>1, <2>2, <2>3, <2>4
         DEF Index!Insert, Index!Running, Index!HasKey, Index!Answers, Shown
  <1>5. QED
    BY <1>1, <1>3, <1>4

(* The splits above it are nothing that the index sees. *)
LEMMA PropagateAnswers ==
  ASSUME OwnKeys, TreeInv, NEW c, Ordered(c), NEW t \in Thread, Propagate(t)
  PROVE  Stutters \/ Index!Inserted(t)
  <1>1. Contents' = Contents /\ Tells(t, {"applied", "inserted"}) /\ answer[t] = "applied"
    BY PropagateOrder
  <1>2. at[t] = "propagate" /\ OrderTypes /\ Doing(t)
    BY DEF Propagate, TreeInv, Ordered
  <1>3. call[t].op = "insert"
    BY <1>2 DEF Doing
  <1>4. Shown' = Shown /\ call' = call /\ owed' = owed
    BY <1>1, <1>2, <1>3, TellsShown DEF Tells
  <1>5. CASE answer' = [answer EXCEPT ![t] = "applied"]
    <2>1. answer' = answer
      <3>1. answer = [u \in Thread |-> answer[u]]
        BY <1>2 DEF OrderTypes
      <3>2. QED
        BY <1>1, <1>5, <3>1
    <2>2. QED
      BY <1>1, <1>4, <2>1 DEF Stutters
  <1>6. CASE answer' = [answer EXCEPT ![t] = "inserted"]
    BY <1>1, <1>4, <1>6 DEF Index!Inserted, Index!Answers, Shown
  <1>7. QED
    BY <1>1, <1>5, <1>6 DEF Tells

(* A key that is too long is refused. *)
LEMMA TooLargeAnswers ==
  ASSUME TreeInv, NEW c, Ordered(c), NEW t \in Thread, TooLarge(t)
  PROVE  Index!TooLarge(t)
  <1>1. /\ at[t] = "descend" /\ Returns(t, "too large") /\ UNCHANGED <<pages, owed>>
        /\ OrderTypes /\ Told(t) /\ Doing(t)
    BY DEF TooLarge, TreeInv, Ordered
  <1>2. call[t].op = "insert" /\ answer[t] = "none"
    BY <1>1 DEF Doing, Told, Answered
  <1>3. Shown' = Shown /\ call' = call /\ answer' = [answer EXCEPT ![t] = "too large"]
    BY <1>1, <1>2, EndShown
  <1>4. QED
    BY <1>1, <1>2, <1>3, ContentsKept DEF Index!TooLarge, Index!Running, Index!Answers, Shown

(* delete takes its entry out where it writes the leaf. *)
LEMMA EraseDeletes ==
  ASSUME OwnKeys, TreeInv, NEW c, Ordered(c), NEW t \in Thread, Erase(t)
  PROVE  Index!Delete(t)
  <1>1. /\ at[t] = "erase" /\ call[t].op = "delete" /\ Returns(t, "deleted")
        /\ call[t].entry \in Contents /\ Contents' = Contents \ {call[t].entry}
        /\ owed' = [u \in Thread |-> owed[u] \ {call[t].entry}]
    BY EraseOrder
  <1>2. OrderTypes /\ Told(t)
    BY DEF Ordered
  <1>3. answer[t] = "none"
    BY <1>1, <1>2 DEF Told, Answered
  <1>4. Shown' = Shown /\ call' = call /\ answer' = [answer EXCEPT ![t] = "deleted"]
    BY <1>1, <1>2, EndShown
  <1>5. QED
    BY <1>1, <1>3, <1>4 DEF Index!Delete, Index!Running, Index!Answers, Shown

(* delete looks at a leaf: where it returns without its entry, the entry is *)
(* nowhere.                                                                *)
LEMMA ExamineDeletes ==
  ASSUME TreeInv, NEW c, Ordered(c), NEW t \in Thread, at[t] \in {"seek", "walk"}, call[t].op = "delete",
         NEW p \in DOMAIN pages, pages[p].kind = "leaf", Examine(t, p),
         \A f \in Sought(t) : c.lo[p] <= f.key
  PROVE  Stutters \/ Index!Delete(t)
  <1> DEFINE e == call[t].entry
             entries == pages[p].entries
  <1>1. /\ OrderTypes /\ Told(t) /\ Sound(pages) /\ Linked(pages) /\ Tree(c)
        /\ answer[t] = "none" /\ UNCHANGED <<pages, owed>>
    BY DEF TreeInv, Ordered, Examine, Told, Answered
  <1>2. CASE UNCHANGED <<call, answer, got>>
    BY <1>1, <1>2, PassStutters
  <1>3. CASE /\ e \notin ToSet(entries) /\ ~ (MightContinue(pages[p], e.key) /\ pages[p].next # NoPage)
             /\ Returns(t, "absent")
    <2>1. e \notin Contents
      <3> SUFFICES ASSUME e \in Contents PROVE FALSE
        OBVIOUS
      <3>1. c.lo[p] <= e.key
        BY DEF Sought
      <3>2. /\ pages[p].next # NoPage /\ \A f \in ToSet(entries) : f.key < e.key
        BY <1>1, <1>3, <3>1, Looked
      <3>3. MightContinue(pages[p], e.key)
        <4>1. CASE entries = <<>>
          BY <4>1 DEF MightContinue
        <4>2. CASE entries # <<>>
          <5>1. entries \in Seq(LeafEntry) /\ ToSet(entries) \subseteq Contents
            BY <1>1, LeafRight
          <5>2. Last(entries) \in ToSet(entries)
            <6>1. /\ DOMAIN entries = 1..Len(entries) /\ Len(entries) \in Nat /\ Len(entries) # 0
                  /\ Last(entries) = entries[Len(entries)]
              BY <4>2, <5>1 DEF Last
            <6>2. Len(entries) \in DOMAIN entries
              BY <6>1
            <6>3. QED
              BY <6>1, <6>2 DEF ToSet
          <5>3. Last(entries).key < e.key
            BY <3>2, <5>2
          <5>4. Last(entries).key \in Nat /\ e.key \in Nat
            BY <1>1, <5>1, <5>2, ContentsRight DEF Entries
          <5>5. Last(entries).key <= e.key
            BY <5>3, <5>4
          <5>6. QED
            BY <5>5 DEF MightContinue
        <4>3. QED
          BY <4>1, <4>2
      <3>4. QED
        BY <1>3, <3>2, <3>3
    <2>2. Contents' = Contents \ {e}
      BY <1>1, <2>1, ContentsKept
    <2>3. owed' = [u \in Thread |-> owed[u] \ {e}]
      <3>1. \A u \in Thread : owed[u] \subseteq Contents
        BY DEF Ordered, Told
      <3>2. \A u \in Thread : owed[u] \ {e} = owed[u]
        BY <2>1, <3>1
      <3>3. owed = [u \in Thread |-> owed[u]]
        BY <1>1 DEF OrderTypes
      <3>4. QED
        BY <1>1, <3>2, <3>3
    <2>4. Shown' = Shown /\ call' = call /\ answer' = [answer EXCEPT ![t] = "absent"]
      BY <1>1, <1>3, EndShown
    <2>5. QED
      BY <1>1, <2>1, <2>2, <2>3, <2>4 DEF Index!Delete, Index!Running, Index!Answers, Shown
  <1>4. QED
    BY <1>2, <1>3 DEF Examine

(* Readers on their way down, and deletes to the right. *)
LEMMA SeekDeletes ==
  ASSUME TreeInv, NEW c, Ordered(c), NEW t \in Thread, Seek(t)
  PROVE  Stutters \/ Index!Delete(t)
  <1> DEFINE p == IF latch[t] = NoPage THEN Root ELSE ChildFor(pages[latch[t]], cursor[t].position)
  <1>1. /\ at[t] = "seek"
        /\ \/ IsLeaf(p) /\ call[t].op = "delete" /\ Examine(t, p)
           \/ UNCHANGED <<pages, call, answer, got, owed>>
    BY DEF Seek
  <1>2. p \in DOMAIN pages /\ \A f \in Sought(t) : c.lo[p] <= f.key
    BY <1>1, SeekLeads
  <1> HIDE DEF p
  <1>3. QED
    BY <1>1, <1>2, ExamineDeletes, PassStutters DEF IsLeaf

LEMMA WalkDeletes ==
  ASSUME TreeInv, NEW c, Ordered(c), NEW t \in Thread, Walk(t)
  PROVE  Stutters \/ Index!Delete(t)
  <1> DEFINE p == cursor[t].leaf
  <1>1. at[t] = "walk" /\ Examine(t, p) /\ Doing(t) /\ at[t] \in Reading
    BY DEF Walk, TreeInv, Reading
  <1>2. call[t].op = "delete" /\ p \in DOMAIN pages /\ pages[p].kind = "leaf"
    BY <1>1 DEF Doing
  <1>3. Reads(c, t) /\ Spot(t) = p
    BY <1>1, SoughtRight DEF Spot
  <1>4. \A f \in Sought(t) : c.lo[p] <= f.key
    BY <1>3 DEF Reads
  <1> HIDE DEF p
  <1>5. QED
    BY <1>1, <1>2, <1>4, ExamineDeletes

(* An entry that next finds is what the index's scan may yield next. *)
LEMMA YieldYields ==
  ASSUME TreeInv, NEW c, Ordered(c), NEW t \in Thread, at[t] = "next", call[t].op = "scan",
         pages[cursor[t].leaf].kind = "leaf", NEW e, IsNearest(e, Ahead(t)),
         ~ Beyond(e.key, UpperOf(call[t])),
         got' = [got EXCEPT ![t] = Append(@, e)], UNCHANGED <<pages, call, answer, owed>>
  PROVE  Index!Yield(t)
  <1> DEFINE s == got[t]
             Yielded == {s[i] : i \in DOMAIN s}
  <1>1. /\ OrderTypes /\ Told(t) /\ Sound(pages) /\ Tree(c) /\ Contents \subseteq Entries
        /\ <<t, made[t], call[t]>> \in Calls /\ answer[t] = "none" /\ Scans(t)
        /\ owed[t] \subseteq Contents
    BY ContentsRight DEF TreeInv, Ordered, Told, Answered, Reading
  <1>2. /\ e \in Ahead(t) /\ e \in Contents /\ e \in Entries /\ e.key \in Nat
        /\ Qualifies(e, LowerOf(call[t]))
        /\ \A g \in ToSet(s) : g.key <= e.key
    BY YieldRight DEF IsNearest, Entries
  <1>3. Index!Within(e, call[t].lower, call[t].upper)
    <2>1. /\ LowerOf(call[t]) \in Bounds /\ UpperOf(call[t]) \in Bounds
          /\ LowerOf(call[t]) = call[t].lower /\ UpperOf(call[t]) = call[t].upper
      BY <1>1, BoundsRight DEF LowerOf, UpperOf
    <2>2. QED
      BY <1>2, <2>1, WithinRight
  <1>4. Yielded = ToSet(s)
    BY DEF ToSet
  <1>5. Shown[t] = s /\ Shown' = [Shown EXCEPT ![t] = Append(@, e)]
    <2>1. \A u \in Thread : got'[u] = IF u = t THEN Append(s, e) ELSE got[u]
      BY <1>1 DEF OrderTypes
    <2> HIDE DEF s
    <2>2. Shown' = [u \in Thread |-> IF call[u].op = "scan"
                                     THEN IF u = t THEN Append(s, e) ELSE got[u]
                                     ELSE <<>>]
      BY <2>1 DEF Shown
    <2>3. QED
      BY <2>2 DEF Shown, s
  <1>6. e \in owed[t] \cap ToSet(s) => e = s[Len(s)]
    <2> SUFFICES ASSUME e \in owed[t] \cap ToSet(s) PROVE e = s[Len(s)]
      OBVIOUS
    <2>1. s \in Seq(LeafEntry) /\ s # <<>>
      BY <1>1 DEF OrderTypes, ToSet
    <2>2. Last(s) = s[Len(s)] /\ Last(s) \in ToSet(s)
      <3>1. DOMAIN s = 1..Len(s) /\ Len(s) \in Nat /\ Len(s) # 0 /\ Last(s) = s[Len(s)]
        BY <2>1 DEF Last
      <3>2. Len(s) \in DOMAIN s
        BY <3>1
      <3>3. QED
        BY <3>1, <3>2 DEF ToSet
    <2>3. /\ cursor[t].position.kind \in {"included", "after"}
          /\ Last(s).key = cursor[t].position.key
          /\ \A g \in ToSet(s) : g.key <= cursor[t].position.key
      BY <1>1, <2>1 DEF Scans
    <2>4. Last(s).key <= e.key /\ e.key <= Last(s).key
      BY <1>2, <2>2, <2>3
    <2>5. Last(s).key \in Nat
      BY <1>1, <2>1, <2>2, <2>3 DEF OrderTypes, Position
    <2>6. e.key = Last(s).key
      BY <1>2, <2>4, <2>5
    <2>7. e = Last(s)
      BY <1>1, <2>2, <2>6 DEF Scans
    <2>8. QED
      BY <2>2, <2>7
  <1>7. ASSUME NEW f \in owed[t], f.key < e.key PROVE f \in ToSet(s)
    <2> SUFFICES ASSUME f \notin ToSet(s) PROVE FALSE
      OBVIOUS
    <2>1. f \in Sought(t)
      BY DEF Sought
    <2>2. f.key \in Nat /\ e.key \in Nat
      BY <1>1, <1>2 DEF Entries
    <2>3. ~ (e.key < f.key) /\ e.key # f.key
      BY <1>7, <2>2
    <2>4. f \in Ahead(t)
      BY <1>2, <2>1, <2>3, AheadRight
    <2>5. QED
      BY <2>3, <2>4 DEF IsNearest
  <1> HIDE DEF s, Yielded
  <1>8. Contents' = Contents
    BY ContentsKept
  <1>9. /\ \A f \in Yielded : f.key <= e.key
        /\ \A f \in owed[t] : f.key < e.key => f \in Yielded
        /\ e \in owed[t] \cap Yielded => e = s[Len(s)]
    BY <1>2, <1>4, <1>6, <1>7
  <1>10. Index!Yielded(t) = Yielded
    BY <1>5 DEF Index!Yielded, Shown, Yielded
  <1>11. QED
    BY <1>1, <1>2, <1>3, <1>5, <1>8, <1>9, <1>10 DEF Index!Yield, Index!Running, Shown

(* Where next ends, a scan has yielded what it owes, and the lookup of an  *)
(* insert that has found something has found its key.                      *)
LEMMA ExhaustedEnds ==
  ASSUME OwnKeys, TreeInv, NEW c, Ordered(c), NEW t \in Thread, at[t] = "next", Exhausted(t),
         UNCHANGED <<pages, owed>>, Sought(t) = {}
  PROVE  Stutters \/ Index!End(t) \/ Index!Refuse(t)
  <1>1. /\ OrderTypes /\ Told(t) /\ answer[t] = "none" /\ Contents' = Contents
        /\ call[t].op \in {"insert", "scan"} /\ at[t] \in Reading
    BY ContentsKept DEF TreeInv, Ordered, Told, Answered, Doing, Reading
  <1>2. CASE call[t].op = "scan"
    <2>1. Returns(t, "end")
      BY <1>2 DEF Exhausted
    <2>2. Shown' = Shown /\ call' = call /\ answer' = [answer EXCEPT ![t] = "end"]
      BY <1>1, <2>1, EndShown
    <2>3. owed[t] \subseteq ToSet(got[t])
      BY <1>2 DEF Sought
    <2>4. Shown[t] = got[t]
      BY <1>2 DEF Shown
    <2>5. owed[t] \subseteq Index!Yielded(t)
      BY <2>3, <2>4 DEF Index!Yielded, Shown, ToSet
    <2>6. QED
      BY <1>1, <1>2, <2>2, <2>5 DEF Index!End, Index!Running, Index!Answers, Shown
  <1>3. CASE call[t].op = "insert" /\ got[t] # <<>>
    <2>1. Returns(t, "refused")
      BY <1>3 DEF Exhausted
    <2>2. Shown' = Shown /\ call' = call /\ answer' = [answer EXCEPT ![t] = "refused"]
      BY <1>1, <1>3, <2>1, EndShown
    <2>3. \E e \in Contents : e.key = call[t].entry.key
      BY <1>1, <1>3 DEF Told
    <2>4. Unique
      BY DEF OwnKeys
    <2>5. QED
      BY <1>1, <1>3, <2>2, <2>3, <2>4
         DEF Index!Refuse, Index!Running, Index!Answers, Index!HasKey, Shown
  <1>4. CASE call[t].op = "insert" /\ got[t] = <<>>
    BY <1>4, PassStutters DEF Exhausted
  <1>5. QED
    BY <1>1, <1>2, <1>3, <1>4

(* next. *)
LEMMA NextYields ==
  ASSUME OwnKeys, TreeInv, NEW c, Ordered(c), NEW t \in Thread, NextEntry(t)
  PROVE  Stutters \/ Index!Yield(t) \/ Index!End(t) \/ Index!Refuse(t)
  <1> DEFINE e == Nearest(Ahead(t))
  <1>1. at[t] = "next" /\ pages[cursor[t].leaf].kind = "leaf" /\ UNCHANGED <<pages, owed>>
    BY NextCases
  <1>2. CASE Exhausted(t) /\ \/ Ahead(t) # {} /\ Beyond(e.key, UpperOf(call[t]))
                             \/ Ahead(t) = {} /\ pages[cursor[t].leaf].next = NoPage
    <2>1. Sought(t) = {}
      BY <1>1, <1>2, NothingLeft
    <2>2. QED
      BY <1>1, <1>2, <2>1, ExhaustedEnds
  <1>3. CASE /\ Ahead(t) # {} /\ ~ Beyond(e.key, UpperOf(call[t]))
             /\ got' = [got EXCEPT ![t] = Append(@, e)]
             /\ UNCHANGED <<call, answer>>
    <2>1. IsNearest(e, Ahead(t))
      BY <1>1, <1>3, AheadRight
    <2> HIDE DEF e
    <2>2. CASE call[t].op = "scan"
      BY <1>1, <1>3, <2>1, <2>2, YieldYields
    <2>3. CASE call[t].op # "scan"
      <3>1. OrderTypes
        BY DEF Ordered
      <3>2. \A u \in Thread \ {t} : got'[u] = got[u]
        BY <1>3, <3>1 DEF OrderTypes
      <3>3. Shown' = Shown
        BY <1>3, <2>3, <3>1, <3>2, ShownKept
      <3>4. QED
        BY <1>1, <1>3, <3>3, ContentsKept DEF Stutters
    <2>4. QED
      BY <2>2, <2>3
  <1>4. CASE UNCHANGED <<call, answer, got>>
    BY <1>1, <1>4, PassStutters
  <1> HIDE DEF e
  <1>5. QED
    BY <1>2, <1>3, <1>4, NextCases DEF e

(* The initial states show an empty index. *)
LEMMA IndexInit == Init => Index!Init
  <1> SUFFICES ASSUME Init PROVE Index!Init
    OBVIOUS
  <1>1. /\ pages = <<Leaf(<<>>, NoPage)>> /\ call = [t \in Thread |-> Idle]
        /\ answer = [t \in Thread |-> "idle"] /\ got = [t \in Thread |-> <<>>]
        /\ owed = [t \in Thread |-> {}]
    BY DEF Init
  <1>2. Contents = {}
    <2>1. DOMAIN pages = {1} /\ pages[1].entries = <<>>
      BY <1>1 DEF Leaf
    <2>2. ToSet(<<>>) = {}
      BY DEF ToSet
    <2>3. \A e : e \notin Contents
      BY <2>1, <2>2, ContentsAre
    <2>4. QED
      BY <2>3
  <1>3. Shown = [t \in Thread |-> <<>>]
    BY <1>1 DEF Shown
  <1>4. QED
    BY <1>1, <1>2, <1>3 DEF Index!Init, Shown

(* Every step is one of the index, or shows nothing. *)
LEMMA IndexNext ==
  DeletesAlone /\ OwnKeys /\ OrderInv /\ [Next]_vars => [Index!Next]_(Index!vars)
  <1> SUFFICES ASSUME DeletesAlone, OwnKeys, OrderInv, [Next]_vars
               PROVE  Index!Next \/ Stutters
    BY DEF Index!vars, Stutters, Shown
  <1>1. TreeInv
    BY DEF OrderInv
  <1>2. PICK c : Ordered(c)
    BY DEF OrderInv
  <1>3. ASSUME NEW t \in Thread, NEW k, Call(t, k) PROVE Index!Next
    BY <1>1, <1>2, <1>3, CallCalls DEF Index!Next, IndexCalls, Shown
  <1>4. ASSUME NEW t \in Thread, Step(t) PROVE Index!Next \/ Stutters
    <2>1. CASE Seek(t) \/ Walk(t)
      BY <1>1, <1>2, <2>1, SeekDeletes, WalkDeletes DEF Index!Next, Shown
    <2>2. CASE Restart(t)
      BY <2>2, PassStutters DEF Restart
    <2>3. CASE NextEntry(t)
      BY <1>1, <1>2, <2>3, NextYields DEF Index!Next, Shown
    <2>4. CASE TooLarge(t) \/ Descend(t)
      BY <1>1, <1>2, <2>4, TooLargeAnswers, DescendInserts DEF Index!Next, Shown
    <2>5. CASE Propagate(t) \/ Erase(t)
      BY <1>1, <1>2, <2>5, PropagateAnswers, EraseDeletes DEF Index!Next, Shown
    <2>6. QED
      BY <1>4, <2>1, <2>2, <2>3, <2>4, <2>5 DEF Step
  <1>5. CASE Finished \/ UNCHANGED vars
    BY <1>5, PassStutters DEF Finished, vars
  <1>6. QED
    BY <1>3, <1>4, <1>5 DEF Next

(* The tree is an ordered index to the threads that share it (insert,      *)
(* delete, range and lookup): an entry is in it from the moment its leaf    *)
(* has taken it, before the splits that follow, a key is refused only if it *)
(* is there, a delete that finds nothing had nothing to find, and a scan    *)
(* yields in the order of keys whatever is there all along.                *)
THEOREM TreeImplements == DeletesAlone /\ OwnKeys => (Spec => Implements)
  <1> SUFFICES ASSUME DeletesAlone /\ OwnKeys PROVE Spec => Implements
    OBVIOUS
  <1>1. Spec => []OrderInv
    BY OrderAlways
  <1>2. OrderInv /\ [Next]_vars => [Index!Next]_(Index!vars)
    BY IndexNext
  <1>3. QED
    BY <1>1, <1>2, IndexInit, PTL DEF Spec, Implements, Index!Spec
=============================================================================
