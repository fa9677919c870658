-------------------------- MODULE LockManagerProofs --------------------------
(***************************************************************************)
(* Proofs about LockManager for every set of transactions and keys: type   *)
(* correctness, compatibility of the granted locks, the queue discipline   *)
(* and the absence of lost wakeups.  All four follow from one inductive    *)
(* invariant on each entry, EntryInv; the lemmas below show that each      *)
(* operator on entries preserves it.                                       *)
(***************************************************************************)
EXTENDS LockManager, SequenceTheorems, WellFoundedInduction, TLAPS

(***************************************************************************)
(* What holds of an entry between the removal of a holder and the          *)
(* promotion of the queue, and what promotion restores.                    *)
(***************************************************************************)
ReleasedInv(e) == e \in Entry /\ ModesCompatible(e) /\ QueueWellFormed(e)

EntryInv(e) == ReleasedInv(e) /\ HeadIsBlocked(e)

------------------------------------------------------------------------------
(* Every nonempty set of naturals has a least element. *)
LEMMA LeastNatural ==
  ASSUME NEW S \in SUBSET Nat, S # {}
  PROVE  \E m \in S : \A k \in S : m <= k
  <1>1. \E m \in S : \A k \in S : ~ (<<k, m>> \in OpToRel(<, Nat))
    BY NatLessThanWellFounded, WFMin
  <1>2. OpToRel(<, Nat) = {p \in Nat \X Nat : p[1] < p[2]}
    BY DEF OpToRel
  <1>3. PICK m \in S : \A k \in S : ~ (<<k, m>> \in OpToRel(<, Nat))
    BY <1>1
  <1>4. ASSUME NEW k \in S
        PROVE  m <= k
    <2>1. <<k, m>> \in Nat \X Nat => ~ (k < m)
      BY <1>2, <1>3
    <2>2. QED
      BY <2>1
  <1>5. QED
    BY <1>4

(* PromotedCount is the number of requests the promotion loop pops. *)
LEMMA PromotedCountExists ==
  ASSUME NEW e \in Entry
  PROVE  /\ PromotedCount(e) \in 0..Len(e.waiters)
         /\ \A i \in 1..PromotedCount(e) : Grantable(e, i)
         /\ PromotedCount(e) < Len(e.waiters) => ~ Grantable(e, PromotedCount(e) + 1)
  <1> DEFINE L == Len(e.waiters)
             Bad == {i \in 1..L : ~ Grantable(e, i)}
             Stops(n) == /\ \A i \in 1..n : Grantable(e, i)
                         /\ n < L => ~ Grantable(e, n + 1)
  <1>1. L \in Nat
    BY DEF Entry
  <1>2. \E n \in 0..L : Stops(n)
    <2>1. CASE Bad = {}
      BY <1>1, <2>1
    <2>2. CASE Bad # {}
      <3>0. Bad \in SUBSET Nat
        BY <1>1
      <3>1. PICK m \in Bad : \A k \in Bad : m <= k
        BY <2>2, <3>0, LeastNatural
      <3>2. m - 1 \in 0..L /\ (m - 1) + 1 = m /\ m \in 1..L
        BY <1>1, <3>1
      <3>3. ~ Grantable(e, m)
        BY <3>1
      <3>4. \A i \in 1..(m - 1) : i \in 1..L /\ ~ (m <= i)
        BY <1>1, <3>2
      <3>5. \A i \in 1..(m - 1) : Grantable(e, i)
        BY <3>1, <3>4
      <3> HIDE DEF Bad
      <3>6. Stops(m - 1)
        BY <3>2, <3>3, <3>5
      <3>7. QED
        BY <3>2, <3>6
    <2>3. QED
      BY <2>1, <2>2
  <1>3. PromotedCount(e) = CHOOSE n \in 0..L : Stops(n)
    BY DEF PromotedCount
  <1> HIDE DEF L, Stops
  <1>4. PromotedCount(e) \in 0..L /\ Stops(PromotedCount(e))
    BY <1>2, <1>3
  <1>5. QED
    BY <1>4 DEF L, Stops

(* The holders after n pops: the popped requests' modes, over the old holders. *)
LEMMA HoldersAfterPops ==
  ASSUME NEW e \in Entry, QueueWellFormed(e), NEW n \in 0..Len(e.waiters)
  PROVE  /\ HoldersAfter(e, n) \in [Txn -> Mode \cup {NoLock}]
         /\ \A i \in 1..n : HoldersAfter(e, n)[e.waiters[i].txn] = e.waiters[i].mode
         /\ \A t \in Txn : (\A i \in 1..n : e.waiters[i].txn # t)
                             => HoldersAfter(e, n)[t] = e.holders[t]
  <1>1. /\ Len(e.waiters) \in Nat
        /\ \A i \in 1..Len(e.waiters) : e.waiters[i] \in Waiter
        /\ e.holders \in [Txn -> Mode \cup {NoLock}]
    BY DEF Entry
  <1>2. \A i \in 1..n : i \in 1..Len(e.waiters)
    BY <1>1
  <1>3. \A i, j \in 1..Len(e.waiters) : e.waiters[i].txn = e.waiters[j].txn => i = j
    BY DEF QueueWellFormed
  <1>4. ASSUME NEW i \in 1..n
        PROVE  (CHOOSE j \in 1..n : e.waiters[j].txn = e.waiters[i].txn) = i
    BY <1>2, <1>3
  <1>5. ASSUME NEW t \in Txn, NEW i \in 1..n, e.waiters[i].txn = t
        PROVE  HoldersAfter(e, n)[t] = e.waiters[i].mode
    <2>1. HoldersAfter(e, n)[t] = e.waiters[CHOOSE j \in 1..n : e.waiters[j].txn = t].mode
      BY <1>5 DEF HoldersAfter
    <2>2. (CHOOSE j \in 1..n : e.waiters[j].txn = t) = i
      BY <1>4, <1>5
    <2>3. QED
      BY <2>1, <2>2
  <1>6. ASSUME NEW t \in Txn, \A i \in 1..n : e.waiters[i].txn # t
        PROVE  HoldersAfter(e, n)[t] = e.holders[t]
    BY <1>6 DEF HoldersAfter
  <1>7. ASSUME NEW t \in Txn
        PROVE  HoldersAfter(e, n)[t] \in Mode \cup {NoLock}
    BY <1>1, <1>2, <1>5, <1>6 DEF Waiter
  <1>8. HoldersAfter(e, n) = [t \in Txn |-> HoldersAfter(e, n)[t]]
    BY DEF HoldersAfter
  <1>9. HoldersAfter(e, n) \in [Txn -> Mode \cup {NoLock}]
    BY <1>7, <1>8
  <1>10. \A i \in 1..n : e.waiters[i].txn \in Txn
    BY <1>1, <1>2 DEF Waiter
  <1>11. QED
    BY <1>5, <1>6, <1>9, <1>10

(* Granting the first n requests, each grantable in its turn, leaves the    *)
(* granted modes pairwise compatible.                                       *)
LEMMA PromotionKeepsCompatible ==
  ASSUME NEW e, ReleasedInv(e), NEW n \in 0..Len(e.waiters),
         \A i \in 1..n : Grantable(e, i)
  PROVE  \A t, u \in HoldersOf(HoldersAfter(e, n)) :
            t # u => Compatible(HoldersAfter(e, n)[t], HoldersAfter(e, n)[u])
  <1> DEFINE q == e.waiters
             H(i) == HoldersAfter(e, i)
             Popped(t) == \E i \in 1..n : q[i].txn = t
  <1>1. /\ e \in Entry /\ QueueWellFormed(e) /\ ModesCompatible(e)
        /\ Len(q) \in Nat
        /\ \A i \in 1..Len(q) : q[i] \in Waiter
    BY DEF ReleasedInv, Entry
  <1>2. \A i \in 1..n : /\ i \in 1..Len(q)
                        /\ i - 1 \in 0..Len(q)
                        /\ \A j \in 1..(i - 1) : j \in 1..Len(q) /\ j \in 1..n /\ j # i
    BY <1>1
  <1>3. \A i, j \in 1..Len(q) : q[i].txn = q[j].txn => i = j
    BY <1>1 DEF QueueWellFormed
  \* a transaction popped at i conflicts with no other holder at that moment
  <1>4. ASSUME NEW i \in 1..n, NEW u \in Txn, u # q[i].txn, H(i - 1)[u] # NoLock
        PROVE  q[i].mode = Shared /\ H(i - 1)[u] = Shared
    <2>1. CanGrant(H(i - 1), q[i])
      BY DEF Grantable
    <2>2. u \in HoldersOf(H(i - 1))
      BY <1>4 DEF HoldersOf
    <2>3. ~ q[i].isUpgrade
      BY <1>4, <2>1, <2>2 DEF CanGrant, SoleHolder
    <2>4. Compatible(H(i - 1)[u], q[i].mode)
      BY <2>1, <2>2, <2>3 DEF CanGrant, CompatibleWithHolders
    <2>5. QED
      BY <2>4 DEF Compatible
  \* what those popped before i, and those never popped, hold at that moment
  <1>5. ASSUME NEW i \in 1..n, NEW j \in 1..(i - 1)
        PROVE  H(i - 1)[q[j].txn] = q[j].mode
    BY <1>1, <1>2, HoldersAfterPops
  <1>6. ASSUME NEW i \in 1..n, NEW u \in Txn, ~ Popped(u)
        PROVE  H(i - 1)[u] = e.holders[u]
    BY <1>1, <1>2, <1>6, HoldersAfterPops
  <1>7. \A i \in 1..n : H(n)[q[i].txn] = q[i].mode
    BY <1>1, HoldersAfterPops
  <1>8. \A u \in Txn : ~ Popped(u) => H(n)[u] = e.holders[u]
    BY <1>1, HoldersAfterPops
  <1>9. \A i \in 1..n : q[i].mode # NoLock /\ q[i].txn \in Txn
    BY <1>1, <1>2 DEF Waiter, Mode, Shared, Exclusive, NoLock
  <1> HIDE DEF H, q, Popped
  <1>10. ASSUME NEW i \in 1..n, NEW j \in 1..n, j < i
         PROVE  q[i].mode = Shared /\ q[j].mode = Shared
    <2>1. j \in 1..(i - 1) /\ q[j].txn # q[i].txn
      BY <1>1, <1>2, <1>3, <1>10
    <2>2. H(i - 1)[q[j].txn] = q[j].mode
      BY <1>5, <2>1
    <2>3. QED
      BY <1>4, <1>9, <2>1, <2>2
  <1>11. ASSUME NEW i \in 1..n, NEW u \in Txn, ~ Popped(u), e.holders[u] # NoLock
         PROVE  q[i].mode = Shared /\ e.holders[u] = Shared
    BY <1>4, <1>6, <1>11 DEF Popped
  <1>12. ASSUME NEW t \in HoldersOf(H(n)), NEW u \in HoldersOf(H(n)), t # u
         PROVE  H(n)[t] = Shared /\ H(n)[u] = Shared
    <2>0. t \in Txn /\ u \in Txn /\ H(n)[t] # NoLock /\ H(n)[u] # NoLock
      BY DEF HoldersOf
    <2>1. CASE Popped(t) /\ Popped(u)
      <3>1. PICK i \in 1..n : q[i].txn = t
        BY <2>1 DEF Popped
      <3>2. PICK j \in 1..n : q[j].txn = u
        BY <2>1 DEF Popped
      <3>3. i # j
        BY <1>12, <3>1, <3>2
      <3>4. i < j \/ j < i
        BY <1>1, <3>3
      <3>5. q[i].mode = Shared /\ q[j].mode = Shared
        BY <1>10, <3>4
      <3>6. QED
        BY <1>7, <3>1, <3>2, <3>5
    <2>2. CASE Popped(t) /\ ~ Popped(u)
      <3>1. PICK i \in 1..n : q[i].txn = t
        BY <2>2 DEF Popped
      <3>2. QED
        BY <1>7, <1>8, <1>11, <2>0, <2>2, <3>1
    <2>3. CASE ~ Popped(t) /\ Popped(u)
      <3>1. PICK i \in 1..n : q[i].txn = u
        BY <2>3 DEF Popped
      <3>2. QED
        BY <1>7, <1>8, <1>11, <2>0, <2>3, <3>1
    <2>4. CASE ~ Popped(t) /\ ~ Popped(u)
      <3>1. t \in HoldersOf(e.holders) /\ u \in HoldersOf(e.holders)
        BY <1>8, <2>0, <2>4 DEF HoldersOf
      <3>2. Compatible(e.holders[t], e.holders[u])
        BY <1>1, <1>12, <3>1 DEF ModesCompatible
      <3>3. QED
        BY <1>8, <2>0, <2>4, <3>2 DEF Compatible
    <2>5. QED
      BY <2>1, <2>2, <2>3, <2>4
  <1>13. QED
    BY <1>12 DEF Compatible, H

(* The queue that promotion leaves: what comes after the popped requests.   *)
After(q, n) == SubSeq(q, n + 1, Len(q))

LEMMA PoppedQueue ==
  ASSUME NEW q \in Seq(Waiter), NEW n \in 0..Len(q)
  PROVE  /\ After(q, n) \in Seq(Waiter)
         /\ Len(After(q, n)) = Len(q) - n
         /\ \A i \in 1..Len(After(q, n)) : /\ After(q, n)[i] = q[n + i]
                                           /\ n + i \in (n + 1)..Len(q)
  <1>1. /\ n + 1 \in Int /\ Len(q) \in Nat /\ n \in Nat
        /\ \A i \in (n + 1)..Len(q) : q[i] \in Waiter
    BY ElementOfSeq
  <1>2. /\ After(q, n) \in Seq(Waiter)
        /\ Len(After(q, n)) = IF n + 1 <= Len(q) THEN Len(q) - (n + 1) + 1 ELSE 0
        /\ \A i \in 1..(Len(q) - (n + 1) + 1) : After(q, n)[i] = q[(n + 1) + i - 1]
    BY <1>1, SubSeqProperties DEF After
  <1>3. Len(After(q, n)) = Len(q) - n
    BY <1>1, <1>2
  <1>4. \A i \in 1..Len(After(q, n)) : After(q, n)[i] = q[n + i] /\ n + i \in (n + 1)..Len(q)
    BY <1>1, <1>2, <1>3
  <1>5. QED
    BY <1>2, <1>3, <1>4

(* promote_waiters restores the full invariant of an entry.                 *)
LEMMA PromoteWaitersInv ==
  ASSUME NEW e, ReleasedInv(e)
  PROVE  EntryInv(PromoteWaiters(e))
  <1> DEFINE q == e.waiters
             n == PromotedCount(e)
             h == HoldersAfter(e, n)
             f == PromoteWaiters(e)
  <1>1. /\ e \in Entry /\ QueueWellFormed(e)
        /\ q \in Seq(Waiter) /\ Len(q) \in Nat
        /\ \A i \in 1..Len(q) : q[i] \in Waiter
    BY DEF ReleasedInv, Entry
  <1>2. /\ n \in 0..Len(q)
        /\ \A i \in 1..n : Grantable(e, i)
        /\ n < Len(q) => ~ Grantable(e, n + 1)
    BY <1>1, PromotedCountExists
  <1>3. h \in [Txn -> Mode \cup {NoLock}]
    BY <1>1, <1>2, HoldersAfterPops
  <1>4. \A i \in (n + 1)..Len(q) : h[q[i].txn] = e.holders[q[i].txn]
    <2>1. SUFFICES ASSUME NEW i \in (n + 1)..Len(q)
                   PROVE  h[q[i].txn] = e.holders[q[i].txn]
      OBVIOUS
    <2>2. i \in 1..Len(q) /\ \A j \in 1..n : j \in 1..Len(q) /\ j # i
      BY <1>1, <1>2
    <2>3. \A j \in 1..n : q[j].txn # q[i].txn
      BY <1>1, <2>2 DEF QueueWellFormed
    <2>4. q[i].txn \in Txn
      BY <1>1, <2>2 DEF Waiter
    <2>5. QED
      BY <1>1, <1>2, <2>3, <2>4, HoldersAfterPops
  <1>5. f = [holders |-> h, waiters |-> SubSeq(q, n + 1, Len(q))]
    BY DEF PromoteWaiters
  <1> DEFINE r == f.waiters
  <1> HIDE DEF n, h, f, q
  <1>6. f.holders = h /\ r = SubSeq(q, n + 1, Len(q))
    BY <1>5 DEF r
  <1>7. /\ r \in Seq(Waiter)
        /\ Len(r) = Len(q) - n
        /\ \A i \in 1..Len(r) : r[i] = q[n + i] /\ n + i \in (n + 1)..Len(q)
    BY <1>1, <1>2, <1>6, PoppedQueue DEF After
  <1> HIDE DEF r
  <1>8. f \in Entry
    BY <1>3, <1>5, <1>7 DEF Entry, r
  <1>9. ModesCompatible(f)
    <2>1. \A t, u \in HoldersOf(h) : t # u => Compatible(h[t], h[u])
      BY <1>1, <1>2, PromotionKeepsCompatible DEF h, n, q
    <2>2. QED
      BY <1>6, <2>1 DEF ModesCompatible
  <1>10. QueueWellFormed(f)
    <2>1. SUFFICES ASSUME NEW i \in 1..Len(r)
                   PROVE  /\ \A j \in 1..Len(r) : r[i].txn = r[j].txn => i = j
                          /\ r[i].isUpgrade => /\ r[i].mode = Exclusive
                                               /\ h[r[i].txn] = Shared
                                               /\ \A j \in 1..i : r[j].isUpgrade
                          /\ ~ r[i].isUpgrade => h[r[i].txn] = NoLock
      BY <1>6 DEF QueueWellFormed, r
    <2>2. \A j \in 1..Len(r) : r[j] = q[n + j] /\ n + j \in 1..Len(q)
      BY <1>1, <1>2, <1>7
    <2>3. h[r[i].txn] = e.holders[q[n + i].txn]
      BY <1>4, <1>7, <2>2
    <2>4. \A j \in 1..Len(r) : r[i].txn = r[j].txn => i = j
      BY <1>1, <1>2, <1>7, <2>2 DEF QueueWellFormed, q
    <2>5. \A j \in 1..i : j \in 1..Len(r) /\ n + j \in 1..(n + i)
      BY <1>1, <1>2, <1>7
    <2>6. /\ q[n + i].isUpgrade => /\ q[n + i].mode = Exclusive
                                   /\ e.holders[q[n + i].txn] = Shared
                                   /\ \A j \in 1..(n + i) : q[j].isUpgrade
          /\ ~ q[n + i].isUpgrade => e.holders[q[n + i].txn] = NoLock
      BY <1>1, <2>2 DEF QueueWellFormed, q
    <2>7. r[i] = q[n + i]
      BY <2>2
    <2>8. r[i].isUpgrade => \A j \in 1..i : r[j].isUpgrade
      BY <2>2, <2>5, <2>6, <2>7
    <2>9. QED
      BY <2>3, <2>4, <2>6, <2>7, <2>8
  <1>11. HeadIsBlocked(f)
    <2>1. SUFFICES ASSUME r # <<>>
                   PROVE  \E t \in HoldersOf(h) : /\ t # r[1].txn
                                                 /\ ~ Compatible(h[t], r[1].mode)
      BY <1>6 DEF HeadIsBlocked, r
    <2>2. Len(r) >= 1
      BY <1>7, <2>1
    <2>3. n < Len(q) /\ r[1] = q[n + 1] /\ n + 1 \in (n + 1)..Len(q) /\ n + 1 \in 1..Len(q)
      BY <1>1, <1>2, <1>7, <2>2
    <2>4. ~ CanGrant(h, q[n + 1])
      <3>1. (n + 1) - 1 = n
        BY <1>1, <1>2
      <3>2. QED
        BY <1>2, <2>3, <3>1 DEF Grantable, h, q
    <2>5. h[r[1].txn] = e.holders[q[n + 1].txn]
      BY <1>4, <2>3
    <2>6. r[1].txn \in Txn
      BY <1>1, <2>3 DEF Waiter
    <2>7. CASE r[1].isUpgrade
      <3>1. h[r[1].txn] = Shared /\ r[1].mode = Exclusive
        BY <1>1, <2>3, <2>5, <2>7 DEF QueueWellFormed, q
      <3>2. r[1].txn \in HoldersOf(h) /\ HoldersOf(h) # {r[1].txn}
        BY <2>3, <2>4, <2>6, <2>7, <3>1 DEF CanGrant, SoleHolder, HoldersOf, Shared, NoLock
      <3>3. QED
        BY <3>1, <3>2 DEF Compatible, Exclusive, Shared
    <2>8. CASE ~ r[1].isUpgrade
      <3>1. h[r[1].txn] = NoLock
        BY <1>1, <2>3, <2>5, <2>8 DEF QueueWellFormed, q
      <3>2. PICK t \in HoldersOf(h) : ~ Compatible(h[t], r[1].mode)
        BY <2>3, <2>4, <2>8 DEF CanGrant, CompatibleWithHolders
      <3>3. t # r[1].txn
        BY <3>1, <3>2 DEF HoldersOf
      <3>4. QED
        BY <3>2, <3>3
    <2>9. QED
      BY <2>7, <2>8
  <1>12. QED
    BY <1>8, <1>9, <1>10, <1>11 DEF EntryInv, ReleasedInv, f

------------------------------------------------------------------------------
(* Modes are three distinct values. *)
LEMMA ModesDistinct ==
  Shared # Exclusive /\ NoLock \notin Mode /\ Shared \in Mode /\ Exclusive \in Mode
  BY DEF Shared, Exclusive, NoLock, Mode

(* A transaction waits where its request is queued.                         *)
LEMMA QueuedRequest ==
  ASSUME NEW q \in Seq(Waiter), NEW i \in 1..Len(q)
  PROVE  q[i] \in Waiter /\ q[i].txn \in Txn
  <1>1. q[i] \in Waiter
    BY ElementOfSeq
  <1>2. QED
    BY <1>1 DEF Waiter

(* acquire preserves the invariant of its entry: the granting branch.       *)
LEMMA GrantInv ==
  ASSUME NEW e, EntryInv(e), NEW t \in Txn, NEW mode \in Mode, GrantedAtOnce(e, t, mode)
  PROVE  EntryInv(AcquireEntry(e, t, mode))
  <1> DEFINE f == AcquireEntry(e, t, mode)
             q == e.waiters
  <1>1. /\ e \in Entry /\ ModesCompatible(e) /\ QueueWellFormed(e) /\ HeadIsBlocked(e)
        /\ e.holders \in [Txn -> Mode \cup {NoLock}]
        /\ q \in Seq(Waiter) /\ Len(q) \in Nat
    BY DEF EntryInv, ReleasedInv, Entry
  <1>2. f = [e EXCEPT !.holders[t] = IF e.holders[t] = Exclusive THEN Exclusive ELSE mode]
    BY DEF AcquireEntry
  <1>3. f \in Entry /\ f.waiters = q
    BY <1>1, <1>2, ModesDistinct DEF Entry
  <1>4. \A u \in Txn : f.holders[u] =
            IF u = t THEN IF e.holders[t] = Exclusive THEN Exclusive ELSE mode
                     ELSE e.holders[u]
    BY <1>1, <1>2 DEF Entry
  <1>5. \A i \in 1..Len(q) : q[i] \in Waiter /\ q[i].txn \in Txn
    BY <1>1, QueuedRequest
  <1> HIDE DEF f
  <1>6. CASE HoldsEnough(e, t, mode)
    <2>1. \A u \in Txn : f.holders[u] = e.holders[u]
      BY <1>4, <1>6 DEF HoldsEnough
    <2>2. f.holders = e.holders
      BY <1>1, <1>3, <2>1 DEF Entry
    <2>3. QED
      BY <1>1, <1>3, <2>2
      DEF EntryInv, ReleasedInv, ModesCompatible, QueueWellFormed, HeadIsBlocked, f
  <1>7. CASE IsUpgrade(e, t, mode) /\ SoleHolder(e.holders, t)
    <2>1. e.holders[t] = Shared /\ mode = Exclusive
      BY <1>7 DEF IsUpgrade
    <2>2. \A u \in Txn : u # t => e.holders[u] = NoLock
      BY <1>7 DEF SoleHolder, HoldersOf
    <2>3. f.holders[t] = Exclusive /\ \A u \in Txn : u # t => f.holders[u] = NoLock
      BY <1>4, <2>1, <2>2, ModesDistinct
    <2>4. ModesCompatible(f)
      BY <2>3 DEF ModesCompatible, HoldersOf
    \* the head waits for t itself, so nobody queued an upgrade
    <2>5. q # <<>> => 1 \in 1..Len(q) /\ q[1].txn # t /\ ~ q[1].isUpgrade
      <3>1. SUFFICES ASSUME q # <<>>
                     PROVE  1 \in 1..Len(q) /\ q[1].txn # t /\ ~ q[1].isUpgrade
        OBVIOUS
      <3>2. 1 \in 1..Len(q)
        BY <1>1, <3>1
      <3>3. PICK u \in HoldersOf(e.holders) : u # q[1].txn
        BY <1>1, <3>1 DEF HeadIsBlocked
      <3>4. u = t
        BY <1>7, <3>3 DEF SoleHolder
      <3>5. e.holders[q[1].txn] = NoLock
        BY <1>5, <2>2, <3>2, <3>3, <3>4
      <3>6. QED
        BY <1>1, <3>2, <3>3, <3>4, <3>5, ModesDistinct DEF QueueWellFormed
    <2>6. \A i \in 1..Len(q) : 1 \in 1..i /\ q # <<>>
      BY <1>1
    <2>7. \A i \in 1..Len(q) : ~ q[i].isUpgrade
      BY <1>1, <2>5, <2>6 DEF QueueWellFormed
    <2>8. \A i \in 1..Len(q) : q[i].txn # t /\ f.holders[q[i].txn] = NoLock
      BY <1>1, <1>5, <2>1, <2>3, <2>7, ModesDistinct DEF QueueWellFormed
    <2>9. QueueWellFormed(f)
      BY <1>1, <1>3, <2>7, <2>8 DEF QueueWellFormed
    <2>10. HeadIsBlocked(f)
      BY <1>3, <2>3, <2>5, ModesDistinct DEF HeadIsBlocked, HoldersOf, Compatible
    <2>11. QED
      BY <1>3, <2>4, <2>9, <2>10 DEF EntryInv, ReleasedInv, f
  <1>8. CASE /\ e.holders[t] = NoLock
             /\ q = <<>>
             /\ CompatibleWithHolders(e.holders, mode)
    <2>1. f.waiters = <<>> /\ Len(f.waiters) = 0
      BY <1>3, <1>8
    <2>2. f.holders[t] = mode /\ \A u \in Txn : u # t => f.holders[u] = e.holders[u]
      BY <1>4, <1>8, ModesDistinct
    <2>3. ASSUME NEW u \in HoldersOf(f.holders), u # t
          PROVE  f.holders[u] = Shared /\ mode = Shared
      BY <1>8, <2>2, <2>3 DEF HoldersOf, CompatibleWithHolders, Compatible
    <2>4. ASSUME NEW u \in HoldersOf(f.holders), NEW v \in HoldersOf(f.holders), u # v
          PROVE  Compatible(f.holders[u], f.holders[v])
      <3>1. CASE u # t /\ v # t
        BY <2>3, <3>1 DEF Compatible
      <3>2. CASE u = t \/ v = t
        BY <2>2, <2>3, <2>4, <3>2 DEF Compatible
      <3>3. QED
        BY <3>1, <3>2
    <2>5. ModesCompatible(f)
      BY <2>4 DEF ModesCompatible
    <2>6. QueueWellFormed(f) /\ HeadIsBlocked(f)
      BY <2>1 DEF QueueWellFormed, HeadIsBlocked
    <2>7. QED
      BY <1>3, <2>5, <2>6 DEF EntryInv, ReleasedInv, f
  <1>9. QED
    BY <1>6, <1>7, <1>8 DEF GrantedAtOnce, f

(* acquire preserves the invariant of its entry: the queueing branch.       *)
LEMMA EnqueueInv ==
  ASSUME NEW e, EntryInv(e), NEW t \in Txn, NEW mode \in Mode, ~ GrantedAtOnce(e, t, mode)
  PROVE  EntryInv(AcquireEntry(e, t, mode))
  <1> DEFINE f == AcquireEntry(e, t, mode)
             q == e.waiters
             h == e.holders
             r == Enqueue(e, t, mode)
             fresh == [txn |-> t, mode |-> mode, isUpgrade |-> FALSE]
             upgrade == [txn |-> t, mode |-> mode, isUpgrade |-> TRUE]
  <1>1. /\ e \in Entry /\ ModesCompatible(e) /\ QueueWellFormed(e) /\ HeadIsBlocked(e)
        /\ h \in [Txn -> Mode \cup {NoLock}]
        /\ q \in Seq(Waiter) /\ Len(q) \in Nat
    BY DEF EntryInv, ReleasedInv, Entry
  <1>2. f = [e EXCEPT !.waiters = r]
    BY DEF AcquireEntry
  <1>3. fresh \in Waiter /\ upgrade \in Waiter
    BY DEF Waiter
  <1>4. \A i \in 1..Len(q) : q[i] \in Waiter /\ q[i].txn \in Txn
    BY <1>1, QueuedRequest
  <1> HIDE DEF f, r
  <1>5. CASE Waits(q, t)
    <2>1. r = q
      BY <1>5 DEF Enqueue, r
    <2>2. f = e
      BY <1>1, <1>2, <2>1 DEF Entry
    <2>3. QED
      BY <2>2 DEF f
  <1>6. CASE ~ Waits(q, t) /\ IsUpgrade(e, t, mode)
    <2>1. r = <<upgrade>> \o q
      BY <1>6 DEF Enqueue, r
    <2>2. <<upgrade>> \in Seq(Waiter) /\ Len(<<upgrade>>) = 1 /\ <<upgrade>>[1] = upgrade
      BY <1>3
    <2>3. /\ r \in Seq(Waiter)
          /\ Len(r) = Len(q) + 1
          /\ r[1] = upgrade
          /\ \A i \in 2..Len(r) : r[i] = q[i - 1] /\ i - 1 \in 1..Len(q)
      <3>1. /\ r \in Seq(Waiter)
            /\ Len(r) = 1 + Len(q)
            /\ \A i \in 1..(1 + Len(q)) : r[i] = IF i <= 1 THEN <<upgrade>>[i] ELSE q[i - 1]
        BY <1>1, <2>1, <2>2, ConcatProperties
      <3>2. r[1] = upgrade
        <4> HIDE DEF upgrade
        <4>1. 1 \in 1..(1 + Len(q)) /\ 1 <= 1
          BY <1>1
        <4>2. r[1] = <<upgrade>>[1]
          BY <3>1, <4>1
        <4>3. QED
          BY <4>2
      <3>3. ASSUME NEW i \in 2..Len(r)
            PROVE  r[i] = q[i - 1] /\ i - 1 \in 1..Len(q)
        <4>1. i \in 1..(1 + Len(q)) /\ ~ (i <= 1)
          BY <1>1, <3>1
        <4>2. QED
          BY <1>1, <3>1, <4>1
      <3>4. QED
        BY <1>1, <3>1, <3>2, <3>3
    <2>4. h[t] = Shared /\ mode = Exclusive
      BY <1>6 DEF IsUpgrade
    <2>5. f \in Entry /\ f.holders = h /\ f.waiters = r
      BY <1>1, <1>2, <2>3 DEF Entry
    <2>6. \A i \in 1..Len(q) : q[i].txn # t
      BY <1>6 DEF Waits
    <2>7. \A i \in 1..Len(r) : i = 1 \/ i \in 2..Len(r)
      BY <1>1, <2>3
    <2>8. ASSUME NEW i \in 1..Len(r)
          PROVE  /\ \A j \in 1..Len(r) : r[i].txn = r[j].txn => i = j
                 /\ r[i].isUpgrade  => /\ r[i].mode = Exclusive
                                       /\ h[r[i].txn] = Shared
                                       /\ \A j \in 1..i : r[j].isUpgrade
                 /\ ~ r[i].isUpgrade => h[r[i].txn] = NoLock
      <3>1. CASE i = 1
        <4>1. r[i].txn = t /\ r[i].mode = mode /\ r[i].isUpgrade
          BY <2>3, <3>1
        <4>2. \A j \in 1..Len(r) : r[i].txn = r[j].txn => i = j
          BY <2>3, <2>6, <2>7, <3>1, <4>1
        <4>3. \A j \in 1..i : j = i
          BY <3>1
        <4>4. QED
          BY <2>4, <4>1, <4>2, <4>3
      <3>2. CASE i \in 2..Len(r)
        <4>1. r[i] = q[i - 1] /\ i - 1 \in 1..Len(q)
          BY <2>3, <3>2
        <4>2. /\ q[i - 1].isUpgrade => /\ q[i - 1].mode = Exclusive
                                       /\ h[q[i - 1].txn] = Shared
                                       /\ \A j \in 1..(i - 1) : q[j].isUpgrade
              /\ ~ q[i - 1].isUpgrade => h[q[i - 1].txn] = NoLock
              /\ \A j \in 1..Len(q) : q[i - 1].txn = q[j].txn => i - 1 = j
          BY <1>1, <4>1 DEF QueueWellFormed
        <4>3. ASSUME NEW j \in 1..Len(r), r[i].txn = r[j].txn
              PROVE  i = j
          <5>1. CASE j = 1
            BY <2>3, <2>6, <4>1, <4>3, <5>1
          <5>2. CASE j \in 2..Len(r)
            <6>1. r[j] = q[j - 1] /\ j - 1 \in 1..Len(q)
              BY <2>3, <5>2
            <6>2. i - 1 = j - 1
              BY <4>1, <4>2, <4>3, <6>1
            <6>3. QED
              BY <6>2
          <5>3. QED
            BY <2>7, <5>1, <5>2
        <4>4. ASSUME q[i - 1].isUpgrade, NEW j \in 1..i
              PROVE  r[j].isUpgrade
          <5>1. j = 1 \/ (j \in 2..Len(r) /\ j - 1 \in 1..(i - 1))
            BY <1>1, <2>3
          <5>2. QED
            BY <2>3, <4>2, <4>4, <5>1
        <4>5. QED
          BY <4>1, <4>2, <4>3, <4>4
      <3>3. QED
        BY <2>7, <3>1, <3>2
    <2>9. QueueWellFormed(f)
      BY <2>5, <2>8 DEF QueueWellFormed
    <2>10. HeadIsBlocked(f)
      <3>1. t \in HoldersOf(h) /\ HoldersOf(h) # {t}
        BY <1>6, <2>4, ModesDistinct DEF GrantedAtOnce, SoleHolder, HoldersOf
      <3>2. PICK u \in HoldersOf(h) : u # t
        BY <3>1
      <3>3. ~ Compatible(h[u], mode)
        BY <2>4, ModesDistinct DEF Compatible
      <3>4. QED
        BY <2>3, <2>5, <3>2, <3>3 DEF HeadIsBlocked
    <2>11. ModesCompatible(f)
      BY <1>1, <2>5 DEF ModesCompatible
    <2>12. QED
      BY <2>5, <2>9, <2>10, <2>11 DEF EntryInv, ReleasedInv, f
  <1>7. CASE ~ Waits(q, t) /\ ~ IsUpgrade(e, t, mode)
    <2>1. r = Append(q, fresh)
      BY <1>7 DEF Enqueue, r
    <2>2. /\ r \in Seq(Waiter) /\ r # <<>>
          /\ Len(r) = Len(q) + 1
          /\ \A i \in 1..Len(q) : r[i] = q[i]
          /\ r[Len(q) + 1] = fresh
      BY <1>1, <1>3, <2>1, AppendProperties
    <2>3. h[t] = NoLock
      <3>1. h[t] # Exclusive /\ h[t] # mode
        BY <1>7 DEF GrantedAtOnce, HoldsEnough
      <3>2. h[t] = Shared => mode # Exclusive
        BY <1>7 DEF IsUpgrade
      <3>3. QED
        BY <1>1, <3>1, <3>2 DEF Mode
    <2>4. f \in Entry /\ f.holders = h /\ f.waiters = r
      BY <1>1, <1>2, <2>2 DEF Entry
    <2>5. \A i \in 1..Len(q) : q[i].txn # t
      BY <1>7 DEF Waits
    <2>6. \A i \in 1..Len(r) : i \in 1..Len(q) \/ i = Len(q) + 1
      BY <1>1, <2>2
    <2>7. ASSUME NEW i \in 1..Len(r)
          PROVE  /\ \A j \in 1..Len(r) : r[i].txn = r[j].txn => i = j
                 /\ r[i].isUpgrade  => /\ r[i].mode = Exclusive
                                       /\ h[r[i].txn] = Shared
                                       /\ \A j \in 1..i : r[j].isUpgrade
                 /\ ~ r[i].isUpgrade => h[r[i].txn] = NoLock
      <3>1. CASE i = Len(q) + 1
        BY <1>1, <2>2, <2>3, <2>5, <2>6, <3>1
      <3>2. CASE i \in 1..Len(q)
        <4>1. /\ q[i].isUpgrade => /\ q[i].mode = Exclusive
                                   /\ h[q[i].txn] = Shared
                                   /\ \A j \in 1..i : q[j].isUpgrade
              /\ ~ q[i].isUpgrade => h[q[i].txn] = NoLock
              /\ \A j \in 1..Len(q) : q[i].txn = q[j].txn => i = j
          BY <1>1, <3>2 DEF QueueWellFormed
        <4>2. \A j \in 1..i : j \in 1..Len(q)
          BY <1>1, <3>2
        <4>3. QED
          BY <2>2, <2>5, <2>6, <3>2, <4>1, <4>2
      <3>3. QED
        BY <2>6, <3>1, <3>2
    <2>8. QueueWellFormed(f)
      BY <2>4, <2>7 DEF QueueWellFormed
    <2>9. HeadIsBlocked(f)
      <3>1. CASE q # <<>>
        <4>1. r[1] = q[1]
          BY <1>1, <2>2, <3>1
        <4>2. QED
          BY <1>1, <2>4, <3>1, <4>1 DEF HeadIsBlocked
      <3>2. CASE q = <<>>
        <4>1. r[1] = fresh
          BY <1>1, <2>2, <3>2
        <4>2. ~ CompatibleWithHolders(h, mode)
          BY <1>7, <2>3, <3>2 DEF GrantedAtOnce
        <4>3. PICK u \in HoldersOf(h) : ~ Compatible(h[u], mode)
          BY <4>2 DEF CompatibleWithHolders
        <4>4. u # t
          BY <2>3, <4>3 DEF HoldersOf
        <4>5. QED
          BY <2>4, <4>1, <4>3, <4>4 DEF HeadIsBlocked
      <3>3. QED
        BY <3>1, <3>2
    <2>10. ModesCompatible(f)
      BY <1>1, <2>4 DEF ModesCompatible
    <2>11. QED
      BY <2>4, <2>8, <2>9, <2>10 DEF EntryInv, ReleasedInv, f
  <1>8. QED
    BY <1>5, <1>6, <1>7 DEF f

(* Removing a holder that does not wait on the key.                         *)
LEMMA DropHolderInv ==
  ASSUME NEW e, ReleasedInv(e), NEW t \in Txn, ~ Waits(e.waiters, t)
  PROVE  ReleasedInv([holders |-> DropHolder(e.holders, t), waiters |-> e.waiters])
  <1> DEFINE h == DropHolder(e.holders, t)
             q == e.waiters
             f == [holders |-> h, waiters |-> q]
  <1>1. /\ e \in Entry /\ ModesCompatible(e) /\ QueueWellFormed(e)
        /\ e.holders \in [Txn -> Mode \cup {NoLock}]
        /\ q \in Seq(Waiter)
    BY DEF ReleasedInv, Entry
  <1>2. /\ h \in [Txn -> Mode \cup {NoLock}]
        /\ h[t] = NoLock
        /\ \A u \in Txn : u # t => h[u] = e.holders[u]
    BY <1>1 DEF DropHolder
  <1> HIDE DEF h
  <1>3. f \in Entry /\ f.holders = h /\ f.waiters = q
    BY <1>1, <1>2 DEF Entry
  <1>4. HoldersOf(h) \subseteq HoldersOf(e.holders) \ {t}
    BY <1>2 DEF HoldersOf
  <1>5. ModesCompatible(f)
    <2>1. ASSUME NEW u \in HoldersOf(h), NEW v \in HoldersOf(h), u # v
          PROVE  Compatible(h[u], h[v])
      <3>1. /\ u \in HoldersOf(e.holders) /\ v \in HoldersOf(e.holders)
            /\ h[u] = e.holders[u] /\ h[v] = e.holders[v]
        BY <1>2, <1>4 DEF HoldersOf
      <3>2. QED
        BY <1>1, <2>1, <3>1 DEF ModesCompatible
    <2>2. QED
      BY <1>3, <2>1 DEF ModesCompatible
  <1>6. \A i \in 1..Len(q) : h[q[i].txn] = e.holders[q[i].txn]
    BY <1>1, <1>2, QueuedRequest DEF Waits
  <1>7. QueueWellFormed(f)
    BY <1>1, <1>3, <1>6 DEF QueueWellFormed
  <1>8. QED
    BY <1>3, <1>5, <1>7 DEF ReleasedInv, h

(* A queue without its i-th request, and the place its j-th one had before. *)
Without(q, i) == SubSeq(q, 1, i - 1) \o SubSeq(q, i + 1, Len(q))

OldPlace(i, j) == IF j < i THEN j ELSE j + 1

(* The other requests keep their order.                                     *)
LEMMA RemovedRequest ==
  ASSUME NEW q \in Seq(Waiter), NEW i \in 1..Len(q)
  PROVE  /\ Without(q, i) \in Seq(Waiter)
         /\ Len(Without(q, i)) = Len(q) - 1
         /\ \A j \in 1..Len(Without(q, i)) : /\ Without(q, i)[j] = q[OldPlace(i, j)]
                                             /\ OldPlace(i, j) \in 1..Len(q)
                                             /\ OldPlace(i, j) # i
  <1> DEFINE r == Without(q, i)
  <1>1. Len(q) \in Nat /\ i \in Int
    OBVIOUS
  <1>2. /\ SubSeq(q, 1, i - 1) \in Seq(Waiter)
        /\ Len(SubSeq(q, 1, i - 1)) = i - 1
        /\ \A j \in 1..(i - 1) : SubSeq(q, 1, i - 1)[j] = q[j]
    <2>1. 1 \in Int /\ i - 1 \in Int /\ \A j \in 1..(i - 1) : q[j] \in Waiter
      BY <1>1, QueuedRequest
    <2>2. /\ SubSeq(q, 1, i - 1) \in Seq(Waiter)
          /\ Len(SubSeq(q, 1, i - 1)) = IF 1 <= i - 1 THEN (i - 1) - 1 + 1 ELSE 0
          /\ \A j \in 1..((i - 1) - 1 + 1) : SubSeq(q, 1, i - 1)[j] = q[1 + j - 1]
      BY <2>1, SubSeqProperties
    <2>3. QED
      BY <1>1, <2>2
  <1>3. /\ SubSeq(q, i + 1, Len(q)) \in Seq(Waiter)
        /\ Len(SubSeq(q, i + 1, Len(q))) = Len(q) - i
        /\ \A j \in 1..(Len(q) - i) : SubSeq(q, i + 1, Len(q))[j] = q[i + j]
    <2>1. i + 1 \in Int /\ Len(q) \in Int /\ \A j \in (i + 1)..Len(q) : q[j] \in Waiter
      BY <1>1, QueuedRequest
    <2>2. /\ SubSeq(q, i + 1, Len(q)) \in Seq(Waiter)
          /\ Len(SubSeq(q, i + 1, Len(q))) =
                IF i + 1 <= Len(q) THEN Len(q) - (i + 1) + 1 ELSE 0
          /\ \A j \in 1..(Len(q) - (i + 1) + 1) :
                SubSeq(q, i + 1, Len(q))[j] = q[(i + 1) + j - 1]
      BY <2>1, SubSeqProperties
    <2>3. QED
      BY <1>1, <2>2
  <1> DEFINE old(j) == IF j < i THEN j ELSE j + 1
  <1>4. /\ r \in Seq(Waiter)
        /\ Len(r) = Len(q) - 1
        /\ \A j \in 1..Len(r) : r[j] = q[old(j)] /\ old(j) \in 1..Len(q) /\ old(j) # i
    <2> DEFINE a == SubSeq(q, 1, i - 1)
               b == SubSeq(q, i + 1, Len(q))
    <2> HIDE DEF a, b
    <2>1. /\ a \in Seq(Waiter) /\ Len(a) = i - 1 /\ \A j \in 1..(i - 1) : a[j] = q[j]
          /\ b \in Seq(Waiter) /\ Len(b) = Len(q) - i /\ \A j \in 1..(Len(q) - i) : b[j] = q[i + j]
          /\ r = a \o b
      BY <1>2, <1>3 DEF Without, a, b
    <2> HIDE DEF r
    <2>2. /\ r \in Seq(Waiter)
          /\ Len(r) = Len(a) + Len(b)
          /\ \A j \in 1..(Len(a) + Len(b)) :
                r[j] = IF j <= Len(a) THEN a[j] ELSE b[j - Len(a)]
      BY <2>1, ConcatProperties
    <2>3. Len(r) = Len(q) - 1
      BY <1>1, <2>1, <2>2
    <2>4. ASSUME NEW j \in 1..Len(r)
          PROVE  r[j] = q[old(j)] /\ old(j) \in 1..Len(q) /\ old(j) # i
      <3>1. CASE j < i
        BY <1>1, <2>1, <2>2, <2>3, <3>1
      <3>2. CASE ~ (j < i)
        <4>1. j - (i - 1) \in 1..(Len(q) - i) /\ i + (j - (i - 1)) = j + 1
              /\ ~ (j <= i - 1) /\ j + 1 \in 1..Len(q)
          <5>1. i \in Int /\ j \in Int /\ Len(q) \in Int
            BY <1>1, <2>3
          <5>2. 1 <= i /\ i <= Len(q) /\ i <= j /\ j <= Len(q) - 1
            BY <1>1, <2>3, <3>2
          <5>3. QED
            BY <5>1, <5>2
        <4>2. r[j] = b[j - (i - 1)]
          BY <2>1, <2>2, <4>1
        <4>3. QED
          BY <1>1, <2>1, <3>2, <4>1, <4>2
      <3>3. QED
        BY <3>1, <3>2
    <2>5. QED
      BY <2>2, <2>3, <2>4
  <1>5. QED
    BY <1>4 DEF OldPlace

(* Removing a waiter: the rest of the queue keeps its order.                *)
LEMMA DropWaiterInv ==
  ASSUME NEW e, ReleasedInv(e), NEW t \in Txn
  PROVE  /\ ReleasedInv([holders |-> e.holders, waiters |-> DropWaiter(e.waiters, t)])
         /\ ~ Waits(DropWaiter(e.waiters, t), t)
  <1> DEFINE q == e.waiters
             r == DropWaiter(q, t)
             h == e.holders
             f == [holders |-> h, waiters |-> r]
  <1>1. /\ e \in Entry /\ ModesCompatible(e) /\ QueueWellFormed(e)
        /\ h \in [Txn -> Mode \cup {NoLock}]
        /\ q \in Seq(Waiter) /\ Len(q) \in Nat
    BY DEF ReleasedInv, Entry
  <1>2. CASE ~ Waits(q, t)
    <2>1. r = q
      BY <1>2 DEF DropWaiter
    <2>2. f = e
      BY <1>1, <2>1 DEF Entry
    <2>3. QED
      BY <1>2, <2>1, <2>2
  <1>3. CASE Waits(q, t)
    <2> DEFINE i == CHOOSE i \in 1..Len(q) : q[i].txn = t
    <2>1. i \in 1..Len(q) /\ q[i].txn = t
      BY <1>3 DEF Waits
    <2>2. r = Without(q, i)
      BY <1>3 DEF DropWaiter, Without
    <2> HIDE DEF i
    <2> DEFINE old(j) == OldPlace(i, j)
    <2>5. /\ r \in Seq(Waiter)
          /\ Len(r) = Len(q) - 1
          /\ \A j \in 1..Len(r) : r[j] = q[old(j)] /\ old(j) \in 1..Len(q) /\ old(j) # i
      BY <1>1, <2>1, <2>2, RemovedRequest
    <2> HIDE DEF r
    <2>6. \A j \in 1..Len(q) : q[j].txn = t => j = i
      BY <1>1, <2>1 DEF QueueWellFormed
    <2>7. ~ Waits(r, t)
      BY <2>5, <2>6 DEF Waits
    <2>8. f \in Entry /\ f.holders = h /\ f.waiters = r
      BY <1>1, <2>5 DEF Entry
    <2>9. ModesCompatible(f)
      BY <1>1, <2>8 DEF ModesCompatible
    <2>10. ASSUME NEW j \in 1..Len(r)
           PROVE  /\ \A k \in 1..Len(r) : r[j].txn = r[k].txn => j = k
                  /\ r[j].isUpgrade  => /\ r[j].mode = Exclusive
                                        /\ h[r[j].txn] = Shared
                                        /\ \A k \in 1..j : r[k].isUpgrade
                  /\ ~ r[j].isUpgrade => h[r[j].txn] = NoLock
      <3>1. r[j] = q[old(j)] /\ old(j) \in 1..Len(q)
        BY <2>5
      <3>2. /\ q[old(j)].isUpgrade => /\ q[old(j)].mode = Exclusive
                                      /\ h[q[old(j)].txn] = Shared
                                      /\ \A k \in 1..old(j) : q[k].isUpgrade
            /\ ~ q[old(j)].isUpgrade => h[q[old(j)].txn] = NoLock
            /\ \A k \in 1..Len(q) : q[old(j)].txn = q[k].txn => old(j) = k
        BY <1>1, <3>1 DEF QueueWellFormed
      <3>3. ASSUME NEW k \in 1..Len(r), r[j].txn = r[k].txn
            PROVE  j = k
        <4>1. old(j) = old(k)
          BY <2>5, <3>1, <3>2, <3>3
        <4>2. QED
          BY <1>1, <2>1, <2>5, <4>1 DEF OldPlace
      <3>4. ASSUME q[old(j)].isUpgrade, NEW k \in 1..j
            PROVE  r[k].isUpgrade
        <4>1. k \in 1..Len(r) /\ old(k) \in 1..old(j)
          BY <1>1, <2>1, <2>5 DEF OldPlace
        <4>2. QED
          BY <2>5, <3>2, <3>4, <4>1
      <3> HIDE DEF old
      <3>5. QED
        BY <3>1, <3>2, <3>3, <3>4
    <2>11. QueueWellFormed(f)
      BY <2>8, <2>10 DEF QueueWellFormed
    <2>12. QED
      BY <2>7, <2>8, <2>9, <2>11 DEF ReleasedInv, r
  <1>4. QED
    BY <1>2, <1>3

(* The four calls on an entry preserve its invariant.                       *)
LEMMA AcquireEntryInv ==
  ASSUME NEW e, EntryInv(e), NEW t \in Txn, NEW mode \in Mode
  PROVE  EntryInv(AcquireEntry(e, t, mode))
  BY GrantInv, EnqueueInv

(* release_all on one key preserves the invariant of its entry.             *)
LEMMA ReleaseEntryInv ==
  ASSUME NEW e, EntryInv(e), NEW t \in Txn
  PROVE  EntryInv(ReleaseEntry(e, t))
  <1> DEFINE q == DropWaiter(e.waiters, t)
             d == [holders |-> e.holders, waiters |-> q]
  <1>1. ReleasedInv(d) /\ ~ Waits(q, t)
    BY DropWaiterInv DEF EntryInv
  <1>2. d.holders = e.holders /\ d.waiters = q
    OBVIOUS
  <1> HIDE DEF d, q
  <1>3. ReleasedInv([holders |-> DropHolder(e.holders, t), waiters |-> q])
    BY <1>1, <1>2, DropHolderInv
  <1>4. QED
    BY <1>3, PromoteWaitersInv DEF ReleaseEntry, q

(* release_keys on one key does, when it is asked to release a read lock.   *)
LEMMA ReleaseHeldEntryInv ==
  ASSUME NEW e, EntryInv(e), NEW t \in Txn, ~ Waits(e.waiters, t)
  PROVE  EntryInv(ReleaseHeldEntry(e, t))
  BY DropHolderInv, PromoteWaitersInv DEF ReleaseHeldEntry, EntryInv

(* So does the entry of a key that nobody has asked for.                    *)
LEMMA EmptyEntryInv == EntryInv(EmptyEntry)
  <1>1. EmptyEntry \in Entry
    BY DEF EmptyEntry, Entry
  <1>2. HoldersOf(EmptyEntry.holders) = {} /\ Len(EmptyEntry.waiters) = 0
        /\ EmptyEntry.waiters = <<>>
    BY DEF EmptyEntry, HoldersOf
  <1>3. ModesCompatible(EmptyEntry)
    BY <1>2 DEF ModesCompatible
  <1>4. QueueWellFormed(EmptyEntry) /\ HeadIsBlocked(EmptyEntry)
    BY <1>2 DEF QueueWellFormed, HeadIsBlocked
  <1>5. QED
    BY <1>1, <1>3, <1>4 DEF EntryInv, ReleasedInv

------------------------------------------------------------------------------
(* The inductive invariant of the lock manager.                             *)
LockInv == TypeOK /\ \A k \in Key : EntryInv(entries[k])

(* The lock table starts empty. *)
LEMMA LockInvInit == Init => LockInv
  <1> SUFFICES ASSUME Init PROVE LockInv
    OBVIOUS
  <1>1. \A k \in Key : entries[k] = EmptyEntry
    BY DEF Init
  <1>2. \A k \in Key : EntryInv(entries[k])
    BY <1>1, EmptyEntryInv
  <1>3. TypeOK
    BY EmptyEntryInv DEF Init, TypeOK, EntryInv, ReleasedInv
  <1>4. QED
    BY <1>2, <1>3 DEF LockInv

(* Every call keeps the invariant, for any number of transactions and keys. *)
LEMMA LockInvNext == LockInv /\ [Next]_vars => LockInv'
  <1> SUFFICES ASSUME LockInv, [Next]_vars PROVE LockInv'
    OBVIOUS
  <1>1. /\ entries \in [Key -> Entry] /\ pending \in [Txn -> SUBSET Key]
        /\ \A k \in Key : EntryInv(entries[k])
    BY DEF LockInv, TypeOK
  <1>2. \A t \in Txn : NewlyShared(entries, entries', t) \subseteq Key
    BY DEF NewlyShared
  \* a step that keeps the invariant of each entry keeps LockInv
  <1>3. ASSUME entries' = [k \in Key |-> entries'[k]],
               \A k \in Key : EntryInv(entries'[k]),
               pending' \in [Txn -> SUBSET Key]
        PROVE  LockInv'
    BY <1>3 DEF LockInv, TypeOK, EntryInv, ReleasedInv
  <1>4. ASSUME NEW t \in Txn, NEW k \in Key, NEW mode \in Mode, Acquire(t, k, mode)
        PROVE  LockInv'
    <2>1. entries' = [entries EXCEPT ![k] = AcquireEntry(entries[k], t, mode)]
      BY <1>4 DEF Acquire
    <2>2. \A j \in Key : EntryInv(entries'[j])
      BY <1>1, <2>1, AcquireEntryInv
    <2>3. pending' \in [Txn -> SUBSET Key]
      BY <1>1, <1>2, <1>4 DEF Acquire
    <2>4. entries' = [j \in Key |-> entries'[j]]
      BY <1>1, <2>1
    <2>5. QED
      BY <1>3, <2>2, <2>3, <2>4
  <1>5. ASSUME NEW t \in Txn, ReleaseAll(t)
        PROVE  LockInv'
    <2>1. entries' = [k \in Key |-> IF Touches(entries[k], t)
                                    THEN ReleaseEntry(entries[k], t)
                                    ELSE entries[k]]
      BY <1>5 DEF ReleaseAll
    <2>2. \A k \in Key : EntryInv(entries'[k])
      BY <1>1, <2>1, ReleaseEntryInv
    <2>3. pending' \in [Txn -> SUBSET Key]
      BY <1>1, <1>2, <1>5 DEF ReleaseAll
    <2>4. entries' = [k \in Key |-> entries'[k]]
      BY <2>1
    <2>5. QED
      BY <1>3, <2>2, <2>3, <2>4
  <1>6. ASSUME NEW t \in Txn, EndOfReads(t)
        PROVE  LockInv'
    <2>1. entries' = [k \in Key |-> IF k \in pending[t]
                                    THEN ReleaseHeldEntry(entries[k], t)
                                    ELSE entries[k]]
      BY <1>6 DEF EndOfReads, ReleasePendingReads
    <2>2. \A k \in pending[t] : ~ Waits(entries[k].waiters, t)
      BY <1>6 DEF EndOfReads, OnlyReads
    <2>3. \A k \in Key : EntryInv(entries'[k])
      BY <1>1, <2>1, <2>2, ReleaseHeldEntryInv
    <2>4. pending' \in [Txn -> SUBSET Key]
      BY <1>1, <1>2, <1>6 DEF EndOfReads, ReleasePendingReads
    <2>5. entries' = [k \in Key |-> entries'[k]]
      BY <2>1
    <2>6. QED
      BY <1>3, <2>3, <2>4, <2>5
  <1>7. CASE UNCHANGED vars
    BY <1>1, <1>7 DEF vars, LockInv, TypeOK
  <1>8. QED
    BY <1>4, <1>5, <1>6, <1>7 DEF Next

(* LockInv holds in every reachable state. *)
THEOREM LockInvInductive == Spec => []LockInv
  BY LockInvInit, LockInvNext, PTL DEF Spec

(* Type correctness: TypeOK holds in every reachable state.                 *)
THEOREM TypeCorrect == Spec => []TypeOK
  <1>1. LockInv => TypeOK
    BY DEF LockInv
  <1>2. QED
    BY <1>1, LockInvInductive, PTL

(* Granted locks never conflict: LockCompatibility, the compatibility       *)
(* matrix of LockMode, holds in every reachable state.                      *)
THEOREM LocksCompatible == Spec => []LockCompatibility
  <1>1. LockInv => LockCompatibility
    BY DEF LockInv, EntryInv, ReleasedInv, LockCompatibility
  <1>2. QED
    BY <1>1, LockInvInductive, PTL

(* Queues are well formed: QueueDiscipline holds in every reachable state.  *)
THEOREM QueuesDisciplined == Spec => []QueueDiscipline
  <1>1. LockInv => QueueDiscipline
    BY DEF LockInv, EntryInv, ReleasedInv, QueueDiscipline
  <1>2. QED
    BY <1>1, LockInvInductive, PTL

(* No wakeup is lost: NoLostWakeup holds in every reachable state, so a     *)
(* queued request always has somebody else's conflicting lock to wait for.  *)
THEOREM WakeupsNotLost == Spec => []NoLostWakeup
  <1>1. LockInv => NoLostWakeup
    BY DEF LockInv, EntryInv, NoLostWakeup
  <1>2. QED
    BY <1>1, LockInvInductive, PTL

(* Whoever waits can be seen to wait: WaitersHaveEdges holds in every       *)
(* reachable state.  The head of a queue has an edge to a holder, everybody *)
(* else to the request ahead.                                               *)
THEOREM WaitersSeen == Spec => []WaitersHaveEdges
  <1>1. LockInv => WaitersHaveEdges
    <2> SUFFICES ASSUME LockInv, NEW k \in Key, NEW i \in 1..Len(entries[k].waiters)
                 PROVE  \E u \in Txn \ {entries[k].waiters[i].txn} :
                            <<entries[k].waiters[i].txn, u>> \in WaitForEdges(entries)
      BY DEF WaitersHaveEdges
    <2> DEFINE e == entries[k]
               q == e.waiters
    <2>1. EntryInv(e) /\ e \in Entry /\ Len(q) \in Nat
      BY DEF LockInv, EntryInv, ReleasedInv, Entry
    <2>2. \A j \in 1..Len(q) : q[j].txn \in Txn
      BY <2>1, QueuedRequest DEF Entry
    <2>3. ConflictEdges(e) \cup QueueEdges(e) \subseteq WaitForEdges(entries)
      BY DEF WaitForEdges
    <2>4. CASE i = 1
      <3>1. q # <<>>
        BY <2>1, <2>4
      <3>2. PICK t \in HoldersOf(e.holders) :
                t # q[1].txn /\ ~ Compatible(e.holders[t], q[1].mode)
        BY <2>1, <3>1 DEF EntryInv, HeadIsBlocked
      <3>3. t \in Txn /\ e.holders[t] # NoLock
        BY <3>2 DEF HoldersOf
      <3>4. <<q[1].txn, t>> \in ConflictEdges(e)
        BY <2>1, <2>2, <2>4, <3>2, <3>3 DEF ConflictEdges
      <3>5. QED
        BY <2>3, <2>4, <3>2, <3>3, <3>4
    <2>5. CASE i # 1
      <3>1. i - 1 \in 1..(Len(q) - 1) /\ (i - 1) + 1 = i /\ i - 1 \in 1..Len(q)
        BY <2>1, <2>5
      <3>2. q[i - 1].txn # q[i].txn
        BY <2>1, <3>1 DEF EntryInv, ReleasedInv, QueueWellFormed
      <3>3. <<q[i].txn, q[i - 1].txn>> \in QueueEdges(e)
        BY <3>1 DEF QueueEdges
      <3>4. QED
        BY <2>2, <2>3, <3>1, <3>2, <3>3
    <2>6. QED
      BY <2>4, <2>5
  <1>2. QED
    BY <1>1, LockInvInductive, PTL

------------------------------------------------------------------------------
(* The record of fresh Shared grants.                                       *)

(* What a call on an entry may do to a transaction other than its caller:   *)
(* grant what it waits for, which is Shared only for one that held nothing. *)
HolderKept(e, f, u) ==
    \/ f.holders[u] = e.holders[u]
    \/ f.holders[u] # NoLock /\ (f.holders[u] = Shared => e.holders[u] = NoLock)

(* Promotion takes nobody's lock, and gives none to those that do not wait. *)
LEMMA PromotionKeepsHolders ==
  ASSUME NEW e, ReleasedInv(e), NEW u \in Txn
  PROVE  /\ HolderKept(e, PromoteWaiters(e), u)
         /\ ~ Waits(e.waiters, u) => PromoteWaiters(e).holders[u] = e.holders[u]
  <1> DEFINE q == e.waiters
             n == PromotedCount(e)
             h == HoldersAfter(e, n)
  <1>1. /\ e \in Entry /\ QueueWellFormed(e) /\ Len(q) \in Nat
        /\ \A i \in 1..Len(q) : q[i] \in Waiter
    BY DEF ReleasedInv, Entry
  <1>2. n \in 0..Len(q)
    BY <1>1, PromotedCountExists
  <1>3. PromoteWaiters(e).holders = h
    BY DEF PromoteWaiters
  <1>4. \A i \in 1..n : i \in 1..Len(q) /\ h[q[i].txn] = q[i].mode
    BY <1>1, <1>2, HoldersAfterPops
  <1>5. (\A i \in 1..n : q[i].txn # u) => h[u] = e.holders[u]
    BY <1>1, <1>2, HoldersAfterPops
  <1> HIDE DEF n, h
  <1>6. ASSUME NEW i \in 1..n, q[i].txn = u
        PROVE  h[u] # NoLock /\ (h[u] = Shared => e.holders[u] = NoLock)
    <2>1. i \in 1..Len(q) /\ h[u] = q[i].mode /\ q[i].mode \in Mode
      BY <1>1, <1>4, <1>6 DEF Waiter
    <2>2. /\ q[i].isUpgrade => q[i].mode = Exclusive
          /\ ~ q[i].isUpgrade => e.holders[u] = NoLock
          /\ q[i].isUpgrade \in BOOLEAN
      BY <1>1, <1>6, <2>1 DEF QueueWellFormed, Waiter
    <2>3. QED
      BY <2>1, <2>2, ModesDistinct DEF Mode
  <1>7. ~ Waits(q, u) => \A i \in 1..n : q[i].txn # u
    BY <1>4 DEF Waits
  <1>8. QED
    BY <1>3, <1>5, <1>6, <1>7 DEF HolderKept

(* acquire changes what its caller holds, and nothing else.                 *)
LEMMA AcquireKeepsHolders ==
  ASSUME NEW e, EntryInv(e), NEW t \in Txn, NEW mode \in Mode, NEW u \in Txn
  PROVE  /\ HolderKept(e, AcquireEntry(e, t, mode), u)
         /\ u # t => AcquireEntry(e, t, mode).holders[u] = e.holders[u]
  <1>1. e.holders \in [Txn -> Mode \cup {NoLock}] /\ e \in Entry
    BY DEF EntryInv, ReleasedInv, Entry
  <1>2. CASE GrantedAtOnce(e, t, mode)
    <2>1. AcquireEntry(e, t, mode).holders
            = [e.holders EXCEPT ![t] = IF @ = Exclusive THEN @ ELSE mode]
      BY <1>1, <1>2 DEF AcquireEntry, Entry
    <2>2. QED
      BY <1>1, <2>1, ModesDistinct DEF HolderKept, Mode
  <1>3. CASE ~ GrantedAtOnce(e, t, mode)
    <2>1. AcquireEntry(e, t, mode).holders = e.holders
      BY <1>1, <1>3 DEF AcquireEntry, Entry
    <2>2. QED
      BY <2>1 DEF HolderKept
  <1>4. QED
    BY <1>2, <1>3

(* A release takes what its caller holds, and nothing else.                 *)
LEMMA ReleaseKeepsHolders ==
  ASSUME NEW e, ReleasedInv(e), NEW t \in Txn, ~ Waits(e.waiters, t), NEW u \in Txn
  PROVE  LET f == PromoteWaiters([holders |-> DropHolder(e.holders, t), waiters |-> e.waiters])
         IN  /\ f.holders[t] = NoLock
             /\ u # t => HolderKept(e, f, u)
  <1> DEFINE d == [holders |-> DropHolder(e.holders, t), waiters |-> e.waiters]
  <1>1. ReleasedInv(d)
    BY DropHolderInv
  <1>2. e.holders \in [Txn -> Mode \cup {NoLock}]
    BY DEF ReleasedInv, Entry
  <1>3. /\ d.waiters = e.waiters
        /\ d.holders[t] = NoLock
        /\ u # t => d.holders[u] = e.holders[u]
    BY <1>2 DEF DropHolder
  <1> HIDE DEF d
  <1>4. PromoteWaiters(d).holders[t] = NoLock
    BY <1>1, <1>3, PromotionKeepsHolders
  <1>5. HolderKept(d, PromoteWaiters(d), u)
    BY <1>1, PromotionKeepsHolders
  <1>6. QED
    BY <1>3, <1>4, <1>5 DEF HolderKept, d

(* A step after which a transaction either keeps its record and gets the    *)
(* keys that became Shared, or has an empty record and no Shared lock.      *)
LEMMA PendingKept ==
  ASSUME NEW u \in Txn, NEW k \in Key, TypeOK,
         k \in pending[u] => entries[k].holders[u] # NoLock,
         entries[k].holders[u] = Shared => k \in pending[u],
         HolderKept(entries[k], entries'[k], u),
         pending'[u] = pending[u] \cup NewlyShared(entries, entries', u)
  PROVE  /\ k \in pending'[u] => entries'[k].holders[u] # NoLock
         /\ entries'[k].holders[u] = Shared => k \in pending'[u]
  BY ModesDistinct DEF HolderKept, NewlyShared

(* Nothing is granted at the start. *)
LEMMA PendingExactInit == Init => PendingExact
  BY ModesDistinct DEF Init, PendingExact, EmptyEntry

(* Every call keeps the record of Shared grants exact. *)
LEMMA PendingExactNext == LockInv /\ PendingExact /\ [Next]_vars => PendingExact'
  <1> SUFFICES ASSUME LockInv, PendingExact, [Next]_vars PROVE PendingExact'
    OBVIOUS
  <1>1. /\ TypeOK /\ entries \in [Key -> Entry] /\ pending \in [Txn -> SUBSET Key]
        /\ \A k \in Key : EntryInv(entries[k])
    BY DEF LockInv, TypeOK
  <1>2. \A u \in Txn, k \in Key :
           /\ k \in pending[u] => entries[k].holders[u] # NoLock
           /\ entries[k].holders[u] = Shared => k \in pending[u]
    BY DEF PendingExact
  <1>3. ASSUME NEW t \in Txn, NEW j \in Key, NEW mode \in Mode, Acquire(t, j, mode)
        PROVE  PendingExact'
    <2>1. entries' = [entries EXCEPT ![j] = AcquireEntry(entries[j], t, mode)]
      BY <1>3 DEF Acquire
    <2>2. pending' = [pending EXCEPT ![t] = pending[t] \cup NewlyShared(entries, entries', t)]
      BY <1>3 DEF Acquire
    <2>3. SUFFICES ASSUME NEW u \in Txn, NEW k \in Key
                   PROVE  /\ k \in pending'[u] => entries'[k].holders[u] # NoLock
                          /\ entries'[k].holders[u] = Shared => k \in pending'[u]
      BY DEF PendingExact
    <2>4. HolderKept(entries[k], entries'[k], u) /\ (u # t => entries'[k].holders[u] = entries[k].holders[u])
      BY <1>1, <2>1, AcquireKeepsHolders DEF HolderKept
    <2>5. CASE u = t
      BY <1>1, <1>2, <2>2, <2>4, <2>5, PendingKept
    <2>6. CASE u # t
      BY <1>1, <1>2, <2>2, <2>4, <2>6
    <2>7. QED
      BY <2>5, <2>6
  <1>4. ASSUME NEW t \in Txn, ReleaseAll(t)
        PROVE  PendingExact'
    <2>1. /\ entries' = [k \in Key |-> IF Touches(entries[k], t)
                                       THEN ReleaseEntry(entries[k], t) ELSE entries[k]]
          /\ pending' = [u \in Txn |-> IF u = t THEN {}
                             ELSE pending[u] \cup NewlyShared(entries, entries', u)]
      BY <1>4 DEF ReleaseAll
    <2>2. SUFFICES ASSUME NEW u \in Txn, NEW k \in Key
                   PROVE  /\ k \in pending'[u] => entries'[k].holders[u] # NoLock
                          /\ entries'[k].holders[u] = Shared => k \in pending'[u]
      BY DEF PendingExact
    <2> DEFINE e == entries[k]
               d == [holders |-> e.holders, waiters |-> DropWaiter(e.waiters, t)]
    <2>3. ReleasedInv(d) /\ ~ Waits(d.waiters, t) /\ d.holders = e.holders
      BY <1>1, DropWaiterInv DEF EntryInv
    <2>4. ReleaseEntry(e, t)
            = PromoteWaiters([holders |-> DropHolder(d.holders, t), waiters |-> d.waiters])
      BY DEF ReleaseEntry
    <2> HIDE DEF d
    <2>5. /\ ReleaseEntry(e, t).holders[t] = NoLock
          /\ u # t => HolderKept(d, ReleaseEntry(e, t), u)
      BY <2>3, <2>4, ReleaseKeepsHolders
    <2>6. entries'[k].holders[t] = NoLock
      BY <2>1, <2>5 DEF Touches
    <2>7. u # t => HolderKept(e, entries'[k], u)
      BY <2>1, <2>3, <2>5 DEF HolderKept
    <2>8. CASE u = t
      BY <2>1, <2>6, <2>8, ModesDistinct
    <2>9. CASE u # t
      BY <1>1, <1>2, <2>1, <2>7, <2>9, PendingKept
    <2>10. QED
      BY <2>8, <2>9
  <1>5. ASSUME NEW t \in Txn, EndOfReads(t)
        PROVE  PendingExact'
    <2>1. /\ entries' = [k \in Key |-> IF k \in pending[t]
                                       THEN ReleaseHeldEntry(entries[k], t) ELSE entries[k]]
          /\ pending' = [u \in Txn |-> IF u = t THEN {}
                             ELSE pending[u] \cup NewlyShared(entries, entries', u)]
      BY <1>5 DEF EndOfReads, ReleasePendingReads
    <2>2. \A k \in pending[t] : ~ Waits(entries[k].waiters, t)
      BY <1>5 DEF EndOfReads, OnlyReads
    <2>3. SUFFICES ASSUME NEW u \in Txn, NEW k \in Key
                   PROVE  /\ k \in pending'[u] => entries'[k].holders[u] # NoLock
                          /\ entries'[k].holders[u] = Shared => k \in pending'[u]
      BY DEF PendingExact
    <2> DEFINE e == entries[k]
    <2>4. ReleasedInv(e)
      BY <1>1 DEF EntryInv
    <2>5. k \in pending[t] => /\ ReleaseHeldEntry(e, t).holders[t] = NoLock
                              /\ u # t => HolderKept(e, ReleaseHeldEntry(e, t), u)
      BY <2>2, <2>4, ReleaseKeepsHolders DEF ReleaseHeldEntry
    <2>6. entries'[k].holders[t] # Shared
      BY <1>2, <2>1, <2>5, ModesDistinct
    <2>7. u # t => HolderKept(e, entries'[k], u)
      BY <2>1, <2>5 DEF HolderKept
    <2>8. CASE u = t
      BY <2>1, <2>6, <2>8
    <2>9. CASE u # t
      BY <1>1, <1>2, <2>1, <2>7, <2>9, PendingKept
    <2>10. QED
      BY <2>8, <2>9
  <1>6. CASE UNCHANGED vars
    BY <1>6 DEF vars, PendingExact
  <1>7. QED
    BY <1>3, <1>4, <1>5, <1>6 DEF Next

(* PendingExact holds in every reachable state: what a READ COMMITTED       *)
(* statement releases at its end is exactly what it holds Shared.           *)
THEOREM GrantsRemembered == Spec => []PendingExact
  BY PendingExactInit, PendingExactNext, LockInvInductive, PTL DEF Spec

------------------------------------------------------------------------------
(* FIFO.                                                                    *)

(* What NoOvertaking says of one key.                                       *)
InOrder(e, f) ==
    \A j \in 1..Len(e.waiters) : GrantedIn(e, f, e.waiters[j].txn) =>
        \A i \in 1..(j - 1) : ~ Waits(f.waiters, e.waiters[i].txn)

NotPastQueue(e, f) ==
    \A u \in Txn : (/\ e.holders[u] = NoLock
                    /\ f.holders[u] # NoLock
                    /\ ~ Waits(e.waiters, u)) => e.waiters = <<>>

(* Promotion leaves nobody behind whom it has passed.                       *)
LEMMA PromotionInOrder ==
  ASSUME NEW e, ReleasedInv(e), NEW j \in 1..Len(e.waiters), NEW i \in 1..(j - 1),
         ~ Waits(PromoteWaiters(e).waiters, e.waiters[j].txn)
  PROVE  ~ Waits(PromoteWaiters(e).waiters, e.waiters[i].txn)
  <1> DEFINE q == e.waiters
             n == PromotedCount(e)
             r == PromoteWaiters(e).waiters
  <1>1. e \in Entry /\ q \in Seq(Waiter) /\ Len(q) \in Nat /\ i \in 1..Len(q)
    BY DEF ReleasedInv, Entry
  <1>2. \A k, l \in 1..Len(q) : q[k].txn = q[l].txn => k = l
    BY DEF ReleasedInv, QueueWellFormed
  <1>3. n \in 0..Len(q)
    BY <1>1, PromotedCountExists
  <1>4. r = After(q, n)
    BY DEF PromoteWaiters, After
  <1> HIDE DEF n, r
  <1>5. /\ Len(r) = Len(q) - n
        /\ \A k \in 1..Len(r) : r[k] = q[n + k] /\ n + k \in (n + 1)..Len(q)
    BY <1>1, <1>3, <1>4, PoppedQueue
  <1>6. j <= n
    <2>1. SUFFICES ASSUME n < j PROVE FALSE
      BY <1>1, <1>3
    <2>2. j - n \in 1..Len(r) /\ n + (j - n) = j
      BY <1>1, <1>3, <1>5, <2>1
    <2>3. r[j - n] = q[j]
      BY <1>5, <2>2
    <2>4. QED
      BY <2>2, <2>3 DEF Waits, r
  <1>7. ASSUME NEW k \in 1..Len(r)
        PROVE  r[k].txn # q[i].txn
    <2>1. r[k] = q[n + k] /\ n + k \in 1..Len(q) /\ n + k # i
      BY <1>1, <1>3, <1>5, <1>6
    <2>2. QED
      BY <1>1, <1>2, <2>1
  <1>8. QED
    BY <1>7 DEF Waits, r

(* A request that leaves a queue does not change the order of the others.   *)
LEMMA DropWaiterOrder ==
  ASSUME NEW q \in Seq(Waiter), NEW t \in Txn,
         NEW j \in 1..Len(q), q[j].txn # t, NEW i \in 1..(j - 1), q[i].txn # t
  PROVE  \E b \in 1..Len(DropWaiter(q, t)) : \E a \in 1..(b - 1) :
             DropWaiter(q, t)[a] = q[i] /\ DropWaiter(q, t)[b] = q[j]
  <1> DEFINE r == DropWaiter(q, t)
  <1>1. Len(q) \in Nat /\ i \in 1..Len(q)
    OBVIOUS
  <1>2. CASE ~ Waits(q, t)
    BY <1>1, <1>2 DEF DropWaiter
  <1>3. CASE Waits(q, t)
    <2> DEFINE x == CHOOSE x \in 1..Len(q) : q[x].txn = t
    <2>1. x \in 1..Len(q) /\ q[x].txn = t
      BY <1>3 DEF Waits
    <2>2. r = Without(q, x)
      BY <1>3 DEF DropWaiter, Without
    <2> HIDE DEF x, r
    <2> DEFINE old(m) == OldPlace(x, m)
               new(m) == IF m < x THEN m ELSE m - 1
    <2>3. Len(r) = Len(q) - 1 /\ \A m \in 1..Len(r) : r[m] = q[old(m)]
      BY <2>1, <2>2, RemovedRequest
    <2>4. i # x /\ j # x
      BY <2>1
    <2>5. /\ new(j) \in 1..Len(r) /\ old(new(j)) = j
          /\ new(i) \in 1..Len(r) /\ old(new(i)) = i
          /\ new(i) \in 1..(new(j) - 1)
      BY <1>1, <2>1, <2>3, <2>4 DEF OldPlace
    <2> HIDE DEF old, new
    <2>6. r[new(j)] = q[j] /\ r[new(i)] = q[i]
      BY <2>3, <2>5
    <2>7. QED
      BY <2>5, <2>6 DEF r
  <1>4. QED
    BY <1>2, <1>3

(* acquire grants past an empty queue only, and takes nobody out of it.     *)
LEMMA AcquireInOrder ==
  ASSUME NEW e, EntryInv(e), NEW t \in Txn, NEW mode \in Mode
  PROVE  InOrder(e, AcquireEntry(e, t, mode)) /\ NotPastQueue(e, AcquireEntry(e, t, mode))
  <1> DEFINE q == e.waiters
             f == AcquireEntry(e, t, mode)
  <1>1. e \in Entry /\ e.holders \in [Txn -> Mode \cup {NoLock}] /\ q \in Seq(Waiter)
    BY DEF EntryInv, ReleasedInv, Entry
  <1>2. CASE GrantedAtOnce(e, t, mode)
    <2>1. /\ f.waiters = q
          /\ f.holders = [e.holders EXCEPT ![t] = IF @ = Exclusive THEN @ ELSE mode]
      BY <1>1, <1>2 DEF AcquireEntry, Entry
    <2>2. InOrder(e, f)
      BY <2>1 DEF InOrder, GrantedIn
    <2>3. e.holders[t] = NoLock => q = <<>>
      BY <1>2, ModesDistinct DEF GrantedAtOnce, HoldsEnough, IsUpgrade
    <2>4. NotPastQueue(e, f)
      BY <1>1, <2>1, <2>3 DEF NotPastQueue
    <2>5. QED
      BY <2>2, <2>4
  <1>3. CASE ~ GrantedAtOnce(e, t, mode)
    <2> DEFINE w == [txn |-> t, mode |-> mode, isUpgrade |-> TRUE]
               v == [txn |-> t, mode |-> mode, isUpgrade |-> FALSE]
    <2>1. f.holders = e.holders /\ f.waiters = Enqueue(e, t, mode)
      BY <1>1, <1>3 DEF AcquireEntry, Entry
    <2>2. f.waiters \in {q, <<w>> \o q, Append(q, v)}
      <3>1. CASE Waits(q, t)
        BY <2>1, <3>1 DEF Enqueue
      <3>2. CASE ~ Waits(q, t) /\ IsUpgrade(e, t, mode)
        BY <2>1, <3>2 DEF Enqueue
      <3>3. CASE ~ Waits(q, t) /\ ~ IsUpgrade(e, t, mode)
        BY <2>1, <3>3 DEF Enqueue
      <3>4. QED
        BY <3>1, <3>2, <3>3
    <2>3. w \in Waiter /\ v \in Waiter
      BY DEF Waiter
    <2> HIDE DEF f, w, v
    <2>4. ASSUME NEW j \in 1..Len(q)
          PROVE  Waits(f.waiters, q[j].txn)
      <3>1. CASE f.waiters = q
        BY <3>1 DEF Waits
      <3>2. CASE f.waiters = <<w>> \o q
        <4>1. <<w>> \in Seq(Waiter) /\ Len(<<w>>) = 1
          BY <2>3
        <4>2. /\ Len(<<w>> \o q) = Len(q) + 1
              /\ \A m \in 1..(1 + Len(q)) : (<<w>> \o q)[m] = IF m <= 1 THEN <<w>>[m] ELSE q[m - 1]
          BY <1>1, <4>1, ConcatProperties
        <4>3. j + 1 \in 1..Len(f.waiters) /\ f.waiters[j + 1] = q[j]
          BY <1>1, <3>2, <4>2
        <4>4. QED
          BY <4>3 DEF Waits
      <3>3. CASE f.waiters = Append(q, v)
        <4>1. j \in 1..Len(f.waiters) /\ f.waiters[j] = q[j]
          BY <1>1, <2>3, <3>3, AppendProperties
        <4>2. QED
          BY <4>1 DEF Waits
      <3>4. QED
        BY <2>2, <3>1, <3>2, <3>3
    <2>5. InOrder(e, f)
      BY <2>4 DEF InOrder, GrantedIn
    <2>6. NotPastQueue(e, f)
      BY <2>1 DEF NotPastQueue
    <2>7. QED
      BY <2>5, <2>6 DEF f
  <1>4. QED
    BY <1>2, <1>3

(* A release of a holder that does not wait promotes in order.              *)
LEMMA ReleaseInOrder ==
  ASSUME NEW e, ReleasedInv(e), NEW t \in Txn, ~ Waits(e.waiters, t)
  PROVE  LET f == PromoteWaiters([holders |-> DropHolder(e.holders, t), waiters |-> e.waiters])
         IN  /\ \A j \in 1..Len(e.waiters) : ~ Waits(f.waiters, e.waiters[j].txn) =>
                    \A i \in 1..(j - 1) : ~ Waits(f.waiters, e.waiters[i].txn)
             /\ \A u \in Txn : ~ Waits(e.waiters, u) =>
                    f.holders[u] = e.holders[u] \/ f.holders[u] = NoLock
             /\ ~ Waits(f.waiters, t)
  <1> DEFINE d == [holders |-> DropHolder(e.holders, t), waiters |-> e.waiters]
             f == PromoteWaiters(d)
  <1>1. ReleasedInv(d)
    BY DropHolderInv
  <1>2. e.holders \in [Txn -> Mode \cup {NoLock}] /\ e.waiters \in Seq(Waiter)
    BY DEF ReleasedInv, Entry
  <1>3. /\ d.waiters = e.waiters
        /\ \A u \in Txn : d.holders[u] = e.holders[u] \/ d.holders[u] = NoLock
    BY <1>2 DEF DropHolder
  <1> HIDE DEF d
  <1>4. \A j \in 1..Len(e.waiters) : ~ Waits(f.waiters, e.waiters[j].txn) =>
            \A i \in 1..(j - 1) : ~ Waits(f.waiters, e.waiters[i].txn)
    BY <1>1, <1>3, PromotionInOrder
  <1>5. \A u \in Txn : ~ Waits(e.waiters, u) =>
            f.holders[u] = e.holders[u] \/ f.holders[u] = NoLock
    BY <1>1, <1>3, PromotionKeepsHolders
  <1>6. ~ Waits(f.waiters, t)
    <2> DEFINE n == PromotedCount(d)
    <2>1. d \in Entry /\ QueueWellFormed(d)
      BY <1>1 DEF ReleasedInv
    <2>2. n \in 0..Len(d.waiters)
      BY <2>1, PromotedCountExists
    <2>3. f.waiters = After(d.waiters, n)
      BY DEF PromoteWaiters, After
    <2> HIDE DEF n, f
    <2> DEFINE q == e.waiters
    <2>7. d.waiters = q /\ q \in Seq(Waiter)
      BY <1>2, <1>3
    <2> HIDE DEF q, d
    <2>8. n \in 0..Len(q) /\ f.waiters = After(q, n)
      BY <2>2, <2>3, <2>7
    <2>9. \A k \in 1..Len(After(q, n)) : /\ After(q, n)[k] = q[n + k]
                                         /\ n + k \in (n + 1)..Len(q)
      BY <2>7, <2>8, PoppedQueue
    <2>4. \A k \in 1..Len(f.waiters) : /\ f.waiters[k] = e.waiters[n + k]
                                       /\ n + k \in (n + 1)..Len(e.waiters)
      BY <2>8, <2>9 DEF q
    <2>5. \A k \in 1..Len(f.waiters) : n + k \in 1..Len(e.waiters)
      BY <1>2, <1>3, <2>2, <2>4
    <2>6. QED
      BY <2>4, <2>5 DEF Waits
  <1>7. QED
    BY <1>4, <1>5, <1>6 DEF d

(* release_all on one key.                                                  *)
LEMMA ReleaseEntryInOrder ==
  ASSUME NEW e, EntryInv(e), NEW t \in Txn
  PROVE  InOrder(e, ReleaseEntry(e, t)) /\ NotPastQueue(e, ReleaseEntry(e, t))
  <1> DEFINE q == e.waiters
             d == [holders |-> e.holders, waiters |-> DropWaiter(q, t)]
             r == d.waiters
             f == ReleaseEntry(e, t)
  <1>1. /\ ReleasedInv(e) /\ e \in Entry /\ q \in Seq(Waiter) /\ Len(q) \in Nat
        /\ \A k, l \in 1..Len(q) : q[k].txn = q[l].txn => k = l
    BY DEF EntryInv, ReleasedInv, Entry, QueueWellFormed
  <1>2. ReleasedInv(d) /\ ~ Waits(r, t) /\ d.holders = e.holders /\ r = DropWaiter(q, t)
    BY <1>1, DropWaiterInv
  <1>3. f = PromoteWaiters([holders |-> DropHolder(d.holders, t), waiters |-> d.waiters])
    BY DEF ReleaseEntry
  <1> HIDE DEF d, f
  <1>4. /\ \A b \in 1..Len(r) : ~ Waits(f.waiters, r[b].txn) =>
              \A a \in 1..(b - 1) : ~ Waits(f.waiters, r[a].txn)
        /\ \A u \in Txn : ~ Waits(r, u) => f.holders[u] = e.holders[u] \/ f.holders[u] = NoLock
        /\ ~ Waits(f.waiters, t)
    BY <1>2, <1>3, ReleaseInOrder
  <1>5. f.holders[t] = NoLock
    BY <1>2, <1>3, ReleaseKeepsHolders
  <1>6. ASSUME NEW j \in 1..Len(q), GrantedIn(e, f, q[j].txn), NEW i \in 1..(j - 1)
        PROVE  ~ Waits(f.waiters, q[i].txn)
    <2>1. q[j].txn # t /\ ~ Waits(f.waiters, q[j].txn)
      BY <1>5, <1>6 DEF GrantedIn
    <2>2. CASE q[i].txn = t
      BY <1>4, <2>2
    <2>3. CASE q[i].txn # t
      <3> HIDE DEF q
      <3>3. \E b \in 1..Len(DropWaiter(q, t)) : \E a \in 1..(b - 1) :
                DropWaiter(q, t)[a] = q[i] /\ DropWaiter(q, t)[b] = q[j]
        BY <1>1, <2>1, <2>3, DropWaiterOrder
      <3>4. r = DropWaiter(q, t)
        BY <1>2
      <3> HIDE DEF r
      <3>1. PICK b \in 1..Len(r) : \E a \in 1..(b - 1) : r[a] = q[i] /\ r[b] = q[j]
        BY <3>3, <3>4
      <3>2. QED
        BY <1>4, <2>1, <3>1
    <2>4. QED
      BY <2>2, <2>3
  <1>7. ASSUME NEW u \in Txn, ~ Waits(q, u)
        PROVE  ~ Waits(r, u)
    <2>1. CASE ~ Waits(q, t)
      BY <1>2, <1>7, <2>1 DEF DropWaiter
    <2>2. CASE Waits(q, t)
      <3> DEFINE x == CHOOSE x \in 1..Len(q) : q[x].txn = t
      <3>1. x \in 1..Len(q) /\ r = Without(q, x)
        BY <1>2, <2>2 DEF DropWaiter, Waits, Without
      <3> HIDE DEF x
      <3>2. \A m \in 1..Len(r) : r[m] = q[OldPlace(x, m)] /\ OldPlace(x, m) \in 1..Len(q)
        BY <1>1, <3>1, RemovedRequest
      <3>3. QED
        BY <1>7, <3>2 DEF Waits
    <2>3. QED
      BY <2>1, <2>2
  <1>8. InOrder(e, f)
    BY <1>6 DEF InOrder
  <1>9. NotPastQueue(e, f)
    BY <1>4, <1>7 DEF NotPastQueue
  <1>10. QED
    BY <1>8, <1>9 DEF f

(* release_keys on one key, for a holder that does not wait.                *)
LEMMA ReleaseHeldEntryInOrder ==
  ASSUME NEW e, EntryInv(e), NEW t \in Txn, ~ Waits(e.waiters, t)
  PROVE  InOrder(e, ReleaseHeldEntry(e, t)) /\ NotPastQueue(e, ReleaseHeldEntry(e, t))
  <1>1. ReleasedInv(e)
    BY DEF EntryInv
  <1>2. QED
    BY <1>1, ReleaseInOrder DEF ReleaseHeldEntry, InOrder, NotPastQueue, GrantedIn

(* A key that a step leaves alone is in order.                              *)
LEMMA UnchangedInOrder == ASSUME NEW e PROVE InOrder(e, e) /\ NotPastQueue(e, e)
  BY DEF InOrder, NotPastQueue, GrantedIn

(* NoOvertaking holds of every step: requests are granted in the order of   *)
(* the queue, and a newcomer is granted past an empty queue only.           *)
THEOREM FirstComeFirstServed == Spec => NoOvertaking
  <1> DEFINE Fair == \A k \in Key : InOrder(entries[k], entries'[k])
                                    /\ NotPastQueue(entries[k], entries'[k])
  <1>1. LockInv /\ [Next]_vars => [Fair]_vars
    <2> SUFFICES ASSUME LockInv, Next PROVE Fair
      OBVIOUS
    <2>1. entries \in [Key -> Entry] /\ \A k \in Key : EntryInv(entries[k])
      BY DEF LockInv, TypeOK
    <2>2. ASSUME NEW t \in Txn, NEW j \in Key, NEW mode \in Mode, Acquire(t, j, mode)
          PROVE  Fair
      <3>1. entries' = [entries EXCEPT ![j] = AcquireEntry(entries[j], t, mode)]
        BY <2>2 DEF Acquire
      <3>2. QED
        BY <2>1, <3>1, AcquireInOrder, UnchangedInOrder
    <2>3. ASSUME NEW t \in Txn, ReleaseAll(t)
          PROVE  Fair
      <3>1. entries' = [k \in Key |-> IF Touches(entries[k], t)
                                      THEN ReleaseEntry(entries[k], t) ELSE entries[k]]
        BY <2>3 DEF ReleaseAll
      <3>2. QED
        BY <2>1, <3>1, ReleaseEntryInOrder, UnchangedInOrder
    <2>4. ASSUME NEW t \in Txn, EndOfReads(t)
          PROVE  Fair
      <3>1. entries' = [k \in Key |-> IF k \in pending[t]
                                      THEN ReleaseHeldEntry(entries[k], t) ELSE entries[k]]
        BY <2>4 DEF EndOfReads, ReleasePendingReads
      <3>2. \A k \in pending[t] : ~ Waits(entries[k].waiters, t)
        BY <2>4 DEF EndOfReads, OnlyReads
      <3>3. QED
        BY <2>1, <3>1, <3>2, ReleaseHeldEntryInOrder, UnchangedInOrder
    <2>5. QED
      BY <2>2, <2>3, <2>4 DEF Next
  <1>2. [Fair]_vars => [\A k \in Key :
           LET e == entries[k]  f == entries'[k]  q == e.waiters
           IN  /\ \A j \in 1..Len(q) : GrantedIn(e, f, q[j].txn) =>
                      \A i \in 1..(j - 1) : ~ Waits(f.waiters, q[i].txn)
               /\ \A t \in Txn : (/\ e.holders[t] = NoLock
                                  /\ f.holders[t] # NoLock
                                  /\ ~ Waits(q, t)) => q = <<>>]_vars
    BY DEF InOrder, NotPastQueue
  <1>3. QED
    BY <1>1, <1>2, LockInvInductive, PTL DEF Spec, NoOvertaking


------------------------------------------------------------------------------
(* The calls as a transaction sees them.                                    *)

Requests(e) == {e.waiters[i] : i \in 1..Len(e.waiters)}

(* The call of another transaction brings no request of u into the queue,   *)
(* and if it grants u anything, then what u has asked for.                  *)
Undisturbed(e, f, u) ==
    /\ \A w \in Requests(f) : w.txn = u => w \in Requests(e)
    /\ \/ f.holders[u] = e.holders[u]
       \/ \E w \in Requests(e) : w.txn = u /\ f.holders[u] = w.mode

(* Whoever waits holds nothing, or waits for more than the Shared it holds. *)
LEMMA WaitersLackIt ==
  ASSUME NEW e, ReleasedInv(e), NEW w \in Requests(e)
  PROVE  /\ w.txn \in Txn /\ w.mode \in Mode
         /\ e.holders[w.txn] \in {NoLock, Shared}
         /\ e.holders[w.txn] = Shared => w.mode = Exclusive
  <1>1. PICK i \in 1..Len(e.waiters) : w = e.waiters[i]
    BY DEF Requests
  <1>2. e.waiters \in Seq(Waiter) /\ QueueWellFormed(e)
    BY DEF ReleasedInv, Entry
  <1>3. w \in Waiter
    BY <1>1, <1>2, QueuedRequest
  <1>4. /\ w.isUpgrade => w.mode = Exclusive /\ e.holders[w.txn] = Shared
        /\ ~ w.isUpgrade => e.holders[w.txn] = NoLock
    BY <1>1, <1>2 DEF QueueWellFormed
  <1>5. QED
    BY <1>3, <1>4, ModesDistinct DEF Waiter

(* Promotion grants what was asked for. *)
LEMMA PromotionUndisturbed ==
  ASSUME NEW e, ReleasedInv(e), NEW u \in Txn
  PROVE  /\ Undisturbed(e, PromoteWaiters(e), u)
         /\ Requests(PromoteWaiters(e)) \subseteq Requests(e)
  <1> DEFINE q == e.waiters
             n == PromotedCount(e)
             h == HoldersAfter(e, n)
             f == PromoteWaiters(e)
  <1>1. /\ e \in Entry /\ QueueWellFormed(e) /\ Len(q) \in Nat /\ q \in Seq(Waiter)
    BY DEF ReleasedInv, Entry
  <1>2. n \in 0..Len(q)
    BY <1>1, PromotedCountExists
  <1>3. f.holders = h /\ f.waiters = After(q, n)
    BY DEF PromoteWaiters, After
  <1>4. \A i \in 1..n : i \in 1..Len(q) /\ h[q[i].txn] = q[i].mode
    BY <1>1, <1>2, HoldersAfterPops
  <1>5. (\A i \in 1..n : q[i].txn # u) => h[u] = e.holders[u]
    BY <1>1, <1>2, HoldersAfterPops
  <1>6. \A i \in 1..Len(After(q, n)) : /\ After(q, n)[i] = q[n + i]
                                       /\ n + i \in (n + 1)..Len(q)
    BY <1>1, <1>2, PoppedQueue
  <1> HIDE DEF n, h, f
  <1>7. Requests(f) \subseteq Requests(e)
    <2> SUFFICES ASSUME NEW w \in Requests(f) PROVE w \in Requests(e)
      OBVIOUS
    <2>1. PICK i \in 1..Len(After(q, n)) : w = After(q, n)[i]
      BY <1>3 DEF Requests
    <2>2. w = q[n + i] /\ n + i \in (n + 1)..Len(q)
      BY <1>6, <2>1
    <2>3. n + i \in 1..Len(q)
      BY <1>1, <1>2, <2>2
    <2>4. QED
      BY <2>2, <2>3 DEF Requests
  <1>8. h[u] = e.holders[u] \/ \E w \in Requests(e) : w.txn = u /\ h[u] = w.mode
    BY <1>4, <1>5 DEF Requests
  <1>9. QED
    BY <1>3, <1>7, <1>8 DEF Undisturbed, f

(* What is left of a queue without one transaction was there before. *)
LEMMA DropWaiterRequests ==
  ASSUME NEW q \in Seq(Waiter), NEW t \in Txn, NEW j \in 1..Len(DropWaiter(q, t))
  PROVE  \E i \in 1..Len(q) : DropWaiter(q, t)[j] = q[i]
  <1>1. CASE ~ Waits(q, t)
    BY <1>1 DEF DropWaiter
  <1>2. CASE Waits(q, t)
    <2>1. PICK i \in 1..Len(q) : DropWaiter(q, t) = Without(q, i)
      BY <1>2 DEF DropWaiter, Without, Waits
    <2>2. QED
      BY <2>1, RemovedRequest
  <1>3. QED
    BY <1>1, <1>2

(* A release takes its caller out and leaves the others undisturbed. *)
LEMMA ReleaseUndisturbed ==
  ASSUME NEW e, ReleasedInv(e), NEW t \in Txn, ~ Waits(e.waiters, t), NEW u \in Txn
  PROVE  LET f == PromoteWaiters([holders |-> DropHolder(e.holders, t), waiters |-> e.waiters])
         IN  /\ f.holders[t] = NoLock /\ \A w \in Requests(f) : w.txn # t
             /\ u # t => Undisturbed(e, f, u)
  <1> DEFINE d == [holders |-> DropHolder(e.holders, t), waiters |-> e.waiters]
  <1>1. ReleasedInv(d)
    BY DropHolderInv
  <1>2. e.holders \in [Txn -> Mode \cup {NoLock}]
    BY DEF ReleasedInv, Entry
  <1>3. /\ Requests(d) = Requests(e)
        /\ u # t => d.holders[u] = e.holders[u]
    BY <1>2 DEF DropHolder, Requests
  <1> HIDE DEF d
  <1>4. Undisturbed(d, PromoteWaiters(d), u) /\ Requests(PromoteWaiters(d)) \subseteq Requests(d)
    BY <1>1, PromotionUndisturbed
  <1>5. PromoteWaiters(d).holders[t] = NoLock
    BY ReleaseKeepsHolders DEF d
  <1>6. \A w \in Requests(e) : w.txn # t
    BY DEF Requests, Waits
  <1>7. QED
    BY <1>3, <1>4, <1>5, <1>6 DEF Undisturbed, d

(* release_all on one key. *)
LEMMA ReleaseEntryView ==
  ASSUME NEW e, EntryInv(e), NEW t \in Txn, NEW u \in Txn
  PROVE  LET f == ReleaseEntry(e, t)
         IN  /\ f.holders[t] = NoLock /\ \A w \in Requests(f) : w.txn # t
             /\ u # t => Undisturbed(e, f, u)
  <1> DEFINE d == [holders |-> e.holders, waiters |-> DropWaiter(e.waiters, t)]
  <1>1. ReleasedInv(d) /\ ~ Waits(d.waiters, t) /\ d.holders = e.holders
    BY DropWaiterInv DEF EntryInv
  <1>2. ReleaseEntry(e, t)
          = PromoteWaiters([holders |-> DropHolder(d.holders, t), waiters |-> d.waiters])
    BY DEF ReleaseEntry
  <1>3. e.waiters \in Seq(Waiter)
    BY DEF EntryInv, ReleasedInv, Entry
  <1>4. Requests(d) \subseteq Requests(e)
    BY <1>3, DropWaiterRequests DEF Requests
  <1> HIDE DEF d
  <1>5. LET f == ReleaseEntry(e, t)
        IN  /\ f.holders[t] = NoLock /\ \A w \in Requests(f) : w.txn # t
            /\ u # t => Undisturbed(d, f, u)
    BY <1>1, <1>2, ReleaseUndisturbed
  <1>6. QED
    BY <1>1, <1>4, <1>5 DEF Undisturbed

(* release_keys on one key. *)
LEMMA ReleaseHeldEntryView ==
  ASSUME NEW e, EntryInv(e), NEW t \in Txn, ~ Waits(e.waiters, t), NEW u \in Txn
  PROVE  LET f == ReleaseHeldEntry(e, t)
         IN  /\ f.holders[t] = NoLock /\ \A w \in Requests(f) : w.txn # t
             /\ u # t => Undisturbed(e, f, u)
  BY ReleaseUndisturbed DEF ReleaseHeldEntry, EntryInv

(* acquire on one key. *)
LEMMA AcquireEntryView ==
  ASSUME NEW e, EntryInv(e), NEW t \in Txn, NEW mode \in Mode
  PROVE  LET f == AcquireEntry(e, t, mode)
         IN  /\ \A u \in Txn \ {t} : f.holders[u] = e.holders[u]
             /\ \A w \in Requests(f) : w \in Requests(e) \/ (w.txn = t /\ w.mode = mode)
             /\ GrantedAtOnce(e, t, mode) =>
                   /\ Requests(f) = Requests(e)
                   /\ f.holders[t] = IF e.holders[t] = Exclusive THEN Exclusive ELSE mode
             /\ ~ GrantedAtOnce(e, t, mode) => f.holders = e.holders
  <1> DEFINE f == AcquireEntry(e, t, mode)
             q == e.waiters
  <1>1. e.holders \in [Txn -> Mode \cup {NoLock}] /\ e \in Entry /\ q \in Seq(Waiter)
    BY DEF EntryInv, ReleasedInv, Entry
  <1>2. CASE GrantedAtOnce(e, t, mode)
    <2>1. f.holders = [e.holders EXCEPT ![t] = IF @ = Exclusive THEN @ ELSE mode]
          /\ f.waiters = q
      BY <1>1, <1>2 DEF AcquireEntry, Entry
    <2>2. QED
      BY <1>1, <1>2, <2>1 DEF Requests
  <1>3. CASE ~ GrantedAtOnce(e, t, mode)
    <2>1. f.holders = e.holders /\ f.waiters = Enqueue(e, t, mode)
      BY <1>1, <1>3 DEF AcquireEntry, Entry
    <2>2. ASSUME NEW w \in Requests(f)
          PROVE  w \in Requests(e) \/ (w.txn = t /\ w.mode = mode)
      <3>1. CASE Waits(q, t)
        BY <2>1, <2>2, <3>1 DEF Enqueue, Requests
      <3>2. CASE ~ Waits(q, t) /\ IsUpgrade(e, t, mode)
        <4> DEFINE n == [txn |-> t, mode |-> mode, isUpgrade |-> TRUE]
        <4>1. f.waiters = <<n>> \o q /\ n \in Waiter
          BY <2>1, <3>2 DEF Enqueue, Waiter
        <4> HIDE DEF n
        <4>2. \A j \in 1..Len(<<n>> \o q) :
                 (<<n>> \o q)[j] = n \/ \E i \in 1..Len(q) : (<<n>> \o q)[j] = q[i]
          BY <1>1, <4>1
        <4>3. w = n \/ w \in Requests(e)
          BY <2>2, <4>1, <4>2 DEF Requests
        <4>4. QED
          BY <4>3 DEF n
      <3>3. CASE ~ Waits(q, t) /\ ~ IsUpgrade(e, t, mode)
        <4> DEFINE n == [txn |-> t, mode |-> mode, isUpgrade |-> FALSE]
        <4>1. f.waiters = Append(q, n) /\ n \in Waiter
          BY <2>1, <3>3 DEF Enqueue, Waiter
        <4> HIDE DEF n
        <4>2. \A j \in 1..Len(Append(q, n)) :
                 Append(q, n)[j] = n \/ \E i \in 1..Len(q) : Append(q, n)[j] = q[i]
          BY <1>1, <4>1
        <4>3. w = n \/ w \in Requests(e)
          BY <2>2, <4>1, <4>2 DEF Requests
        <4>4. QED
          BY <4>3 DEF n
      <3>4. QED
        BY <3>1, <3>2, <3>3
    <2>3. QED
      BY <1>3, <2>1, <2>2
  <1>4. QED
    BY <1>2, <1>3

(* What the call of another transaction does to u. *)
OthersCall(u) ==
    \A k \in Key :
        /\ Undisturbed(entries[k], entries'[k], u)
        /\ k \in pending'[u] \ pending[u] =>
              entries[k].holders[u] = NoLock /\ entries'[k].holders[u] = Shared

(* acquire: its caller is granted the lock, or waits for it. *)
LEMMA AcquireView ==
  ASSUME LockInv, NEW t \in Txn, NEW k \in Key, NEW mode \in Mode, Acquire(t, k, mode)
  PROVE  /\ \A u \in Txn \ {t} : OthersCall(u)
         /\ \A j \in Key \ {k} : entries'[j] = entries[j]
         /\ \A w \in Requests(entries'[k]) :
               w \in Requests(entries[k]) \/ (w.txn = t /\ w.mode = mode)
         /\ GrantedAtOnce(entries[k], t, mode) =>
               /\ Requests(entries'[k]) = Requests(entries[k])
               /\ entries'[k].holders[t]
                     = IF entries[k].holders[t] = Exclusive THEN Exclusive ELSE mode
         /\ ~ GrantedAtOnce(entries[k], t, mode) => entries'[k].holders = entries[k].holders
         /\ \A j \in pending'[t] \ pending[t] :
               /\ j = k /\ entries[k].holders[t] = NoLock /\ entries'[k].holders[t] = Shared
  <1>1. /\ entries \in [Key -> Entry] /\ pending \in [Txn -> SUBSET Key]
        /\ EntryInv(entries[k])
    BY DEF LockInv, TypeOK
  <1>2. entries' = [entries EXCEPT ![k] = AcquireEntry(entries[k], t, mode)]
        /\ pending' = [pending EXCEPT ![t] = pending[t] \cup NewlyShared(entries, entries', t)]
    BY DEF Acquire
  <1>3. entries'[k] = AcquireEntry(entries[k], t, mode) /\ \A j \in Key \ {k} : entries'[j] = entries[j]
    BY <1>1, <1>2
  <1>4. /\ \A u \in Txn \ {t} : pending'[u] = pending[u]
        /\ pending'[t] = pending[t] \cup NewlyShared(entries, entries', t)
    BY <1>1, <1>2
  <1> DEFINE f == AcquireEntry(entries[k], t, mode)
             e == entries[k]
  <1>5. /\ \A u \in Txn \ {t} : f.holders[u] = e.holders[u]
        /\ \A w \in Requests(f) : w \in Requests(e) \/ (w.txn = t /\ w.mode = mode)
        /\ GrantedAtOnce(e, t, mode) =>
              /\ Requests(f) = Requests(e)
              /\ f.holders[t] = IF e.holders[t] = Exclusive THEN Exclusive ELSE mode
        /\ ~ GrantedAtOnce(e, t, mode) => f.holders = e.holders
    BY <1>1, AcquireEntryView
  <1>6. f = entries'[k]
    BY <1>3
  <1> HIDE DEF f
  <1>7. \A u \in Txn \ {t} : OthersCall(u)
    BY <1>3, <1>4, <1>5, <1>6 DEF OthersCall, Undisturbed
  <1>8. \A j \in pending'[t] \ pending[t] :
           j = k /\ entries[k].holders[t] = NoLock /\ entries'[k].holders[t] = Shared
    BY <1>3, <1>4, ModesDistinct DEF NewlyShared
  <1>9. QED
    BY <1>3, <1>5, <1>6, <1>7, <1>8

(* release_all: its caller has nothing any more. *)
LEMMA ReleaseAllView ==
  ASSUME LockInv, NEW t \in Txn, ReleaseAll(t)
  PROVE  /\ \A u \in Txn \ {t} : OthersCall(u)
         /\ \A k \in Key : /\ entries'[k].holders[t] = NoLock
                           /\ \A w \in Requests(entries'[k]) : w.txn # t
         /\ pending'[t] = {}
  <1>1. /\ entries \in [Key -> Entry] /\ pending \in [Txn -> SUBSET Key]
        /\ \A k \in Key : EntryInv(entries[k])
    BY DEF LockInv, TypeOK
  <1>2. /\ \A k \in Key : entries'[k] = IF Touches(entries[k], t)
                                         THEN ReleaseEntry(entries[k], t) ELSE entries[k]
        /\ \A u \in Txn : pending'[u] = IF u = t THEN {}
                                        ELSE pending[u] \cup NewlyShared(entries, entries', u)
    BY DEF ReleaseAll
  <1>3. ASSUME NEW k \in Key, NEW u \in Txn
        PROVE  /\ entries'[k].holders[t] = NoLock
               /\ \A w \in Requests(entries'[k]) : w.txn # t
               /\ u # t => Undisturbed(entries[k], entries'[k], u)
    <2>1. CASE Touches(entries[k], t)
      BY <1>1, <1>2, <2>1, ReleaseEntryView
    <2>2. CASE ~ Touches(entries[k], t)
      BY <1>2, <2>2 DEF Touches, Waits, Requests, Undisturbed
    <2>3. QED
      BY <2>1, <2>2
  <1>4. \A u \in Txn \ {t} : OthersCall(u)
    BY <1>2, <1>3 DEF OthersCall, NewlyShared
  <1>5. QED
    BY <1>2, <1>3, <1>4

(* The end of a READ COMMITTED read gives up what the read was granted. *)
LEMMA EndOfReadsView ==
  ASSUME LockInv, NEW t \in Txn, EndOfReads(t)
  PROVE  /\ \A u \in Txn \ {t} : OthersCall(u)
         /\ \A k \in Key :
               IF k \in pending[t] THEN /\ entries'[k].holders[t] = NoLock
                                        /\ \A w \in Requests(entries'[k]) : w.txn # t
                                   ELSE entries'[k] = entries[k]
         /\ pending'[t] = {}
  <1>1. /\ entries \in [Key -> Entry] /\ pending \in [Txn -> SUBSET Key]
        /\ \A k \in Key : EntryInv(entries[k])
    BY DEF LockInv, TypeOK
  <1>2. /\ \A k \in Key : entries'[k] = IF k \in pending[t]
                                         THEN ReleaseHeldEntry(entries[k], t) ELSE entries[k]
        /\ \A u \in Txn : pending'[u] = IF u = t THEN {}
                                        ELSE pending[u] \cup NewlyShared(entries, entries', u)
        /\ \A k \in pending[t] : ~ Waits(entries[k].waiters, t)
    BY DEF EndOfReads, ReleasePendingReads, OnlyReads
  <1>3. ASSUME NEW k \in Key, NEW u \in Txn
        PROVE  /\ k \in pending[t] => /\ entries'[k].holders[t] = NoLock
                                      /\ \A w \in Requests(entries'[k]) : w.txn # t
               /\ u # t => Undisturbed(entries[k], entries'[k], u)
    <2>1. CASE k \in pending[t]
      BY <1>1, <1>2, <2>1, ReleaseHeldEntryView
    <2>2. CASE k \notin pending[t]
      BY <1>2, <2>2 DEF Undisturbed
    <2>3. QED
      BY <2>1, <2>2
  <1>4. \A u \in Txn \ {t} : OthersCall(u)
    BY <1>2, <1>3 DEF OthersCall, NewlyShared
  <1>5. QED
    BY <1>2, <1>3, <1>4
=============================================================================
