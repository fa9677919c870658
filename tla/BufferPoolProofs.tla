--------------------------- MODULE BufferPoolProofs ---------------------------
(***************************************************************************)
(* Proofs about BufferPool for any number of threads, pages and frames.    *)
(***************************************************************************)
EXTENDS BufferPool, FiniteSetTheorems, TLAPS

------------------------------------------------------------------------------
(* Minima.                                                                 *)

(* Nil is no page and no frame. *)
LEMMA NilApart == Nil \notin Page /\ Nil \notin Frame /\ Page \subseteq Nat /\ Frame \subseteq Nat
  BY SizesAssumption DEF Nil, Page, Frame

(* Every nonempty set of naturals has a least element. *)
LEMMA LeastNatural ==
  ASSUME NEW S \in SUBSET Nat, S # {}
  PROVE  \E m \in S : \A k \in S : m <= k
  <1>1. \E m \in S : \A k \in S : ~ (<<k, m>> \in OpToRel(<, Nat))
    BY NatLessThanWellFounded, WFMin
  <1>2. OpToRel(<, Nat) = {p \in Nat \X Nat : p[1] < p[2]}
    BY DEF OpToRel
  <1>3. PICK m \in S : \A k \in S : ~ (<<k, m>> \in OpToRel(<, Nat))
    BY <1>1
  <1>4. ASSUME NEW k \in S
        PROVE  m <= k
    <2>1. <<k, m>> \in Nat \X Nat => ~ (k < m)
      BY <1>2, <1>3
    <2>2. QED
      BY <2>1
  <1>5. QED
    BY <1>4

(* The lowest frame of a set is in the set. *)
LEMMA MinOfFrames ==
  ASSUME NEW S \in SUBSET Frame, S # {}
  PROVE  Min(S) \in S
  <1>1. S \in SUBSET Nat
    BY SizesAssumption DEF Frame
  <1>2. QED
    BY <1>1, LeastNatural DEF Min

(* The hand goes round. *)
LEMMA HandMoves ==
  ASSUME NEW h \in Frame
  PROVE  (h + 1) % NFrames = (IF h + 1 < NFrames THEN h + 1 ELSE 0) /\ (h + 1) % NFrames \in Frame
  BY SizesAssumption DEF Frame

------------------------------------------------------------------------------
(* The inductive invariant.                                                *)

(* The types of the variables.  The parts of a record in step depend on    *)
(* where its thread is.                                                    *)
FrameType == [page : Page \cup {Nil}, value : Nat]

MetaType ==
    [occupant : Page \cup {Nil}, pins : Nat, dirty : BOOLEAN, referenced : BOOLEAN]

StepTyped(s) ==
    /\ s.at \in {"idle", "evict", "latch", "unpin", "flush", "clear"}
    /\ s.at = "evict" => s.page \in Page /\ s.mode \in Mode /\ s.left \in Nat
    /\ s.at \in {"latch", "unpin"} => s.frame \in Frame
    /\ s.at = "latch" => s.mode \in Mode
    /\ s.at = "unpin" => s.dirty \in BOOLEAN
    /\ s.at \in {"flush", "clear"} => s.todo \in SUBSET Frame /\ s.todo # {}

Typed ==
    /\ disk \in [Page -> Nat] /\ written \in Nat
    /\ frames \in [Frame -> FrameType]
    /\ meta \in [Frame -> MetaType]
    /\ table \in [Page -> Frame \cup {Nil}]
    /\ hand \in Frame
    /\ guards \in [Thread -> Seq([frame : Frame, mode : Mode])]
    /\ step = [t \in Thread |-> step[t]] /\ \A t \in Thread : StepTyped(step[t])
    /\ answer \in [Thread -> {"ok", "full"}]

(* The page table, the occupants and the frames tell the same story, and a *)
(* frame that was never loaded is in nobody's hands.                       *)
PlacesAgree ==
    /\ \A p \in Page : table[p] # Nil => meta[table[p]].occupant = p
    /\ \A f \in Frame :
          /\ frames[f].page = meta[f].occupant
          /\ IF meta[f].occupant = Nil THEN meta[f].pins = 0
                                       ELSE table[meta[f].occupant] = f

(* A thread has at most one guard of a frame, and waits for the latch of   *)
(* another one.                                                            *)
GuardsApart ==
    \A t \in Thread :
        /\ \A i, j \in DOMAIN guards[t] : guards[t][i].frame = guards[t][j].frame => i = j
        /\ step[t].at = "latch" => step[t].frame \notin Guards(t)

PoolInv == Typed /\ PlacesAgree /\ GuardsApart /\ PinsExact

(* What is in a sequence. *)
LEMMA SeqElement ==
  ASSUME NEW S, NEW s \in Seq(S), NEW i \in DOMAIN s
  PROVE  s[i] \in S
  OBVIOUS

(* The parts of a guard. *)
LEMMA GuardTyped ==
  ASSUME Typed, NEW t \in Thread, NEW i \in DOMAIN guards[t]
  PROVE  guards[t][i].frame \in Frame /\ guards[t][i].mode \in Mode
  <1>1. guards[t] \in Seq([frame : Frame, mode : Mode])
    BY DEF Typed
  <1>2. guards[t][i] \in [frame : Frame, mode : Mode]
    BY <1>1, SeqElement
  <1>3. QED
    BY <1>2

(* Steps that change no guard, no pin and nobody's place keep the pins exact. *)
LEMMA SamePins ==
  ASSUME GuardsApart, PinsExact, UNCHANGED <<guards, step>>,
         \A g \in Frame : meta'[g].pins = meta[g].pins
  PROVE  GuardsApart' /\ PinsExact'
  <1>1. \A g \in Frame : Holding(g)' = Holding(g) /\ Passing(g)' = Passing(g)
    BY DEF Holding, Passing, Guards
  <1>2. PinsExact'
    BY <1>1 DEF PinsExact
  <1>3. GuardsApart'
    BY DEF GuardsApart, Guards
  <1>4. QED
    BY <1>2, <1>3

(* The pins of a frame count the threads that use it. *)
LEMMA PinsCount ==
  ASSUME PinsExact, NEW f \in Frame
  PROVE  /\ meta[f].pins = Cardinality(Holding(f)) + Cardinality(Passing(f))
         /\ IsFiniteSet(Holding(f)) /\ Cardinality(Holding(f)) \in Nat
         /\ IsFiniteSet(Passing(f)) /\ Cardinality(Passing(f)) \in Nat
  <1>1. Holding(f) \in SUBSET Thread /\ Passing(f) \in SUBSET Thread
    BY DEF Holding, Passing
  <1>2. IsFiniteSet(Holding(f)) /\ IsFiniteSet(Passing(f))
    BY <1>1, ThreadsAssumption, FS_Subset
  <1>3. QED
    BY <1>2, FS_CardinalityType DEF PinsExact

(* A frame without pins is in nobody's use. *)
LEMMA UnpinnedUnused ==
  ASSUME PinsExact, NEW f \in Frame, meta[f].pins = 0
  PROVE  Holding(f) = {} /\ Passing(f) = {}
  BY PinsCount, FS_EmptySet

(* The initial states satisfy the invariant. *)
LEMMA PoolInvInit == Init => PoolInv
  <1> SUFFICES ASSUME Init PROVE PoolInv
    OBVIOUS
  <1>1. Typed
    BY SizesAssumption DEF Init, Typed, EmptyFrame, EmptyMeta, FrameType, MetaType, StepTyped,
       Idle, Frame
  <1>2. PlacesAgree
    BY DEF Init, PlacesAgree, EmptyFrame, EmptyMeta
  <1>3. GuardsApart
    BY DEF Init, GuardsApart, Idle
  <1>4. PinsExact
    <2>1. \A f \in Frame : Holding(f) = {} /\ Passing(f) = {}
      BY DEF Init, Holding, Passing, Guards, Idle
    <2>2. \A f \in Frame : Cardinality(Holding(f)) = 0 /\ Cardinality(Passing(f)) = 0
      BY <2>1, FS_EmptySet
    <2>3. \A f \in Frame : meta[f].pins = 0
      BY DEF Init, EmptyMeta
    <2>4. QED
      BY <2>2, <2>3 DEF PinsExact
  <1>5. QED
    BY <1>1, <1>2, <1>3, <1>4 DEF PoolInv

------------------------------------------------------------------------------
(* Calls.                                                                  *)

(* Whoever gets a pin in a call passes through the frame, and held none. *)
LEMMA CallPasses ==
  ASSUME NEW t \in Thread, NEW f \in Frame, NEW mode \in Mode,
         step = [u \in Thread |-> step[u]], step[t].at \in {"idle", "evict"},
         Goes(t, Latching(f, mode)), UNCHANGED guards
  PROVE  \A g \in Frame :
             /\ Holding(g)' = Holding(g)
             /\ t \notin Passing(g)
             /\ Passing(g)' = IF g = f THEN Passing(g) \cup {t} ELSE Passing(g)
  <1>1. step'[t] = Latching(f, mode) /\ \A u \in Thread \ {t} : step'[u] = step[u]
    BY DEF Goes
  <1> SUFFICES ASSUME NEW g \in Frame
               PROVE  /\ Holding(g)' = Holding(g)
                      /\ t \notin Passing(g)
                      /\ Passing(g)' = IF g = f THEN Passing(g) \cup {t} ELSE Passing(g)
    OBVIOUS
  <1>2. Holding(g)' = Holding(g)
    BY DEF Holding, Guards
  <1>3. t \notin Passing(g)
    BY DEF Passing
  <1>4. t \in Passing(g)' <=> g = f
    BY <1>1 DEF Passing, Latching
  <1>5. \A u \in Thread \ {t} : u \in Passing(g)' <=> u \in Passing(g)
    BY <1>1 DEF Passing
  <1>6. Passing(g) \subseteq Thread /\ Passing(g)' \subseteq Thread
    BY DEF Passing
  <1>7. QED
    BY <1>2, <1>3, <1>4, <1>5, <1>6

(* What a call does to the pins and the guards, wherever the page is. *)
LEMMA CallPins ==
  ASSUME PoolInv, NEW t \in Thread, NEW f \in Frame, NEW mode \in Mode,
         step[t].at \in {"idle", "evict"}, f \notin Guards(t),
         Goes(t, Latching(f, mode)), UNCHANGED guards,
         \A g \in Frame : meta'[g].pins = IF g = f THEN meta[g].pins + 1 ELSE meta[g].pins
  PROVE  GuardsApart' /\ PinsExact'
  <1>1. step = [u \in Thread |-> step[u]]
    BY DEF PoolInv, Typed
  <1>2. step'[t] = Latching(f, mode) /\ \A u \in Thread \ {t} : step'[u] = step[u]
    BY <1>1 DEF Goes
  <1>3. GuardsApart'
    <2>1. \A u \in Thread : Guards(u)' = Guards(u)
      BY DEF Guards
    <2>2. \A u \in Thread : step'[u].at = "latch" => step'[u].frame \notin Guards(u)
      BY <1>2 DEF PoolInv, GuardsApart, Latching
    <2>3. QED
      BY <2>1, <2>2 DEF PoolInv, GuardsApart
  <1>4. PinsExact'
    <2> SUFFICES ASSUME NEW g \in Frame
                 PROVE  meta'[g].pins = Cardinality(Holding(g)') + Cardinality(Passing(g)')
      BY DEF PinsExact
    <2>1. /\ Holding(g)' = Holding(g) /\ t \notin Passing(g)
          /\ Passing(g)' = IF g = f THEN Passing(g) \cup {t} ELSE Passing(g)
      BY <1>1, CallPasses
    <2>2. /\ meta[g].pins = Cardinality(Holding(g)) + Cardinality(Passing(g))
          /\ IsFiniteSet(Passing(g))
          /\ Cardinality(Holding(g)) \in Nat /\ Cardinality(Passing(g)) \in Nat
      BY PinsCount DEF PoolInv
    <2>3. Cardinality(Passing(g) \cup {t}) = Cardinality(Passing(g)) + 1
      BY <2>1, <2>2, FS_AddElement
    <2>4. QED
      BY <2>1, <2>2, <2>3
  <1>5. QED
    BY <1>3, <1>4

(* A page that is in the pool is pinned where it is. *)
LEMMA HitInv ==
  ASSUME PoolInv, NEW t \in Thread, NEW p \in Page, NEW mode \in Mode, Hit(t, p, mode)
  PROVE  PoolInv'
  <1> DEFINE f == table[p]
  <1>1. /\ f \in Frame /\ meta[f].occupant = p /\ frames[f].page = p
        /\ step[t].at = "idle" /\ p \in Int
    BY SizesAssumption DEF PoolInv, Typed, PlacesAgree, Hit, Calls, Page, Idle
  <1>2. /\ meta' = [meta EXCEPT ![f].pins = @ + 1, ![f].referenced = TRUE]
        /\ Goes(t, Latching(f, mode)) /\ Answers(t, "ok")
        /\ UNCHANGED <<disk, frames, table, hand, guards, written>>
    BY DEF Hit, Pinned
  <1>3. Typed'
    <2>1. meta' \in [Frame -> MetaType]
      <3>1. meta \in [Frame -> MetaType]
        BY DEF PoolInv, Typed
      <3>2. [meta[f] EXCEPT !.pins = @ + 1, !.referenced = TRUE] \in MetaType
        <4>1. [meta[f] EXCEPT !.pins = @ + 1] \in MetaType
          BY <1>1, <3>1 DEF MetaType
        <4>2. \A m \in MetaType : [m EXCEPT !.referenced = TRUE] \in MetaType
          BY DEF MetaType
        <4>3. QED
          BY <4>1, <4>2
      <3>3. meta' = [meta EXCEPT ![f] = [meta[f] EXCEPT !.pins = @ + 1, !.referenced = TRUE]]
        BY <1>1, <1>2, <3>1 DEF MetaType
      <3>4. QED
        BY <3>1, <3>2, <3>3
    <2>2. step' = [u \in Thread |-> step'[u]] /\ \A u \in Thread : StepTyped(step'[u])
      BY <1>1, <1>2 DEF PoolInv, Typed, StepTyped, Latching, Goes
    <2>3. answer' \in [Thread -> {"ok", "full"}]
      BY <1>2 DEF PoolInv, Typed, Answers
    <2>4. QED
      BY <1>2, <2>1, <2>2, <2>3 DEF PoolInv, Typed
  <1>4. \A g \in Frame :
           /\ meta'[g].occupant = meta[g].occupant
           /\ meta'[g].pins = IF g = f THEN meta[g].pins + 1 ELSE meta[g].pins
    BY <1>1, <1>2 DEF PoolInv, Typed, MetaType
  <1>5. PlacesAgree'
    <2>1. \A q \in Page : table[q] \in Frame \cup {Nil}
      BY DEF PoolInv, Typed
    <2>2. \A q \in Page : table'[q] # Nil => meta'[table'[q]].occupant = q
      BY <1>2, <1>4, <2>1 DEF PoolInv, PlacesAgree
    <2>3. ASSUME NEW g \in Frame
          PROVE  /\ frames'[g].page = meta'[g].occupant
                 /\ IF meta'[g].occupant = Nil THEN meta'[g].pins = 0
                                               ELSE table'[meta'[g].occupant] = g
      <3>1. /\ frames[g].page = meta[g].occupant
            /\ IF meta[g].occupant = Nil THEN meta[g].pins = 0
                                         ELSE table[meta[g].occupant] = g
        BY DEF PoolInv, PlacesAgree
      <3>2. meta[f].occupant # Nil
        BY <1>1, NilApart
      <3>3. QED
        BY <1>2, <1>4, <3>1, <3>2
    <2>4. QED
      BY <2>2, <2>3 DEF PlacesAgree
  <1>6. f \notin Guards(t)
    BY <1>1 DEF Hit, Calls, Guards
  <1>7. GuardsApart' /\ PinsExact'
    BY <1>1, <1>2, <1>4, <1>6, CallPins
  <1>8. QED
    BY <1>3, <1>5, <1>7 DEF PoolInv

(* A page that is not in the pool takes a frame that nobody uses: one that *)
(* was never taken, or the one under the hand.                             *)
LEMMA LoadInv ==
  ASSUME PoolInv, NEW t \in Thread, NEW p \in Page, NEW mode \in Mode, NEW f \in Frame,
         NEW tab, NEW dsk \in [Page -> Nat],
         step[t].at \in {"idle", "evict"}, table[p] = Nil, meta[f].pins = 0,
         tab = IF meta[f].occupant = Nil THEN table ELSE Forgotten(f),
         Load(t, p, f, mode, tab, dsk),
         disk' = dsk, hand' \in Frame, UNCHANGED <<guards, written>>
  PROVE  PoolInv'
  <1>0. /\ meta \in [Frame -> MetaType] /\ frames \in [Frame -> FrameType]
        /\ table \in [Page -> Frame \cup {Nil}]
    BY DEF PoolInv, Typed
  <1>1. p # Nil /\ p \in Nat
    BY SizesAssumption DEF Page, Nil
  <1>2. /\ frames' = [frames EXCEPT ![f] = [page |-> p, value |-> dsk[p]]]
        /\ table' = [tab EXCEPT ![p] = f]
        /\ Goes(t, Latching(f, mode)) /\ Answers(t, "ok")
    BY DEF Load
  <1>3. meta' = [meta EXCEPT ![f] = [occupant |-> p, pins |-> 1, dirty |-> FALSE, referenced |-> TRUE]]
    BY <1>0 DEF Load, Pinned, EmptyMeta
  <1>4. tab \in [Page -> Frame \cup {Nil}]
    BY DEF PoolInv, Typed, Forgotten
  <1>5. Typed'
    <2>1. /\ disk' \in [Page -> Nat] /\ written' \in Nat /\ hand' \in Frame
          /\ guards' \in [Thread -> Seq([frame : Frame, mode : Mode])]
      BY DEF PoolInv, Typed
    <2>2. frames' \in [Frame -> FrameType] /\ table' \in [Page -> Frame \cup {Nil}]
      BY <1>2, <1>4 DEF PoolInv, Typed, FrameType
    <2>3. meta' \in [Frame -> MetaType]
      BY <1>0, <1>3 DEF MetaType
    <2>4. step' = [u \in Thread |-> step'[u]] /\ \A u \in Thread : StepTyped(step'[u])
      BY <1>2 DEF PoolInv, Typed, StepTyped, Latching, Goes
    <2>5. answer' \in [Thread -> {"ok", "full"}]
      BY <1>2 DEF PoolInv, Typed, Answers
    <2>6. QED
      BY <2>1, <2>2, <2>3, <2>4, <2>5 DEF Typed
  <1>6. \A g \in Frame : /\ meta'[g].occupant = IF g = f THEN p ELSE meta[g].occupant
                         /\ meta'[g].pins = IF g = f THEN meta[g].pins + 1 ELSE meta[g].pins
                         /\ frames'[g].page = IF g = f THEN p ELSE frames[g].page
    BY <1>2, <1>3 DEF PoolInv, Typed
  <1>7. PlacesAgree'
    <2>1. \A q \in Page : tab[q] # Nil =>
             /\ tab[q] \in Frame /\ tab[q] # f /\ q # p
             /\ meta[tab[q]].occupant = q
      BY <1>1, <1>4, NilApart DEF PoolInv, Typed, MetaType, PlacesAgree, Forgotten
    <2>2. \A q \in Page : table'[q] = IF q = p THEN f ELSE tab[q]
      BY <1>2, <1>4
    <2>3. \A q \in Page : table'[q] # Nil => meta'[table'[q]].occupant = q
      BY <1>6, <2>1, <2>2
    <2>4. \A g \in Frame : g # f /\ meta[g].occupant # Nil =>
             meta[g].occupant \in Page /\ meta[g].occupant # p /\ tab[meta[g].occupant] = g
      BY NilApart DEF PoolInv, Typed, MetaType, PlacesAgree, Forgotten
    <2>5. ASSUME NEW g \in Frame
          PROVE  /\ frames'[g].page = meta'[g].occupant
                 /\ IF meta'[g].occupant = Nil THEN meta'[g].pins = 0
                                               ELSE table'[meta'[g].occupant] = g
      <3>1. CASE g = f
        <4>1. p \in Page /\ table'[p] = f
          BY <2>2
        <4>2. QED
          BY <1>1, <1>6, <3>1, <4>1
      <3>2. CASE g # f
        <4>1. /\ frames[g].page = meta[g].occupant
              /\ meta[g].occupant = Nil => meta[g].pins = 0
          BY DEF PoolInv, PlacesAgree
        <4>2. meta[g].occupant # Nil => table'[meta[g].occupant] = g
          BY <2>2, <2>4, <3>2
        <4>3. QED
          BY <1>6, <3>2, <4>1, <4>2
      <3>3. QED
        BY <3>1, <3>2
    <2>6. QED
      BY <2>3, <2>5 DEF PlacesAgree
  <1>8. f \notin Guards(t)
    BY UnpinnedUnused DEF PoolInv, Holding
  <1>9. GuardsApart' /\ PinsExact'
    BY <1>2, <1>6, <1>8, CallPins
  <1>10. QED
    BY <1>5, <1>7, <1>9 DEF PoolInv

(* A page that is not in the pool takes a frame that was never taken. *)
LEMMA LoadFreeInv ==
  ASSUME PoolInv, NEW t \in Thread, NEW p \in Page, NEW mode \in Mode, LoadFree(t, p, mode)
  PROVE  PoolInv'
  <1> DEFINE f == Min(Free)
  <1>1. f \in Frame /\ meta[f].occupant = Nil
    BY MinOfFrames DEF LoadFree, Free
  <1>2. meta[f].pins = 0
    BY <1>1 DEF PoolInv, PlacesAgree
  <1>3. /\ step[t].at = "idle" /\ table[p] = Nil /\ Load(t, p, f, mode, table, disk)
        /\ UNCHANGED <<disk, hand, guards, written>>
    BY DEF LoadFree, Calls, Idle
  <1>4. disk' \in [Page -> Nat] /\ disk \in [Page -> Nat] /\ hand' \in Frame
    BY <1>3 DEF PoolInv, Typed
  <1>5. QED
    BY <1>1, <1>2, <1>3, <1>4, LoadInv

(* What the disk holds when a frame is given up. *)
LEMMA WrittenBackTyped ==
  ASSUME Typed, PlacesAgree, NEW f \in Frame, meta[f].occupant # Nil
  PROVE  WrittenBack(f) \in [Page -> Nat]
  <1>1. frames[f].page \in Page /\ frames[f].value \in Nat
    BY DEF Typed, MetaType, FrameType, PlacesAgree
  <1>2. QED
    BY <1>1 DEF WrittenBack, Typed

------------------------------------------------------------------------------
(* The clock.                                                              *)

(* A thread that sweeps or flushes has no pin but its guards', wherever it is. *)
LEMMA WithoutPins ==
  ASSUME PoolInv, NEW t \in Thread, NEW place, StepTyped(place),
         step[t].at \in {"idle", "evict", "flush", "clear"},
         place.at \in {"idle", "evict", "flush", "clear"},
         Goes(t, place), UNCHANGED guards,
         \A g \in Frame : meta'[g].pins = meta[g].pins
  PROVE  /\ GuardsApart' /\ PinsExact'
         /\ step' = [u \in Thread |-> step'[u]] /\ \A u \in Thread : StepTyped(step'[u])
  <1>1. /\ step' = [u \in Thread |-> step'[u]]
        /\ step'[t] = place /\ \A u \in Thread \ {t} : step'[u] = step[u]
    BY DEF PoolInv, Typed, Goes
  <1>2. \A u \in Thread : StepTyped(step'[u])
    BY <1>1 DEF PoolInv, Typed
  <1>3. GuardsApart'
    <2>1. \A u \in Thread : Guards(u)' = Guards(u)
      BY DEF Guards
    <2>2. \A u \in Thread : step'[u].at = "latch" => step'[u].frame \notin Guards(u)
      BY <1>1 DEF PoolInv, GuardsApart
    <2>3. QED
      BY <2>1, <2>2 DEF PoolInv, GuardsApart
  <1>4. ASSUME NEW g \in Frame
        PROVE  Holding(g)' = Holding(g) /\ Passing(g)' = Passing(g)
    <2>1. Holding(g)' = Holding(g)
      BY DEF Holding, Guards
    <2>2. t \notin Passing(g) /\ t \notin Passing(g)'
      BY <1>1 DEF Passing
    <2>3. \A u \in Thread \ {t} : u \in Passing(g)' <=> u \in Passing(g)
      BY <1>1 DEF Passing
    <2>4. Passing(g) \subseteq Thread /\ Passing(g)' \subseteq Thread
      BY DEF Passing
    <2>5. \A u : u \in Passing(g)' <=> u \in Passing(g)
      BY <2>2, <2>3, <2>4
    <2>6. Passing(g)' = Passing(g)
      BY <2>5
    <2>7. QED
      BY <2>1, <2>6
  <1>5. PinsExact'
    BY <1>4 DEF PoolInv, PinsExact
  <1>6. QED
    BY <1>1, <1>2, <1>3, <1>5

(* The turns of the loop that the hand needs until it takes a frame that   *)
(* nobody uses.                                                            *)
Ahead(f)  == IF f >= hand THEN f - hand ELSE f - hand + NFrames
Needed(f) == Ahead(f) + 1 + (IF meta[f].referenced THEN NFrames ELSE 0)

(* One thread sweeps at a time, for a page that is not in the pool, in a   *)
(* pool without a free frame, and has turns enough left to take any frame  *)
(* that nobody uses.                                                       *)
SweepRight ==
    \A t \in Thread : step[t].at = "evict" =>
        /\ \A u \in Thread : step[u].at = "evict" => u = t
        /\ Free = {} /\ table[step[t].page] = Nil
        /\ \A f \in Frame : meta[f].pins = 0 => Needed(f) <= step[t].left

(* Steps that move no page and no pin, of a thread that has none. *)
LEMMA MovesNothing ==
  ASSUME PoolInv, NEW t \in Thread, NEW place, StepTyped(place),
         step[t].at \in {"idle", "evict", "flush", "clear"},
         place.at \in {"idle", "evict", "flush", "clear"},
         Goes(t, place), UNCHANGED <<disk, frames, table, guards, written>>,
         answer' = answer \/ (\E a \in {"ok", "full"} : Answers(t, a)),
         hand' \in Frame, meta' \in [Frame -> MetaType],
         \A g \in Frame : meta'[g].pins = meta[g].pins /\ meta'[g].occupant = meta[g].occupant
  PROVE  PoolInv'
  <1>1. /\ GuardsApart' /\ PinsExact'
        /\ step' = [u \in Thread |-> step'[u]] /\ \A u \in Thread : StepTyped(step'[u])
    BY WithoutPins
  <1>2. answer' \in [Thread -> {"ok", "full"}]
    BY DEF PoolInv, Typed, Answers
  <1>3. Typed'
    BY <1>1, <1>2 DEF PoolInv, Typed
  <1>4. PlacesAgree'
    <2>1. \A q \in Page : table[q] \in Frame \cup {Nil}
      BY DEF PoolInv, Typed
    <2>2. \A q \in Page : table'[q] # Nil => meta'[table'[q]].occupant = q
      BY <2>1 DEF PoolInv, PlacesAgree
    <2>3. QED
      BY <2>2 DEF PoolInv, PlacesAgree
  <1>5. QED
    BY <1>1, <1>3, <1>4 DEF PoolInv

(* The sweep begins. *)
LEMMA EvictInv ==
  ASSUME PoolInv, NEW t \in Thread, NEW p \in Page, NEW mode \in Mode, Evict(t, p, mode)
  PROVE  PoolInv'
  <1> DEFINE place == Sweeping(p, mode, Rounds)
  <1>1. /\ step[t].at = "idle" /\ Goes(t, place) /\ Answers(t, "ok")
        /\ UNCHANGED <<disk, frames, meta, table, hand, guards, written>>
    BY DEF Evict, Calls, Idle, inner
  <1>2. StepTyped(place) /\ place.at = "evict"
    BY SizesAssumption DEF StepTyped, Sweeping, Rounds
  <1> HIDE DEF place
  <1>3. hand' \in Frame /\ meta' \in [Frame -> MetaType]
    BY <1>1 DEF PoolInv, Typed
  <1>4. QED
    BY <1>1, <1>2, <1>3, MovesNothing

(* A frame without its reference bit is otherwise as it was. *)
LEMMA BitCleared ==
  ASSUME meta \in [Frame -> MetaType], NEW h \in Frame,
         NEW m, m = [meta EXCEPT ![h].referenced = FALSE]
  PROVE  /\ m \in [Frame -> MetaType]
         /\ \A g \in Frame : /\ m[g].pins = meta[g].pins /\ m[g].occupant = meta[g].occupant
                             /\ m[g].dirty = meta[g].dirty
                             /\ m[g].referenced = IF g = h THEN FALSE ELSE meta[g].referenced
  <1> DEFINE r == [meta[h] EXCEPT !.referenced = FALSE]
  <1>1. /\ r \in MetaType /\ r.pins = meta[h].pins /\ r.occupant = meta[h].occupant
        /\ r.dirty = meta[h].dirty /\ r.referenced = FALSE
    BY DEF MetaType
  <1>2. m = [meta EXCEPT ![h] = r]
    OBVIOUS
  <1> HIDE DEF r
  <1>3. QED
    BY <1>1, <1>2

LEMMA MostStays ==
  ASSUME meta \in [Frame -> MetaType], hand \in Frame,
         meta' = meta \/ meta' = [meta EXCEPT ![hand].referenced = FALSE]
  PROVE  /\ meta' \in [Frame -> MetaType]
         /\ \A g \in Frame : /\ meta'[g].pins = meta[g].pins
                             /\ meta'[g].occupant = meta[g].occupant
                             /\ meta'[g].dirty = meta[g].dirty
  <1>1. CASE meta' = meta
    BY <1>1
  <1>2. CASE meta' = [meta EXCEPT ![hand].referenced = FALSE]
    BY <1>2, BitCleared
  <1>3. QED
    BY <1>1, <1>2

(* The hand leaves pages and pins alone until it takes a frame. *)
LEMMA SpareInv ==
  ASSUME PoolInv, NEW t \in Thread, PassOver(t) \/ Spare(t)
  PROVE  PoolInv'
  <1> DEFINE place == Sweeping(step[t].page, step[t].mode, step[t].left - 1)
  <1>1. /\ step[t].at = "evict" /\ step[t].left > 0 /\ Goes(t, place)
        /\ hand' = (hand + 1) % NFrames
        /\ UNCHANGED <<disk, frames, table, guards, answer, written>>
        /\ meta' = meta \/ meta' = [meta EXCEPT ![hand].referenced = FALSE]
    BY DEF PassOver, Spare, Turns, GoesOn
  <1>2. step[t].page \in Page /\ step[t].mode \in Mode /\ step[t].left - 1 \in Nat
    BY <1>1 DEF PoolInv, Typed, StepTyped
  <1>3. StepTyped(place) /\ place.at = "evict"
    BY <1>2 DEF StepTyped, Sweeping
  <1> HIDE DEF place
  <1>4. hand \in Frame /\ hand' \in Frame
    BY <1>1, HandMoves DEF PoolInv, Typed
  <1>5. /\ meta' \in [Frame -> MetaType]
        /\ \A g \in Frame : meta'[g].pins = meta[g].pins /\ meta'[g].occupant = meta[g].occupant
    BY <1>1, <1>4, MostStays DEF PoolInv, Typed
  <1>6. QED
    BY <1>1, <1>3, <1>4, <1>5, MovesNothing

(* The frame under the hand is taken from another page. *)
LEMMA TakeInv ==
  ASSUME PoolInv, SweepRight, NEW t \in Thread, Take(t)
  PROVE  PoolInv'
  <1> DEFINE p == step[t].page
  <1>1. /\ step[t].at = "evict" /\ ~ InUse(hand) /\ hand' = (hand + 1) % NFrames
        /\ disk' = WrittenBack(hand)
        /\ Load(t, p, hand, step[t].mode, Forgotten(hand), WrittenBack(hand))
        /\ UNCHANGED <<guards, written>>
    BY DEF Take, Victim, Turns
  <1>2. hand \in Frame /\ p \in Page /\ step[t].mode \in Mode
    BY <1>1 DEF PoolInv, Typed, StepTyped
  <1>3. meta[hand].occupant # Nil /\ meta[hand].pins = 0
    <2>1. meta[hand].pins \in Nat
      BY <1>2 DEF PoolInv, Typed, MetaType
    <2>2. QED
      BY <1>1, <2>1 DEF InUse
  <1>4. WrittenBack(hand) \in [Page -> Nat]
    BY <1>2, <1>3, WrittenBackTyped DEF PoolInv
  <1>5. hand' \in Frame
    BY <1>1, <1>2, HandMoves
  <1>6. table[p] = Nil
    BY <1>1 DEF SweepRight
  <1>7. Forgotten(hand) = IF meta[hand].occupant = Nil THEN table ELSE Forgotten(hand)
    BY <1>3
  <1> HIDE DEF p
  <1>8. QED
    BY <1>1, <1>2, <1>3, <1>4, <1>5, <1>6, <1>7, LoadInv

(* A call that finds no frame changes nothing but its answer. *)
LEMMA PoolFullInv ==
  ASSUME PoolInv, NEW t \in Thread, PoolFull(t)
  PROVE  PoolInv'
  <1>1. /\ step[t].at = "evict" /\ Goes(t, Idle) /\ Answers(t, "full")
        /\ UNCHANGED <<disk, frames, meta, table, hand, guards, written>>
    BY DEF PoolFull, inner
  <1>2. StepTyped(Idle) /\ Idle.at = "idle"
    BY DEF StepTyped, Idle
  <1>3. hand' \in Frame /\ meta' \in [Frame -> MetaType]
    BY <1>1 DEF PoolInv, Typed
  <1>4. QED
    BY <1>1, <1>2, <1>3, MovesNothing

------------------------------------------------------------------------------
(* Guards.                                                                 *)

(* Who has the latch of a frame no longer waits for it. *)
LEMMA LatchInv ==
  ASSUME PoolInv, NEW t \in Thread, Latch(t)
  PROVE  PoolInv'
  <1> DEFINE f  == step[t].frame
             gd == [frame |-> f, mode |-> step[t].mode]
  <1>1. /\ step[t].at = "latch" /\ f \in Frame /\ step[t].mode \in Mode
        /\ f \notin Guards(t)
    BY DEF PoolInv, Typed, StepTyped, GuardsApart, Latch
  <1>2. /\ guards' = [guards EXCEPT ![t] = Append(@, gd)] /\ Goes(t, Idle)
        /\ UNCHANGED <<disk, frames, meta, table, hand, answer, written>>
    BY DEF Latch, inner
  <1>3. /\ step' = [u \in Thread |-> step'[u]]
        /\ step'[t] = Idle /\ \A u \in Thread \ {t} : step'[u] = step[u]
    BY <1>2 DEF PoolInv, Typed, Goes
  <1>4. /\ guards[t] \in Seq([frame : Frame, mode : Mode]) /\ gd \in [frame : Frame, mode : Mode]
        /\ guards'[t] = Append(guards[t], gd)
        /\ \A u \in Thread \ {t} : guards'[u] = guards[u]
    BY <1>1, <1>2 DEF PoolInv, Typed
  <1>5. Typed'
    <2>1. guards' \in [Thread -> Seq([frame : Frame, mode : Mode])]
      <3>1. Append(guards[t], gd) \in Seq([frame : Frame, mode : Mode])
        BY <1>4
      <3>2. QED
        BY <1>2, <3>1 DEF PoolInv, Typed
    <2>2. StepTyped(step'[t])
      BY <1>3 DEF StepTyped, Idle
    <2>3. \A u \in Thread : StepTyped(step'[u])
      BY <1>3, <2>2 DEF PoolInv, Typed
    <2>4. QED
      BY <1>2, <1>3, <2>1, <2>3 DEF PoolInv, Typed
  <1>6. PlacesAgree'
    BY <1>2 DEF PoolInv, PlacesAgree
  <1>7. /\ Guards(t)' = Guards(t) \cup {f}
        /\ \A u \in Thread \ {t} : Guards(u)' = Guards(u)
    <2>1. /\ Len(guards'[t]) = Len(guards[t]) + 1 /\ guards'[t][Len(guards[t]) + 1] = gd
          /\ \A i \in 1..Len(guards[t]) : guards'[t][i] = guards[t][i]
          /\ DOMAIN guards'[t] = 1..(Len(guards[t]) + 1) /\ DOMAIN guards[t] = 1..Len(guards[t])
          /\ Len(guards[t]) \in Nat
      BY <1>4
    <2>2. DOMAIN guards'[t] = DOMAIN guards[t] \cup {Len(guards[t]) + 1}
      BY <2>1
    <2>3. Guards(t)' = Guards(t) \cup {f}
      BY <2>1, <2>2 DEF Guards
    <2>4. ASSUME NEW u \in Thread \ {t} PROVE Guards(u)' = Guards(u)
      <3>1. guards'[u] = guards[u]
        BY <1>4
      <3>2. QED
        BY <3>1 DEF Guards
    <2>5. QED
      BY <2>3, <2>4
  <1>8. GuardsApart'
    <2>1. ASSUME NEW i \in DOMAIN guards'[t], NEW j \in DOMAIN guards'[t],
                 guards'[t][i].frame = guards'[t][j].frame
          PROVE  i = j
      <3>1. /\ guards'[t][Len(guards[t]) + 1] = gd /\ Len(guards[t]) \in Nat
            /\ \A k \in 1..Len(guards[t]) : guards'[t][k] = guards[t][k] /\ guards[t][k].frame # f
            /\ DOMAIN guards'[t] = 1..(Len(guards[t]) + 1) /\ DOMAIN guards[t] = 1..Len(guards[t])
        BY <1>1, <1>4 DEF Guards
      <3>2. i \in 1..(Len(guards[t]) + 1) /\ j \in 1..(Len(guards[t]) + 1)
        BY <3>1
      <3>3. \A k \in 1..Len(guards[t]), l \in 1..Len(guards[t]) :
                guards[t][k].frame = guards[t][l].frame => k = l
        BY <3>1 DEF PoolInv, GuardsApart
      <3>4. gd.frame = f
        OBVIOUS
      <3> DEFINE n == Len(guards[t])
      <3>5. /\ n \in Nat /\ guards'[t][n + 1].frame = f
            /\ \A k \in 1..n : guards'[t][k].frame = guards[t][k].frame /\ guards[t][k].frame # f
        BY <3>1, <3>4
      <3> HIDE DEF gd, n, f
      <3>6. CASE i = n + 1 \/ j = n + 1
        BY <2>1, <3>2, <3>5, <3>6 DEF n
      <3>7. CASE i \in 1..n /\ j \in 1..n
        BY <2>1, <3>3, <3>5, <3>7 DEF n
      <3>8. QED
        BY <3>2, <3>5, <3>6, <3>7 DEF n
    <2>2. step'[t].at # "latch"
      BY <1>3 DEF Idle
    <2>3. QED
      BY <1>3, <1>4, <1>7, <2>1, <2>2 DEF PoolInv, GuardsApart
  <1>9. PinsExact'
    <2> SUFFICES ASSUME NEW g \in Frame
                 PROVE  meta'[g].pins = Cardinality(Holding(g)') + Cardinality(Passing(g)')
      BY DEF PinsExact
    <2>1. Holding(g)' = IF g = f THEN Holding(g) \cup {t} ELSE Holding(g)
      BY <1>7 DEF Holding
    <2>2. Passing(g)' = IF g = f THEN Passing(g) \ {t} ELSE Passing(g)
      <3>1. t \notin Passing(g)'
        BY <1>3 DEF Passing, Idle
      <3>2. \A u \in Thread \ {t} : u \in Passing(g)' <=> u \in Passing(g)
        BY <1>3 DEF Passing
      <3>3. t \in Passing(g) <=> g = f
        BY <1>1 DEF Passing
      <3>4. Passing(g) \subseteq Thread /\ Passing(g)' \subseteq Thread
        BY DEF Passing
      <3>5. QED
        BY <3>1, <3>2, <3>3, <3>4
    <2>3. (g = f => t \notin Holding(g)) /\ (g = f => t \in Passing(g)) /\ meta' = meta
      BY <1>1, <1>2 DEF Holding, Passing
    <2>4. /\ meta[g].pins = Cardinality(Holding(g)) + Cardinality(Passing(g))
          /\ IsFiniteSet(Passing(g)) /\ IsFiniteSet(Holding(g))
          /\ Cardinality(Holding(g)) \in Nat /\ Cardinality(Passing(g)) \in Nat
      BY PinsCount DEF PoolInv
    <2>5. g = f => /\ Cardinality(Holding(g) \cup {t}) = Cardinality(Holding(g)) + 1
                   /\ Cardinality(Passing(g) \ {t}) = Cardinality(Passing(g)) - 1
      BY <2>3, <2>4, FS_AddElement, FS_RemoveElement
    <2>6. QED
      BY <2>1, <2>2, <2>3, <2>4, <2>5
  <1>10. QED
    BY <1>5, <1>6, <1>8, <1>9 DEF PoolInv

(* A change touches nothing but the value in a frame. *)
LEMMA ChangeInv ==
  ASSUME PoolInv, NEW t \in Thread, NEW i \in DOMAIN guards[t], Change(t, i)
  PROVE  PoolInv'
  <1> DEFINE f == guards[t][i].frame
  <1>1. f \in Frame
    BY GuardTyped DEF PoolInv
  <1>2. /\ written' = written + 1
        /\ frames' = [frames EXCEPT ![f].value = written']
        /\ UNCHANGED <<disk, meta, table, hand, guards, step, answer>>
    BY DEF Change, inner
  <1>3. Typed'
    <2>1. written' \in Nat
      BY <1>2 DEF PoolInv, Typed
    <2>2. frames' \in [Frame -> FrameType]
      BY <1>1, <1>2, <2>1 DEF PoolInv, Typed, FrameType
    <2>3. QED
      BY <1>2, <2>1, <2>2 DEF PoolInv, Typed
  <1>4. \A g \in Frame : frames'[g].page = frames[g].page
    BY <1>1, <1>2 DEF PoolInv, Typed, FrameType
  <1>5. PlacesAgree'
    BY <1>2, <1>4 DEF PoolInv, PlacesAgree
  <1>6. GuardsApart' /\ PinsExact'
    BY <1>2, SamePins DEF PoolInv
  <1>7. QED
    BY <1>3, <1>5, <1>6 DEF PoolInv

(* A sequence without one of its elements. *)
LEMMA Removed ==
  ASSUME NEW S, NEW s \in Seq(S), NEW i \in DOMAIN s
  PROVE  /\ RemoveAt(s, i) \in Seq(S) /\ Len(RemoveAt(s, i)) = Len(s) - 1
         /\ \A j \in 1..(Len(s) - 1) : RemoveAt(s, i)[j] = s[IF j < i THEN j ELSE j + 1]
  <1> DEFINE a == SubSeq(s, 1, i - 1)
             b == SubSeq(s, i + 1, Len(s))
  <1>1. i \in 1..Len(s) /\ Len(s) \in Nat
    OBVIOUS
  <1>2. a \in Seq(S) /\ Len(a) = i - 1 /\ \A j \in 1..(i - 1) : a[j] = s[j]
    BY <1>1
  <1>3. b \in Seq(S) /\ Len(b) = Len(s) - i /\ \A j \in 1..(Len(s) - i) : b[j] = s[i + j]
    BY <1>1
  <1>4. RemoveAt(s, i) = a \o b
    BY DEF RemoveAt
  <1> HIDE DEF a, b
  <1>5. a \o b \in Seq(S) /\ Len(a \o b) = Len(s) - 1
    BY <1>1, <1>2, <1>3
  <1>6. ASSUME NEW j \in 1..(Len(s) - 1)
        PROVE  (a \o b)[j] = s[IF j < i THEN j ELSE j + 1]
    <2>1. CASE j < i
      <3>1. (a \o b)[j] = a[j] /\ j \in 1..(i - 1)
        BY <1>1, <1>2, <1>3, <2>1
      <3>2. QED
        BY <1>2, <2>1, <3>1
    <2>2. CASE j >= i
      <3> DEFINE k == j - Len(a)
      <3>1. (a \o b)[j] = b[k]
        BY <1>1, <1>2, <1>3, <2>2
      <3>2. k \in 1..(Len(s) - i) /\ i + k = j + 1
        BY <1>1, <1>2, <2>2
      <3> HIDE DEF k
      <3>3. b[k] = s[i + k]
        BY <1>3, <3>2
      <3>4. (IF j < i THEN j ELSE j + 1) = i + k
        BY <1>1, <2>2, <3>2
      <3>5. QED
        BY <3>1, <3>3, <3>4
    <2>3. j < i \/ j >= i
      <3>1. i \in Int /\ j \in Int
        BY <1>1
      <3>2. QED
        BY <3>1
    <2>4. QED
      BY <2>1, <2>2, <2>3
  <1>7. QED
    BY <1>4, <1>5, <1>6

(* Who has given up the latch still has the pin. *)
LEMMA DropInv ==
  ASSUME PoolInv, NEW t \in Thread, NEW i \in DOMAIN guards[t], Drop(t, i)
  PROVE  PoolInv'
  <1> DEFINE f   == guards[t][i].frame
             S   == [frame : Frame, mode : Mode]
             gs  == guards[t]
             gsx == guards'[t]
  <1>1. f \in Frame /\ step[t] = Idle
    BY GuardTyped DEF PoolInv, Drop
  <1>2. /\ guards' = [guards EXCEPT ![t] = RemoveAt(@, i)]
        /\ Goes(t, Unpinning(f, guards[t][i].mode = "write"))
        /\ UNCHANGED <<disk, frames, meta, table, hand, answer, written>>
    BY DEF Drop, inner
  <1>3. /\ step' = [u \in Thread |-> step'[u]]
        /\ step'[t] = Unpinning(f, guards[t][i].mode = "write")
        /\ \A u \in Thread \ {t} : step'[u] = step[u]
    BY <1>2 DEF PoolInv, Typed, Goes
  <1>4. /\ gs \in Seq(S) /\ gsx = RemoveAt(gs, i)
        /\ \A u \in Thread \ {t} : guards'[u] = guards[u]
    BY <1>2 DEF PoolInv, Typed
  <1>5. /\ gsx \in Seq(S) /\ Len(gsx) = Len(gs) - 1
        /\ \A j \in 1..(Len(gs) - 1) : gsx[j] = gs[IF j < i THEN j ELSE j + 1]
    BY <1>4, Removed
  <1>6. /\ i \in 1..Len(gs) /\ Len(gs) \in Nat /\ DOMAIN gs = 1..Len(gs)
        /\ DOMAIN gsx = 1..(Len(gs) - 1)
    BY <1>4, <1>5
  <1>7. Typed'
    <2>1. guards' \in [Thread -> Seq(S)]
      BY <1>2, <1>4, <1>5 DEF PoolInv, Typed
    <2>2. StepTyped(step'[t])
      BY <1>1, <1>3 DEF StepTyped, Unpinning
    <2>3. \A u \in Thread : StepTyped(step'[u])
      BY <1>3, <2>2 DEF PoolInv, Typed
    <2>4. QED
      BY <1>2, <1>3, <2>1, <2>3 DEF PoolInv, Typed
  <1>8. PlacesAgree'
    BY <1>2 DEF PoolInv, PlacesAgree
  <1>9. \A j, k \in DOMAIN gs : gs[j].frame = gs[k].frame => j = k
    BY DEF PoolInv, GuardsApart
  <1>10. /\ Guards(t)' = Guards(t) \ {f} /\ f \in Guards(t)
         /\ \A u \in Thread \ {t} : Guards(u)' = Guards(u)
    <2>1. ASSUME NEW x \in Guards(t)'
          PROVE  x \in Guards(t) \ {f}
      <3>1. PICK j \in 1..(Len(gs) - 1) : x = gsx[j].frame
        BY <1>6 DEF Guards
      <3> DEFINE k == IF j < i THEN j ELSE j + 1
      <3>2. k \in DOMAIN gs /\ k # i
        BY <1>6
      <3>3. x = gs[k].frame
        BY <1>5, <3>1
      <3> HIDE DEF k
      <3>4. x # f
        BY <1>9, <3>2, <3>3
      <3>5. QED
        BY <3>2, <3>3, <3>4 DEF Guards
    <2>2. ASSUME NEW x \in Guards(t) \ {f}
          PROVE  x \in Guards(t)'
      <3>1. PICK k \in 1..Len(gs) : x = gs[k].frame
        BY <1>6 DEF Guards
      <3>2. k # i
        BY <3>1
      <3> DEFINE j == IF k < i THEN k ELSE k - 1
      <3>3. j \in 1..(Len(gs) - 1) /\ (IF j < i THEN j ELSE j + 1) = k
        BY <1>6, <3>2
      <3>4. gsx[j] = gs[k]
        BY <1>5, <3>3
      <3>5. QED
        BY <1>6, <3>1, <3>3, <3>4 DEF Guards
    <2>3. QED
      BY <1>4, <2>1, <2>2 DEF Guards
  <1>11. GuardsApart'
    <2>1. ASSUME NEW j \in DOMAIN gsx, NEW k \in DOMAIN gsx, gsx[j].frame = gsx[k].frame
          PROVE  j = k
      <3> DEFINE jj == IF j < i THEN j ELSE j + 1
                 kk == IF k < i THEN k ELSE k + 1
      <3>1. jj \in DOMAIN gs /\ kk \in DOMAIN gs /\ (jj = kk => j = k)
        BY <1>6
      <3>2. gsx[j] = gs[jj] /\ gsx[k] = gs[kk]
        BY <1>5, <1>6
      <3> HIDE DEF jj, kk
      <3>3. QED
        BY <1>9, <2>1, <3>1, <3>2
    <2>2. step'[t].at # "latch"
      BY <1>3 DEF Unpinning
    <2>3. \A u \in Thread \ {t} :
             /\ \A j, k \in DOMAIN guards'[u] : guards'[u][j].frame = guards'[u][k].frame => j = k
             /\ step'[u].at = "latch" => step'[u].frame \notin Guards(u)'
      BY <1>3, <1>4, <1>10 DEF PoolInv, GuardsApart
    <2>4. QED
      BY <2>1, <2>2, <2>3 DEF GuardsApart
  <1>12. PinsExact'
    <2> SUFFICES ASSUME NEW g \in Frame
                 PROVE  meta'[g].pins = Cardinality(Holding(g)') + Cardinality(Passing(g)')
      BY DEF PinsExact
    <2>1. Holding(g)' = IF g = f THEN Holding(g) \ {t} ELSE Holding(g)
      BY <1>10 DEF Holding
    <2>2. Passing(g)' = IF g = f THEN Passing(g) \cup {t} ELSE Passing(g)
      <3>1. t \in Passing(g)' <=> g = f
        BY <1>3 DEF Passing, Unpinning
      <3>2. \A u \in Thread \ {t} : u \in Passing(g)' <=> u \in Passing(g)
        BY <1>3 DEF Passing
      <3>3. t \notin Passing(g)
        BY <1>1 DEF Passing, Idle
      <3>4. Passing(g) \subseteq Thread /\ Passing(g)' \subseteq Thread
        BY DEF Passing
      <3>5. QED
        BY <3>1, <3>2, <3>3, <3>4
    <2>3. (g = f => t \in Holding(g)) /\ t \notin Passing(g) /\ meta' = meta
      BY <1>1, <1>2, <1>10 DEF Holding, Passing, Idle
    <2>4. /\ meta[g].pins = Cardinality(Holding(g)) + Cardinality(Passing(g))
          /\ IsFiniteSet(Passing(g)) /\ IsFiniteSet(Holding(g))
          /\ Cardinality(Holding(g)) \in Nat /\ Cardinality(Passing(g)) \in Nat
      BY PinsCount DEF PoolInv
    <2>5. g = f => /\ Cardinality(Holding(g) \ {t}) = Cardinality(Holding(g)) - 1
                   /\ Cardinality(Passing(g) \cup {t}) = Cardinality(Passing(g)) + 1
      BY <2>3, <2>4, FS_AddElement, FS_RemoveElement
    <2>6. QED
      BY <2>1, <2>2, <2>3, <2>4, <2>5
  <1>13. QED
    BY <1>7, <1>8, <1>11, <1>12 DEF PoolInv

(* The greater one of zero and a natural number. *)
LEMMA MaxOfNatural ==
  ASSUME NEW n \in Nat
  PROVE  Max({0, n}) = n
  <1>1. n \in {0, n} /\ \A k \in {0, n} : n >= k
    OBVIOUS
  <1>2. \A m \in {0, n} : (\A k \in {0, n} : m >= k) => m = n
    OBVIOUS
  <1>3. QED
    BY <1>1, <1>2 DEF Max

(* The pin goes last, and it is there to go. *)
LEMMA UnpinInv ==
  ASSUME PoolInv, NEW t \in Thread, Unpin(t)
  PROVE  PoolInv'
  <1> DEFINE f == step[t].frame
             d == Marked(meta[f].dirty, step[t].dirty)
  <1>1. step[t].at = "unpin" /\ f \in Frame /\ step[t].dirty \in BOOLEAN
    BY DEF PoolInv, Typed, StepTyped, Unpin
  <1>2. meta[f] \in MetaType /\ meta[f].pins \in Nat /\ d \in BOOLEAN
    BY <1>1 DEF PoolInv, Typed, MetaType, Marked
  <1>3. /\ Goes(t, Idle)
        /\ UNCHANGED <<disk, frames, table, hand, guards, answer, written>>
        /\ meta' = [meta EXCEPT ![f].pins = Max({0, @ - 1}), ![f].dirty = Marked(@, step[t].dirty)]
    BY DEF Unpin
  <1>4. /\ step' = [u \in Thread |-> step'[u]]
        /\ step'[t] = Idle /\ \A u \in Thread \ {t} : step'[u] = step[u]
    BY <1>3 DEF PoolInv, Typed, Goes
  <1>5. /\ \A g \in Frame : /\ meta[g].pins = Cardinality(Holding(g)) + Cardinality(Passing(g))
                            /\ IsFiniteSet(Passing(g))
                            /\ Cardinality(Holding(g)) \in Nat /\ Cardinality(Passing(g)) \in Nat
    BY PinsCount DEF PoolInv
  <1>6. t \in Passing(f)
    BY <1>1 DEF Passing
  <1>7. Cardinality(Passing(f) \ {t}) = Cardinality(Passing(f)) - 1
        /\ Cardinality(Passing(f) \ {t}) \in Nat
    BY <1>1, <1>5, <1>6, FS_RemoveElement, FS_CardinalityType
  <1>8. meta[f].pins - 1 \in Nat
    BY <1>1, <1>2, <1>5, <1>7
  <1>9. Max({0, meta[f].pins - 1}) = meta[f].pins - 1
    BY <1>8, MaxOfNatural
  <1>10. meta' = [meta EXCEPT ![f] = [[meta[f] EXCEPT !.pins = meta[f].pins - 1] EXCEPT !.dirty = d]]
    BY <1>1, <1>2, <1>3, <1>9 DEF PoolInv, Typed, MetaType
  <1> HIDE DEF d
  <1>11. Typed'
    <2>1. [meta[f] EXCEPT !.pins = meta[f].pins - 1] \in MetaType
      BY <1>2, <1>8 DEF MetaType
    <2>2. [[meta[f] EXCEPT !.pins = meta[f].pins - 1] EXCEPT !.dirty = d] \in MetaType
      BY <1>2, <2>1 DEF MetaType
    <2>3. meta' \in [Frame -> MetaType]
      BY <1>10, <2>2 DEF PoolInv, Typed
    <2>4. StepTyped(step'[t])
      BY <1>4 DEF StepTyped, Idle
    <2>5. \A u \in Thread : StepTyped(step'[u])
      BY <1>4, <2>4 DEF PoolInv, Typed
    <2>6. QED
      BY <1>3, <1>4, <2>3, <2>5 DEF PoolInv, Typed
  <1>12. \A g \in Frame : /\ meta'[g].occupant = meta[g].occupant
                          /\ meta'[g].pins = IF g = f THEN meta[g].pins - 1 ELSE meta[g].pins
    BY <1>1, <1>2, <1>10 DEF PoolInv, Typed, MetaType
  <1>13. PlacesAgree'
    <2>1. \A q \in Page : table[q] \in Frame \cup {Nil}
      BY DEF PoolInv, Typed
    <2>2. \A q \in Page : table'[q] # Nil => meta'[table'[q]].occupant = q
      BY <1>3, <1>12, <2>1 DEF PoolInv, PlacesAgree
    <2>3. ASSUME NEW g \in Frame
          PROVE  /\ frames'[g].page = meta'[g].occupant
                 /\ IF meta'[g].occupant = Nil THEN meta'[g].pins = 0
                                               ELSE table'[meta'[g].occupant] = g
      <3>1. /\ frames[g].page = meta[g].occupant
            /\ IF meta[g].occupant = Nil THEN meta[g].pins = 0
                                         ELSE table[meta[g].occupant] = g
        BY DEF PoolInv, PlacesAgree
      <3>2. meta[f].pins # 0
        BY <1>2, <1>8
      <3>3. QED
        BY <1>3, <1>12, <3>1, <3>2
    <2>4. QED
      BY <2>2, <2>3 DEF PlacesAgree
  <1>14. GuardsApart'
    <2>1. \A u \in Thread : Guards(u)' = Guards(u)
      BY <1>3 DEF Guards
    <2>2. \A u \in Thread : step'[u].at = "latch" => step'[u].frame \notin Guards(u)
      BY <1>4 DEF PoolInv, GuardsApart, Idle
    <2>3. QED
      BY <1>3, <2>1, <2>2 DEF PoolInv, GuardsApart
  <1>15. PinsExact'
    <2> SUFFICES ASSUME NEW g \in Frame
                 PROVE  meta'[g].pins = Cardinality(Holding(g)') + Cardinality(Passing(g)')
      BY DEF PinsExact
    <2>1. Holding(g)' = Holding(g)
      BY <1>3 DEF Holding, Guards
    <2>2. Passing(g)' = IF g = f THEN Passing(g) \ {t} ELSE Passing(g)
      <3>1. t \notin Passing(g)' /\ (t \in Passing(g) <=> g = f)
        BY <1>1, <1>4 DEF Passing, Idle
      <3>2. \A u \in Thread \ {t} : u \in Passing(g)' <=> u \in Passing(g)
        BY <1>4 DEF Passing
      <3>3. Passing(g) \subseteq Thread /\ Passing(g)' \subseteq Thread
        BY DEF Passing
      <3>4. QED
        BY <3>1, <3>2, <3>3
    <2>3. meta'[g].pins = IF g = f THEN meta[g].pins - 1 ELSE meta[g].pins
      BY <1>12
    <2>4. /\ meta[g].pins = Cardinality(Holding(g)) + Cardinality(Passing(g))
          /\ Cardinality(Holding(g)) \in Nat /\ Cardinality(Passing(g)) \in Nat
      BY <1>5
    <2>5. Cardinality(Passing(g)') = IF g = f THEN Cardinality(Passing(g)) - 1
                                             ELSE Cardinality(Passing(g))
      BY <1>7, <2>2
    <2>6. Cardinality(Holding(g)') = Cardinality(Holding(g))
      BY <2>1
    <2>7. QED
      BY <2>3, <2>4, <2>5, <2>6
  <1>16. QED
    BY <1>11, <1>13, <1>14, <1>15 DEF PoolInv

------------------------------------------------------------------------------
(* Flushing.                                                               *)

(* Listing the dirty frames changes none of them. *)
LEMMA FlushInv ==
  ASSUME PoolInv, NEW t \in Thread, Flush(t)
  PROVE  PoolInv'
  <1>1. /\ step[t] = Idle /\ Dirty # {}
        /\ UNCHANGED <<disk, frames, meta, table, hand, guards, answer, written>>
    BY DEF Flush, inner
  <1>2. PICK fs \in {Dirty} \cup {{f} : f \in Dirty} : Goes(t, Flushing("flush", fs))
    BY DEF Flush
  <1>3. fs \in SUBSET Frame /\ fs # {}
    BY <1>1 DEF Dirty
  <1>4. StepTyped(Flushing("flush", fs)) /\ Flushing("flush", fs).at = "flush"
    BY <1>3 DEF StepTyped, Flushing
  <1>5. step[t].at = "idle"
    BY <1>1 DEF Idle
  <1>6. /\ GuardsApart' /\ PinsExact'
        /\ step' = [u \in Thread |-> step'[u]] /\ \A u \in Thread : StepTyped(step'[u])
    BY <1>1, <1>2, <1>4, <1>5, WithoutPins
  <1>7. Typed'
    BY <1>1, <1>6 DEF PoolInv, Typed
  <1>8. PlacesAgree'
    BY <1>1 DEF PoolInv, PlacesAgree
  <1>9. QED
    BY <1>6, <1>7, <1>8 DEF PoolInv

(* A thread that flushes is at a frame. *)
LEMMA FlushedFrame ==
  ASSUME Typed, NEW t \in Thread, Flusher(t)
  PROVE  Min(step[t].todo) \in Frame /\ Min(step[t].todo) \in step[t].todo
         /\ step[t].todo \in SUBSET Frame
  <1>1. step[t].todo \in SUBSET Frame /\ step[t].todo # {}
    BY DEF Flusher, Typed, StepTyped
  <1>2. QED
    BY <1>1, MinOfFrames

(* A frame that is written to the disk stays as it is. *)
LEMMA FlushFrameInv ==
  ASSUME PoolInv, NEW t \in Thread, FlushFrame(t)
  PROVE  PoolInv'
  <1> DEFINE f == Min(step[t].todo)
             place == Flushing("clear", step[t].todo)
  <1>1. /\ step[t].at = "flush" /\ Goes(t, place)
        /\ disk' = IF frames[f].page = Nil THEN disk
                   ELSE [disk EXCEPT ![frames[f].page] = frames[f].value]
        /\ UNCHANGED <<frames, meta, table, hand, guards, answer, written>>
    BY DEF FlushFrame, inner
  <1>2. StepTyped(step[t])
    BY DEF PoolInv, Typed
  <1>3. StepTyped(place) /\ place.at = "clear"
    BY <1>1, <1>2 DEF StepTyped, Flushing
  <1>4. f \in Frame
    BY <1>1, FlushedFrame DEF PoolInv, Flusher
  <1> HIDE DEF place, f
  <1>5. /\ GuardsApart' /\ PinsExact'
        /\ step' = [u \in Thread |-> step'[u]] /\ \A u \in Thread : StepTyped(step'[u])
    BY <1>1, <1>3, WithoutPins
  <1>6. disk' \in [Page -> Nat]
    <2>1. frames[f].page \in Page \cup {Nil} /\ frames[f].value \in Nat
      BY <1>4 DEF PoolInv, Typed, FrameType
    <2>2. QED
      BY <1>1, <2>1 DEF PoolInv, Typed
  <1>7. Typed'
    BY <1>1, <1>5, <1>6 DEF PoolInv, Typed
  <1>8. PlacesAgree'
    BY <1>1 DEF PoolInv, PlacesAgree
  <1>9. QED
    BY <1>5, <1>7, <1>8 DEF PoolInv

(* Only the mark goes. *)
LEMMA ClearDirtyInv ==
  ASSUME PoolInv, NEW t \in Thread, ClearDirty(t)
  PROVE  PoolInv'
  <1> DEFINE f == Min(step[t].todo)
             rest == step[t].todo \ {f}
             place == IF rest = {} THEN Idle ELSE Flushing("flush", rest)
  <1>1. /\ step[t].at = "clear" /\ Goes(t, place)
        /\ meta' = [meta EXCEPT ![f].dirty = FALSE]
        /\ UNCHANGED <<disk, frames, table, hand, guards, answer, written>>
    BY DEF ClearDirty
  <1>2. f \in Frame /\ step[t].todo \in SUBSET Frame
    BY <1>1, FlushedFrame DEF PoolInv, Flusher
  <1>3. StepTyped(place) /\ place.at \in {"idle", "flush"}
    BY <1>2 DEF StepTyped, Flushing, Idle
  <1> HIDE DEF place, f
  <1>4. /\ meta' \in [Frame -> MetaType] /\ hand' \in Frame
        /\ \A g \in Frame : meta'[g].pins = meta[g].pins /\ meta'[g].occupant = meta[g].occupant
    BY <1>1, <1>2 DEF PoolInv, Typed, MetaType
  <1>5. QED
    BY <1>1, <1>3, <1>4, MovesNothing

------------------------------------------------------------------------------
(* The sweep, step by step.                                                *)

(* Who has the mutex finds nobody sweeping, and leaves nobody sweeping. *)
LEMMA NobodySweeps ==
  ASSUME Typed, NEW t \in Thread, NEW place, Goes(t, place), place.at # "evict",
         \A u \in Thread \ {t} : step[u].at # "evict"
  PROVE  SweepRight'
  <1>1. \A u \in Thread : step'[u].at # "evict"
    BY DEF Typed, Goes
  <1>2. QED
    BY <1>1 DEF SweepRight

(* What happens without the mutex does not touch the pool's records. *)
LEMMA SweepUndisturbed ==
  ASSUME SweepRight, UNCHANGED <<meta, table, hand>>,
         \A u \in Thread : step'[u].at = "evict" => step'[u] = step[u]
  PROVE  SweepRight'
  <1>1. Free' = Free /\ \A f \in Frame : Needed(f)' = Needed(f)
    BY DEF Free, Needed, Ahead
  <1>2. QED
    BY <1>1 DEF SweepRight

(* The same of a thread that does not sweep. *)
LEMMA SweepUnseen ==
  ASSUME Typed, SweepRight, UNCHANGED <<meta, table, hand>>,
         NEW t \in Thread, NEW place, Goes(t, place), place.at # "evict"
  PROVE  SweepRight'
  <1>1. \A u \in Thread : step'[u].at = "evict" => step'[u] = step[u]
    BY DEF Typed, Goes
  <1>2. QED
    BY <1>1, SweepUndisturbed

(* Two rounds are enough from wherever the hand stands. *)
LEMMA EvictSweep ==
  ASSUME PoolInv, NEW t \in Thread, NEW p \in Page, NEW mode \in Mode, Evict(t, p, mode)
  PROVE  SweepRight'
  <1> DEFINE place == Sweeping(p, mode, Rounds)
  <1>1. /\ \A u \in Thread : step[u].at # "evict"
        /\ table[p] = Nil /\ Free = {} /\ Goes(t, place) /\ UNCHANGED <<meta, table, hand>>
    BY DEF Evict, Calls, MutexFree, inner
  <1>2. step'[t] = place /\ \A u \in Thread \ {t} : step'[u] = step[u]
    BY <1>1 DEF PoolInv, Typed, Goes
  <1>3. place.page = p /\ place.left = Rounds
    BY DEF Sweeping
  <1>4. Free' = Free /\ \A f \in Frame : Needed(f)' = Needed(f)
    BY <1>1 DEF Free, Needed, Ahead
  <1>5. \A f \in Frame : Needed(f) <= Rounds
    BY SizesAssumption DEF Needed, Ahead, Rounds, Frame, PoolInv, Typed
  <1> HIDE DEF place
  <1>6. QED
    BY <1>1, <1>2, <1>3, <1>4, <1>5 DEF SweepRight

(* A turn brings the hand closer to every frame but the one it leaves, and *)
(* that one has its reference bit no more, or is in use.                   *)
LEMMA SpareSweep ==
  ASSUME PoolInv, SweepRight, NEW t \in Thread, PassOver(t) \/ Spare(t)
  PROVE  SweepRight'
  <1> DEFINE place == Sweeping(step[t].page, step[t].mode, step[t].left - 1)
  <1>1. /\ step[t].at = "evict" /\ step[t].left > 0 /\ Goes(t, place)
        /\ hand' = (hand + 1) % NFrames /\ table' = table
        /\ \/ InUse(hand) /\ meta' = meta
           \/ meta[hand].referenced /\ meta' = [meta EXCEPT ![hand].referenced = FALSE]
    BY DEF PassOver, Spare, Turns, GoesOn
  <1>2. step'[t] = place /\ \A u \in Thread \ {t} : step'[u] = step[u]
    BY <1>1 DEF PoolInv, Typed, Goes
  <1>3. place.page = step[t].page /\ place.left = step[t].left - 1 /\ step[t].left \in Nat
    BY <1>1 DEF Sweeping, PoolInv, Typed, StepTyped
  <1> HIDE DEF place
  <1>4. hand \in Frame /\ meta \in [Frame -> MetaType]
    BY DEF PoolInv, Typed
  <1>5. hand' = IF hand + 1 < NFrames THEN hand + 1 ELSE 0
    BY <1>1, <1>4, HandMoves
  <1>6. \A g \in Frame : meta'[g].pins = meta[g].pins /\ meta'[g].occupant = meta[g].occupant
    BY <1>1, <1>4, MostStays
  <1>7. /\ \A u \in Thread : step[u].at = "evict" => u = t
        /\ Free = {} /\ table[step[t].page] = Nil
        /\ \A f \in Frame : meta[f].pins = 0 => Needed(f) <= step[t].left
    BY <1>1 DEF SweepRight
  <1>8. Free' = {}
    BY <1>6, <1>7 DEF Free
  <1>9. ASSUME NEW f \in Frame, meta[f].pins = 0
        PROVE  Needed(f)' <= step[t].left - 1
    <2>1. Needed(f) <= step[t].left
      BY <1>7, <1>9
    <2>2. CASE f # hand
      <3>1. meta'[f].referenced = meta[f].referenced
        BY <1>1, <1>4, <2>2
      <3>2. Ahead(f)' = Ahead(f) - 1
        BY <1>4, <1>5, <2>2, SizesAssumption DEF Ahead, Frame
      <3>3. Ahead(f) \in Int /\ NFrames \in Nat
        BY <1>4, SizesAssumption DEF Ahead, Frame
      <3>4. QED
        BY <1>3, <2>1, <3>1, <3>2, <3>3 DEF Needed
    <2>3. CASE f = hand
      <3>1. ~ InUse(hand)
        BY <1>7, <1>9, <2>3 DEF InUse, Free
      <3>2. meta[f].referenced /\ ~ meta'[f].referenced
        <4>1. meta[hand].referenced /\ meta' = [meta EXCEPT ![hand].referenced = FALSE]
          BY <1>1, <3>1
        <4>2. ~ meta'[hand].referenced
          BY <1>4, <4>1, BitCleared
        <4>3. QED
          BY <2>3, <4>1, <4>2
      <3>3. Needed(f) = NFrames + 1 /\ Ahead(f)' = NFrames - 1
        BY <1>4, <1>5, <2>3, <3>2, SizesAssumption DEF Needed, Ahead, Frame
      <3>4. Needed(f)' = NFrames
        BY <3>2, <3>3, SizesAssumption DEF Needed
      <3>5. QED
        BY <1>3, <2>1, <3>3, <3>4, SizesAssumption
    <2>4. QED
      BY <2>2, <2>3
  <1>10. \A u \in Thread : step'[u].at = "evict" => u = t
    BY <1>2, <1>7
  <1>11. table'[step'[t].page] = Nil
    BY <1>1, <1>2, <1>3, <1>7
  <1>12. \A f \in Frame : meta'[f].pins = 0 => Needed(f)' <= step'[t].left
    BY <1>2, <1>3, <1>6, <1>9
  <1>13. QED
    BY <1>8, <1>10, <1>11, <1>12 DEF SweepRight

(* The sweep ends. *)
LEMMA TakeSweep ==
  ASSUME PoolInv, SweepRight, NEW t \in Thread, Take(t) \/ PoolFull(t)
  PROVE  SweepRight'
  <1>1. PICK place : Goes(t, place) /\ place.at # "evict"
    BY DEF Take, PoolFull, Load, Latching, Idle
  <1>2. \A u \in Thread \ {t} : step[u].at # "evict"
    BY DEF Take, Victim, Turns, PoolFull, SweepRight
  <1>3. QED
    BY <1>1, <1>2, NobodySweeps DEF PoolInv

(* Steps that need the mutex. *)
LEMMA LockedSweep ==
  ASSUME PoolInv, NEW t \in Thread,
         \/ \E p \in Page, mode \in Mode : Hit(t, p, mode) \/ LoadFree(t, p, mode)
         \/ Unpin(t) \/ Flush(t) \/ ClearDirty(t)
  PROVE  SweepRight'
  <1>1. MutexFree
    BY DEF Hit, LoadFree, Calls, Unpin, Flush, ClearDirty
  <1>2. PICK place : Goes(t, place) /\ place.at # "evict"
    <2>1. CASE \E p \in Page, mode \in Mode : Hit(t, p, mode) \/ LoadFree(t, p, mode)
      BY <2>1 DEF Hit, LoadFree, Load, Latching
    <2>2. CASE Unpin(t)
      BY <2>2 DEF Unpin, Idle
    <2>3. CASE Flush(t)
      <3>1. PICK fs : Goes(t, Flushing("flush", fs))
        BY <2>3 DEF Flush
      <3>2. Flushing("flush", fs).at # "evict"
        BY DEF Flushing
      <3>3. QED
        BY <3>1, <3>2
    <2>4. CASE ClearDirty(t)
      <3> DEFINE rest == step[t].todo \ {Min(step[t].todo)}
      <3>1. Goes(t, IF rest = {} THEN Idle ELSE Flushing("flush", rest))
        BY <2>4 DEF ClearDirty
      <3>2. (IF rest = {} THEN Idle ELSE Flushing("flush", rest)).at # "evict"
        BY DEF Idle, Flushing
      <3>3. QED
        BY <3>1, <3>2
    <2>5. QED
      BY <2>1, <2>2, <2>3, <2>4
  <1>3. QED
    BY <1>1, <1>2, NobodySweeps DEF PoolInv, MutexFree

(* Steps that do not: latches, changes and writes to the disk. *)
LEMMA UnlockedSweep ==
  ASSUME PoolInv, SweepRight, NEW t \in Thread,
         \/ Latch(t) \/ FlushFrame(t)
         \/ \E i \in DOMAIN guards[t] : Change(t, i) \/ Drop(t, i)
  PROVE  SweepRight'
  <1>1. CASE Latch(t)
    BY <1>1, SweepUnseen DEF PoolInv, Latch, Idle, inner
  <1>2. CASE FlushFrame(t)
    BY <1>2, SweepUnseen DEF PoolInv, FlushFrame, Flushing, inner
  <1>3. ASSUME NEW i \in DOMAIN guards[t], Change(t, i)
        PROVE  SweepRight'
    BY <1>3, SweepUndisturbed DEF Change, inner
  <1>4. ASSUME NEW i \in DOMAIN guards[t], Drop(t, i)
        PROVE  SweepRight'
    BY <1>4, SweepUnseen DEF PoolInv, Drop, Unpinning, inner
  <1>5. QED
    BY <1>1, <1>2, <1>3, <1>4

------------------------------------------------------------------------------
(* The theorems.                                                           *)

(* Every step keeps the invariants. *)
LEMMA PoolInvNext == PoolInv /\ SweepRight /\ [Next]_vars => PoolInv' /\ SweepRight'
  <1> SUFFICES ASSUME PoolInv, SweepRight, [Next]_vars PROVE PoolInv' /\ SweepRight'
    OBVIOUS
  <1>1. CASE Next
    <2>1. PICK t \in Thread :
             \/ \E p \in Page, mode \in Mode :
                   Hit(t, p, mode) \/ LoadFree(t, p, mode) \/ Evict(t, p, mode)
             \/ PassOver(t) \/ Spare(t) \/ Take(t) \/ PoolFull(t)
             \/ \E i \in DOMAIN guards[t] : Change(t, i) \/ Drop(t, i)
             \/ Latch(t) \/ Unpin(t)
             \/ Flush(t) \/ FlushFrame(t) \/ ClearDirty(t)
      BY <1>1 DEF Next
    <2>2. ASSUME NEW p \in Page, NEW mode \in Mode,
                 Hit(t, p, mode) \/ LoadFree(t, p, mode) \/ Evict(t, p, mode)
          PROVE  PoolInv' /\ SweepRight'
      BY <2>2, HitInv, LoadFreeInv, EvictInv, LockedSweep, EvictSweep
    <2>3. CASE PassOver(t) \/ Spare(t) \/ Take(t) \/ PoolFull(t)
      BY <2>3, SpareInv, TakeInv, PoolFullInv, SpareSweep, TakeSweep
    <2>4. ASSUME NEW i \in DOMAIN guards[t], Change(t, i) \/ Drop(t, i)
          PROVE  PoolInv' /\ SweepRight'
      BY <2>4, ChangeInv, DropInv, UnlockedSweep
    <2>5. CASE Latch(t) \/ Unpin(t) \/ Flush(t) \/ FlushFrame(t) \/ ClearDirty(t)
      BY <2>5, LatchInv, UnpinInv, FlushInv, FlushFrameInv, ClearDirtyInv, LockedSweep, UnlockedSweep
    <2>6. QED
      BY <2>1, <2>2, <2>3, <2>4, <2>5
  <1>2. CASE UNCHANGED vars
    <2>1. Typed'
      BY <1>2 DEF vars, PoolInv, Typed
    <2>2. PlacesAgree'
      BY <1>2 DEF vars, PoolInv, PlacesAgree
    <2>3. GuardsApart' /\ PinsExact'
      BY <1>2, SamePins DEF vars, PoolInv
    <2>4. SweepRight'
      BY <1>2, SweepUndisturbed DEF vars
    <2>5. QED
      BY <2>1, <2>2, <2>3, <2>4 DEF PoolInv
  <1>3. QED
    BY <1>1, <1>2

(* The invariants hold. *)
LEMMA PoolInvHolds == Spec => [](PoolInv /\ SweepRight)
  <1>1. Init => SweepRight
    BY DEF Init, SweepRight, Idle
  <1>2. QED
    BY <1>1, PoolInvInit, PoolInvNext, PTL DEF Spec

(* The page table, the occupants and the frames agree on where each page is, *)
(* whatever the threads find, load, evict and flush (locate_or_load, evict). *)
THEOREM PlacesRight == Spec => []TypeOK
  <1>1. PoolInv => TypeOK
    <2> SUFFICES ASSUME PoolInv PROVE TypeOK
      OBVIOUS
    <2>1. QED
      BY DEF PoolInv, Typed, PlacesAgree, TypeOK
  <1>2. QED
    BY <1>1, PoolInvHolds, PTL

(* A frame has exactly the pins of those that use it: none is lost between   *)
(* the mutex and the latch, and none is left behind (drop, unpin).           *)
THEOREM PinsAreExact == Spec => []PinsExact
  <1>1. PoolInv => PinsExact
    BY DEF PoolInv
  <1>2. QED
    BY <1>1, PoolInvHolds, PTL

(* Two rounds of the clock find a frame if there is one that nobody uses: the *)
(* loop of evict runs out of turns, and a call fails for want of a frame,     *)
(* only if every frame is pinned.                                             *)
THEOREM FullOnlyIfPinned == Spec => FullMeansPinned
  <1>1. ASSUME PoolInv, SweepRight, [Next]_vars, NEW t \in Thread,
               answer[t] = "ok", answer'[t] = "full"
        PROVE  Unpinned = {}
    <2>1. answer = [u \in Thread |-> answer[u]]
      BY <1>1 DEF PoolInv, Typed
    <2>2. ASSUME NEW u, Answers(u, "ok")
          PROVE  FALSE
      BY <1>1, <2>1, <2>2 DEF Answers
    <2>3. answer' # answer
      BY <1>1
    <2>4. CASE Next
      <3>1. PICK u \in Thread :
               \/ \E p \in Page, mode \in Mode :
                     Hit(u, p, mode) \/ LoadFree(u, p, mode) \/ Evict(u, p, mode)
               \/ PassOver(u) \/ Spare(u) \/ Take(u) \/ PoolFull(u)
               \/ \E i \in DOMAIN guards[u] : Change(u, i) \/ Drop(u, i)
               \/ Latch(u) \/ Unpin(u)
               \/ Flush(u) \/ FlushFrame(u) \/ ClearDirty(u)
        BY <2>4 DEF Next
      <3>2. PoolFull(u)
        BY <2>2, <2>3, <3>1
           DEF Hit, LoadFree, Evict, PassOver, Spare, Take, GoesOn, Load, Change, Drop, Latch,
               Unpin, Flush, FlushFrame, ClearDirty
      <3>3. \A f \in Frame : meta[f].pins = 0 => Needed(f) <= 0
        <4>1. u \in Thread /\ step[u].at = "evict" /\ step[u].left = 0
          BY <3>2 DEF PoolFull
        <4>2. QED
          BY <1>1, <4>1 DEF SweepRight
      <3>4. \A f \in Frame : Needed(f) > 0
        BY <1>1, SizesAssumption DEF Needed, Ahead, Frame, PoolInv, Typed
      <3>5. \A f \in Frame : Needed(f) \in Int
        BY <1>1, SizesAssumption DEF Needed, Ahead, Frame, PoolInv, Typed
      <3>6. QED
        BY <3>3, <3>4, <3>5 DEF Unpinned
    <2>5. QED
      BY <1>1, <2>3, <2>4 DEF vars
  <1>2. PoolInv /\ SweepRight /\ [Next]_vars =>
           \A t \in Thread : answer[t] = "ok" /\ answer'[t] = "full" => Unpinned = {}
    BY <1>1
  <1>3. QED
    BY <1>2, PoolInvHolds, PTL DEF Spec, FullMeansPinned

------------------------------------------------------------------------------
(* The pool implements the store.                                          *)

(* Who may have changed a frame that is not marked as dirty yet. *)
WriteHeld(f) ==
    \E t \in Thread : \E i \in DOMAIN guards[t] :
        guards[t][i].frame = f /\ guards[t][i].mode = "write"
Marking(f) == \E t \in Thread : step[t].at = "unpin" /\ step[t].frame = f /\ step[t].dirty

(* Nobody writes while a thread flushes; a page that is in a clean frame,  *)
(* or in one that has just been flushed, is on the disk as it is there.    *)
Alone == \A t, u \in Thread : ~ (Flusher(t) /\ Writer(u))

CleanOnDisk ==
    \A f \in Frame :
        meta[f].occupant # Nil /\ ~ meta[f].dirty /\ ~ WriteHeld(f) /\ ~ Marking(f)
            => frames[f].value = disk[meta[f].occupant]

FlushedOnDisk ==
    \A t \in Thread :
        step[t].at = "clear" => LET f == Min(step[t].todo) IN
            meta[f].occupant # Nil => frames[f].value = disk[meta[f].occupant]

CleanInv == Alone /\ CleanOnDisk /\ FlushedOnDisk

(* The initial states satisfy it. *)
LEMMA CleanInvInit == Init => CleanInv
  BY DEF Init, CleanInv, Alone, CleanOnDisk, FlushedOnDisk, Flusher, EmptyMeta, Idle

(* Who may load a page: a thread that has not called yet, or one that sweeps *)
(* for it.                                                                   *)
MayLoad(t, mode) ==
    \/ step[t] = Idle /\ (FlushesAlone /\ mode = "write" => \A u \in Thread : ~ Flusher(u))
    \/ step[t].at = "evict" /\ step[t].mode = mode

(* What loading a page does, whether its frame was free or another page's. *)
LEMMA Loaded ==
  ASSUME PoolInv, SweepRight, NEW t \in Thread, NEW p \in Page, NEW mode \in Mode,
         LoadFree(t, p, mode) \/ (Take(t) /\ step[t].page = p /\ step[t].mode = mode)
  PROVE  \E f \in Frame :
            /\ MayLoad(t, mode) /\ table[p] = Nil /\ meta[f].pins = 0
            /\ frames'[f].value = disk'[p] /\ \A g \in Frame \ {f} : frames'[g] = frames[g]
            /\ \A g \in Frame \ {f} : meta'[g].occupant = meta[g].occupant
                                      /\ meta'[g].dirty = meta[g].dirty
            /\ meta'[f].occupant = p
            /\ \A q \in Page :
                  /\ table'[q] = IF q = p THEN f
                                 ELSE IF q = meta[f].occupant THEN Nil ELSE table[q]
                  /\ disk'[q] = IF q = meta[f].occupant /\ meta[f].dirty THEN frames[f].value
                                                                        ELSE disk[q]
            /\ Goes(t, Latching(f, mode)) /\ UNCHANGED guards
  <1>0. disk \in [Page -> Nat] /\ frames \in [Frame -> FrameType] /\ table \in [Page -> Frame \cup {Nil}]
        /\ meta \in [Frame -> MetaType]
    BY DEF PoolInv, Typed
  <1>1. CASE LoadFree(t, p, mode)
    <2> DEFINE f == Min(Free)
    <2>1. f \in Frame /\ meta[f].occupant = Nil
      BY <1>1, MinOfFrames DEF LoadFree, Free
    <2>2. meta[f].pins = 0
      BY <2>1 DEF PoolInv, PlacesAgree
    <2>3. /\ MayLoad(t, mode) /\ table[p] = Nil
          /\ frames' = [frames EXCEPT ![f] = [page |-> p, value |-> disk[p]]]
          /\ meta' = Pinned([meta EXCEPT ![f] = [EmptyMeta EXCEPT !.occupant = p]], f)
          /\ table' = [table EXCEPT ![p] = f]
          /\ Goes(t, Latching(f, mode)) /\ disk' = disk /\ UNCHANGED guards
      BY <1>1 DEF LoadFree, Load, Calls, MayLoad
    <2> HIDE DEF f
    <2>4. meta' = [meta EXCEPT ![f] = [occupant |-> p, pins |-> 1, dirty |-> FALSE, referenced |-> TRUE]]
      BY <2>1, <2>3, <1>0 DEF Pinned, EmptyMeta
    <2>5. \A q \in Page : q # meta[f].occupant
      BY <2>1, NilApart
    <2>6. \A g \in Frame \ {f} : frames'[g] = frames[g] /\ meta'[g] = meta[g]
      BY <1>0, <2>1, <2>3, <2>4
    <2>7. frames'[f].value = disk'[p] /\ meta'[f].occupant = p
      <3>1. frames'[f].value = disk'[p]
        BY <1>0, <2>1, <2>3
      <3>2. meta'[f] = [occupant |-> p, pins |-> 1, dirty |-> FALSE, referenced |-> TRUE]
        BY <1>0, <2>1, <2>4
      <3>3. QED
        BY <3>1, <3>2
    <2>8. \A q \in Page : table'[q] = (IF q = p THEN f ELSE table[q]) /\ disk'[q] = disk[q]
      BY <1>0, <2>3
    <2>9. \A q \in Page : /\ table'[q] = IF q = p THEN f
                                          ELSE IF q = meta[f].occupant THEN Nil ELSE table[q]
                          /\ disk'[q] = IF q = meta[f].occupant /\ meta[f].dirty
                                        THEN frames[f].value ELSE disk[q]
      BY <2>5, <2>8
    <2>10. QED
      BY <2>1, <2>2, <2>3, <2>6, <2>7, <2>9
  <1>2. CASE Take(t) /\ step[t].page = p /\ step[t].mode = mode
    <2> DEFINE f == hand
    <2>1. /\ step[t].at = "evict" /\ ~ InUse(f)
          /\ frames' = [frames EXCEPT ![f] = [page |-> p, value |-> WrittenBack(f)[p]]]
          /\ meta' = Pinned([meta EXCEPT ![f] = [EmptyMeta EXCEPT !.occupant = p]], f)
          /\ table' = [Forgotten(f) EXCEPT ![p] = f]
          /\ Goes(t, Latching(f, mode)) /\ disk' = WrittenBack(f) /\ UNCHANGED guards
      BY <1>2 DEF Take, Victim, Turns, Load
    <2>0. MayLoad(t, mode) /\ table[p] = Nil
      BY <1>2, <2>1 DEF MayLoad, SweepRight
    <2>2. f \in Frame /\ meta[f].pins = 0 /\ meta[f].occupant # Nil
      <3>1. hand \in Frame
        BY DEF PoolInv, Typed
      <3>2. meta[hand].pins \in Nat
        BY <1>0, <3>1 DEF MetaType
      <3>3. QED
        BY <2>1, <3>1, <3>2 DEF InUse
    <2> HIDE DEF f
    <2>3. frames[f].page = meta[f].occupant /\ meta[f].occupant \in Page
      BY <1>0, <2>2 DEF MetaType, PoolInv, PlacesAgree
    <2>5. meta' = [meta EXCEPT ![f] = [occupant |-> p, pins |-> 1, dirty |-> FALSE, referenced |-> TRUE]]
      BY <1>0, <2>1, <2>2 DEF Pinned, EmptyMeta
    <2>6. \A g \in Frame \ {f} : /\ frames'[g] = frames[g]
                                 /\ meta'[g].occupant = meta[g].occupant
                                 /\ meta'[g].dirty = meta[g].dirty
      BY <1>0, <2>1, <2>5
    <2>7. frames'[f].value = disk'[p] /\ meta'[f].occupant = p
      <3>1. frames'[f].value = disk'[p]
        BY <1>0, <2>1, <2>2
      <3>2. meta'[f].occupant = p
        BY <1>0, <2>2, <2>5
      <3>3. QED
        BY <3>1, <3>2
    <2>8. \A q \in Page : table'[q] = IF q = p THEN f
                                      ELSE IF q = meta[f].occupant THEN Nil ELSE table[q]
      BY <1>0, <2>1 DEF Forgotten
    <2>9. \A q \in Page : disk'[q] = IF q = meta[f].occupant /\ meta[f].dirty THEN frames[f].value
                                                                             ELSE disk[q]
      BY <1>0, <2>1, <2>3 DEF WrittenBack
    <2>10. QED
      BY <2>0, <2>1, <2>2, <2>6, <2>7, <2>8, <2>9
  <1>3. QED
    BY <1>1, <1>2

(* Frames that hold pages hold different ones. *)
LEMMA PagesApart ==
  ASSUME PlacesAgree, NEW f \in Frame, NEW g \in Frame,
         meta[f].occupant # Nil, meta[f].occupant = meta[g].occupant
  PROVE  f = g
  BY DEF PlacesAgree

(* A call makes nobody a writer beside one who flushes. *)
LEMMA CallAlone ==
  ASSUME FlushesAlone, Typed, Alone, NEW t \in Thread, NEW mode \in Mode, NEW f,
         MayLoad(t, mode), Goes(t, Latching(f, mode)), UNCHANGED guards
  PROVE  /\ Alone'
         /\ \A g \in Frame : (WriteHeld(g)' <=> WriteHeld(g)) /\ (Marking(g)' <=> Marking(g))
         /\ \A u \in Thread : step'[u].at = "clear" => step'[u] = step[u]
  <1>1. step'[t] = Latching(f, mode) /\ \A u \in Thread \ {t} : step'[u] = step[u]
    BY DEF Typed, Goes
  <1>2. /\ step[t].at \in {"idle", "evict"}
        /\ mode = "write" => Writer(t) \/ \A u \in Thread : ~ Flusher(u)
    BY DEF MayLoad, Idle, Writer
  <1>3. ~ Flusher(t)' /\ \A u \in Thread \ {t} : (Flusher(u)' <=> Flusher(u)) /\ (Writer(u)' <=> Writer(u))
    BY <1>1 DEF Flusher, Writer, Latching
  <1>4. Writer(t)' => Writer(t) \/ mode = "write"
    BY <1>1 DEF Writer, Latching
  <1>5. Alone'
    BY <1>2, <1>3, <1>4 DEF Alone
  <1>6. \A g \in Frame : WriteHeld(g)' <=> WriteHeld(g)
    BY DEF WriteHeld
  <1>7. \A g \in Frame : Marking(g)' <=> Marking(g)
    BY <1>1, <1>2 DEF Marking, Latching
  <1>8. \A u \in Thread : step'[u].at = "clear" => step'[u] = step[u]
    BY <1>1 DEF Latching
  <1>9. QED
    BY <1>5, <1>6, <1>7, <1>8

(* A hit changes no page. *)
LEMMA HitClean ==
  ASSUME FlushesAlone, PoolInv, CleanInv,
         NEW t \in Thread, NEW p \in Page, NEW mode \in Mode, Hit(t, p, mode)
  PROVE  CleanInv'
  <1>1. /\ MayLoad(t, mode) /\ Goes(t, Latching(table[p], mode))
        /\ UNCHANGED <<disk, frames, table, hand, guards, written>>
        /\ meta' = Pinned(meta, table[p])
    BY DEF Hit, Calls, MayLoad
  <1>2. \A g \in Frame : meta'[g].occupant = meta[g].occupant /\ meta'[g].dirty = meta[g].dirty
    BY <1>1 DEF PoolInv, Typed, MetaType, Pinned
  <1>3. /\ Alone'
        /\ \A g \in Frame : (WriteHeld(g)' <=> WriteHeld(g)) /\ (Marking(g)' <=> Marking(g))
        /\ \A u \in Thread : step'[u].at = "clear" => step'[u] = step[u]
    BY <1>1, CallAlone DEF PoolInv, CleanInv
  <1>4. CleanOnDisk'
    BY <1>1, <1>2, <1>3 DEF CleanInv, CleanOnDisk
  <1>5. FlushedOnDisk'
    <2> SUFFICES ASSUME NEW u \in Thread, step'[u].at = "clear",
                        meta'[Min(step'[u].todo)].occupant # Nil
                 PROVE  frames'[Min(step'[u].todo)].value = disk'[meta'[Min(step'[u].todo)].occupant]
      BY DEF FlushedOnDisk
    <2>1. step'[u] = step[u]
      BY <1>3
    <2>2. Min(step[u].todo) \in Frame
      BY <2>1, FlushedFrame DEF PoolInv, Flusher
    <2>3. QED
      BY <1>1, <1>2, <2>1, <2>2 DEF CleanInv, FlushedOnDisk
  <1>6. QED
    BY <1>3, <1>4, <1>5 DEF CleanInv

(* A page that has been loaded is on the disk, and what is written to the  *)
(* disk for its sake is another frame's page no more.                      *)
LEMMA LoadClean ==
  ASSUME FlushesAlone, PoolInv, SweepRight, CleanInv,
         NEW t \in Thread, NEW p \in Page, NEW mode \in Mode,
         LoadFree(t, p, mode) \/ (Take(t) /\ step[t].page = p /\ step[t].mode = mode)
  PROVE  CleanInv'
  <1>1. PICK f \in Frame :
            /\ MayLoad(t, mode) /\ table[p] = Nil /\ meta[f].pins = 0
            /\ frames'[f].value = disk'[p] /\ \A g \in Frame \ {f} : frames'[g] = frames[g]
            /\ \A g \in Frame \ {f} : meta'[g].occupant = meta[g].occupant
                                      /\ meta'[g].dirty = meta[g].dirty
            /\ meta'[f].occupant = p
            /\ \A q \in Page :
                  /\ table'[q] = IF q = p THEN f
                                 ELSE IF q = meta[f].occupant THEN Nil ELSE table[q]
                  /\ disk'[q] = IF q = meta[f].occupant /\ meta[f].dirty THEN frames[f].value
                                                                        ELSE disk[q]
            /\ Goes(t, Latching(f, mode)) /\ UNCHANGED guards
    BY Loaded
  <1>2. /\ Alone'
        /\ \A g \in Frame : (WriteHeld(g)' <=> WriteHeld(g)) /\ (Marking(g)' <=> Marking(g))
        /\ \A u \in Thread : step'[u].at = "clear" => step'[u] = step[u]
    BY <1>1, CallAlone DEF PoolInv, CleanInv
  <1>3. ASSUME NEW g \in Frame, g # f, meta[g].occupant # Nil
        PROVE  /\ disk'[meta[g].occupant] = disk[meta[g].occupant]
               /\ meta'[g].occupant = meta[g].occupant /\ frames'[g] = frames[g]
               /\ meta'[g].dirty = meta[g].dirty
    <2>1. meta[g].occupant \in Page
      BY <1>3 DEF PoolInv, Typed, MetaType
    <2>2. meta[g].occupant # meta[f].occupant
      BY <1>3, PagesApart DEF PoolInv
    <2>3. QED
      BY <1>1, <1>3, <2>1, <2>2
  <1>4. CleanOnDisk'
    <2> SUFFICES ASSUME NEW g \in Frame, meta'[g].occupant # Nil, ~ meta'[g].dirty,
                        ~ WriteHeld(g)', ~ Marking(g)'
                 PROVE  frames'[g].value = disk'[meta'[g].occupant]
      BY DEF CleanOnDisk
    <2>1. CASE g = f
      BY <1>1, <2>1
    <2>2. CASE g # f
      <3>1. meta[g].occupant # Nil
        BY <1>1, <2>2
      <3>2. QED
        BY <1>2, <1>3, <2>2, <3>1 DEF CleanInv, CleanOnDisk
    <2>3. QED
      BY <2>1, <2>2
  <1>5. FlushedOnDisk'
    <2> SUFFICES ASSUME NEW u \in Thread, step'[u].at = "clear",
                        meta'[Min(step'[u].todo)].occupant # Nil
                 PROVE  frames'[Min(step'[u].todo)].value = disk'[meta'[Min(step'[u].todo)].occupant]
      BY DEF FlushedOnDisk
    <2> DEFINE g == Min(step[u].todo)
    <2>1. step'[u] = step[u]
      BY <1>2
    <2>2. g \in Frame
      BY <2>1, FlushedFrame DEF PoolInv, Flusher
    <2>3. CASE g = f
      BY <1>1, <2>1, <2>3
    <2>4. CASE g # f
      <3>1. meta[g].occupant # Nil
        BY <1>1, <2>1, <2>2, <2>4
      <3>2. frames[g].value = disk[meta[g].occupant]
        BY <2>1, <3>1 DEF CleanInv, FlushedOnDisk
      <3>3. QED
        BY <1>3, <2>1, <2>2, <2>4, <3>1, <3>2
    <2>5. QED
      BY <2>3, <2>4
  <1>6. QED
    BY <1>2, <1>4, <1>5 DEF CleanInv

(* The rest of a sweep changes neither pages nor marks. *)
LEMMA SweepClean ==
  ASSUME FlushesAlone, PoolInv, CleanInv, NEW t \in Thread,
         \/ \E p \in Page, mode \in Mode : Evict(t, p, mode)
         \/ PassOver(t) \/ Spare(t) \/ PoolFull(t)
  PROVE  CleanInv'
  <1>1. UNCHANGED <<disk, frames, guards>>
    BY DEF Evict, PassOver, Spare, GoesOn, Turns, PoolFull
  <1>2. \A g \in Frame : meta'[g].occupant = meta[g].occupant /\ meta'[g].dirty = meta[g].dirty
    <2>1. meta' = meta \/ meta' = [meta EXCEPT ![hand].referenced = FALSE]
      BY DEF Evict, PassOver, Spare, PoolFull, inner
    <2>2. hand \in Frame /\ meta \in [Frame -> MetaType]
      BY DEF PoolInv, Typed
    <2>3. QED
      BY <2>1, <2>2, MostStays
  <1>3. PICK place :
           /\ Goes(t, place) /\ place.at \in {"idle", "evict"}
           /\ place.at = "evict" /\ place.mode = "write" =>
                 Writer(t) \/ \A u \in Thread : ~ Flusher(u)
    <2>1. CASE \E p \in Page, mode \in Mode : Evict(t, p, mode)
      <3>1. PICK p \in Page, mode \in Mode : Evict(t, p, mode)
        BY <2>1
      <3>2. Goes(t, Sweeping(p, mode, Rounds)) /\ (mode = "write" => \A u \in Thread : ~ Flusher(u))
        BY <3>1 DEF Evict, Calls
      <3>3. QED
        BY <3>2 DEF Sweeping
    <2>2. CASE PassOver(t) \/ Spare(t)
      <3>1. /\ step[t].at = "evict"
            /\ Goes(t, Sweeping(step[t].page, step[t].mode, step[t].left - 1))
        BY <2>2 DEF PassOver, Spare, Turns, GoesOn
      <3>2. QED
        BY <3>1 DEF Sweeping, Writer
    <2>3. CASE PoolFull(t)
      BY <2>3 DEF PoolFull, Idle
    <2>4. QED
      BY <2>1, <2>2, <2>3
  <1>4. step'[t] = place /\ \A u \in Thread \ {t} : step'[u] = step[u]
    BY <1>3 DEF PoolInv, Typed, Goes
  <1>5. step[t].at \in {"idle", "evict"}
    BY DEF Evict, Calls, Idle, PassOver, Spare, Turns, PoolFull
  <1>6. Alone'
    <2>1. ~ Flusher(t)'
      BY <1>3, <1>4 DEF Flusher
    <2>2. Writer(t)' => Writer(t) \/ \A u \in Thread : ~ Flusher(u)
      BY <1>1, <1>3, <1>4 DEF Writer
    <2>3. \A u \in Thread \ {t} : (Flusher(u)' <=> Flusher(u)) /\ (Writer(u)' <=> Writer(u))
      BY <1>1, <1>4 DEF Flusher, Writer
    <2>4. QED
      BY <2>1, <2>2, <2>3 DEF CleanInv, Alone
  <1>7. \A g \in Frame : (WriteHeld(g)' <=> WriteHeld(g)) /\ (Marking(g)' <=> Marking(g))
    BY <1>1, <1>3, <1>4, <1>5 DEF WriteHeld, Marking
  <1>8. CleanOnDisk'
    BY <1>1, <1>2, <1>7 DEF CleanInv, CleanOnDisk
  <1>9. FlushedOnDisk'
    <2> SUFFICES ASSUME NEW u \in Thread, step'[u].at = "clear",
                        meta'[Min(step'[u].todo)].occupant # Nil
                 PROVE  frames'[Min(step'[u].todo)].value = disk'[meta'[Min(step'[u].todo)].occupant]
      BY DEF FlushedOnDisk
    <2>1. step'[u] = step[u]
      BY <1>3, <1>4
    <2>2. Min(step[u].todo) \in Frame
      BY <2>1, FlushedFrame DEF PoolInv, Flusher
    <2>3. QED
      BY <1>1, <1>2, <2>1, <2>2 DEF CleanInv, FlushedOnDisk
  <1>10. QED
    BY <1>6, <1>8, <1>9 DEF CleanInv

(* What stays the same when neither pages nor marks change: who gets a latch *)
(* or gives one up has changed the page before, or still has its mark to set.*)
LEMMA GuardsClean ==
  ASSUME CleanInv, UNCHANGED <<disk, frames, meta>>,
         \A g \in Frame : WriteHeld(g) \/ Marking(g) => WriteHeld(g)' \/ Marking(g)',
         \A u \in Thread : (Flusher(u)' => Flusher(u)) /\ (Writer(u)' => Writer(u)),
         \A u \in Thread : step'[u].at = "clear" => step'[u] = step[u]
  PROVE  CleanInv'
  <1>1. Alone'
    BY DEF CleanInv, Alone
  <1>2. CleanOnDisk'
    BY DEF CleanInv, CleanOnDisk
  <1>3. FlushedOnDisk'
    BY DEF CleanInv, FlushedOnDisk
  <1>4. QED
    BY <1>1, <1>2, <1>3 DEF CleanInv

(* A latch lets nobody change a page unseen. *)
LEMMA LatchClean ==
  ASSUME PoolInv, CleanInv, NEW t \in Thread, Latch(t)
  PROVE  CleanInv'
  <1> DEFINE gs  == guards[t]
             gsx == guards'[t]
             gd  == [frame |-> step[t].frame, mode |-> step[t].mode]
  <1>1. /\ step[t].at = "latch" /\ guards' = [guards EXCEPT ![t] = Append(@, gd)] /\ Goes(t, Idle)
        /\ UNCHANGED <<disk, frames, meta>>
    BY DEF Latch, inner
  <1>2. /\ step'[t] = Idle /\ \A u \in Thread \ {t} : step'[u] = step[u]
        /\ gsx = Append(gs, gd) /\ \A u \in Thread \ {t} : guards'[u] = guards[u]
        /\ gs \in Seq([frame : Frame, mode : Mode])
    BY <1>1 DEF PoolInv, Typed, Goes
  <1>3. /\ DOMAIN gs \subseteq DOMAIN gsx /\ \A i \in DOMAIN gs : gsx[i] = gs[i]
        /\ \A i \in DOMAIN gsx : i \in DOMAIN gs \/ gsx[i] = gd
    BY <1>2
  <1>4. \A g \in Frame : WriteHeld(g) => WriteHeld(g)'
    BY <1>2, <1>3 DEF WriteHeld
  <1>5. \A g \in Frame : Marking(g) => Marking(g)'
    BY <1>1, <1>2 DEF Marking
  <1>6. Writer(t)' => Writer(t)
    <2>1. ASSUME NEW i \in DOMAIN gsx, gsx[i].mode = "write"
          PROVE  Writer(t)
      <3>1. CASE i \in DOMAIN gs
        BY <1>3, <2>1, <3>1 DEF Writer
      <3>2. CASE gsx[i] = gd
        BY <1>1, <2>1, <3>2 DEF Writer
      <3>3. QED
        BY <1>3, <3>1, <3>2
    <2>2. QED
      BY <1>2, <2>1 DEF Writer, Idle
  <1>7. \A u \in Thread \ {t} : (Flusher(u)' <=> Flusher(u)) /\ (Writer(u)' <=> Writer(u))
    BY <1>2 DEF Flusher, Writer
  <1>8. ~ Flusher(t)' /\ \A u \in Thread : step'[u].at = "clear" => step'[u] = step[u]
    BY <1>2 DEF Flusher, Idle
  <1>9. QED
    BY <1>1, <1>4, <1>5, <1>6, <1>7, <1>8, GuardsClean

(* Who gives up a write latch has a mark to set. *)
LEMMA DropClean ==
  ASSUME PoolInv, CleanInv, NEW t \in Thread, NEW i \in DOMAIN guards[t], Drop(t, i)
  PROVE  CleanInv'
  <1> DEFINE gs  == guards[t]
             gsx == guards'[t]
             place == Unpinning(gs[i].frame, gs[i].mode = "write")
  <1>1. /\ step[t] = Idle /\ guards' = [guards EXCEPT ![t] = RemoveAt(@, i)] /\ Goes(t, place)
        /\ UNCHANGED <<disk, frames, meta>>
    BY DEF Drop, inner
  <1>2. /\ step'[t] = place /\ \A u \in Thread \ {t} : step'[u] = step[u]
        /\ gsx = RemoveAt(gs, i) /\ \A u \in Thread \ {t} : guards'[u] = guards[u]
        /\ gs \in Seq([frame : Frame, mode : Mode])
    BY <1>1 DEF PoolInv, Typed, Goes
  <1>3. /\ gsx \in Seq([frame : Frame, mode : Mode]) /\ Len(gsx) = Len(gs) - 1
        /\ \A j \in 1..(Len(gs) - 1) : gsx[j] = gs[IF j < i THEN j ELSE j + 1]
    BY <1>2, Removed
  <1>4. /\ i \in 1..Len(gs) /\ Len(gs) \in Nat /\ DOMAIN gs = 1..Len(gs)
        /\ DOMAIN gsx = 1..(Len(gs) - 1)
    BY <1>2, <1>3
  <1>5. ASSUME NEW k \in DOMAIN gs, k # i
        PROVE  \E j \in DOMAIN gsx : gsx[j] = gs[k]
    <2> DEFINE j == IF k < i THEN k ELSE k - 1
    <2>1. j \in 1..(Len(gs) - 1) /\ (IF j < i THEN j ELSE j + 1) = k
      BY <1>4, <1>5
    <2>2. QED
      BY <1>3, <1>4, <2>1
  <1>6. ASSUME NEW j \in DOMAIN gsx
        PROVE  \E k \in DOMAIN gs : gsx[j] = gs[k]
    <2> DEFINE k == IF j < i THEN j ELSE j + 1
    <2>1. k \in DOMAIN gs
      BY <1>4
    <2>2. QED
      BY <1>3, <1>4, <2>1
  <1>mark. /\ step'[t].at = "unpin" /\ step'[t].frame = gs[i].frame
           /\ step'[t].dirty <=> gs[i].mode = "write"
    <2>1. step'[t].at = "unpin" /\ step'[t].frame = gs[i].frame
      BY <1>2 DEF Unpinning
    <2>2. place.dirty = (gs[i].mode = "write")
      BY DEF Unpinning
    <2>3. step'[t].dirty = (gs[i].mode = "write")
      BY <1>2, <2>2, Zenon
    <2>4. QED
      BY <2>1, <2>3
  <1>7. ASSUME NEW g \in Frame, WriteHeld(g) \/ Marking(g)
        PROVE  WriteHeld(g)' \/ Marking(g)'
    <2>1. CASE Marking(g)
      BY <1>1, <1>2, <2>1 DEF Marking, Idle
    <2>2. ASSUME NEW u \in Thread, NEW k \in DOMAIN guards[u],
                 guards[u][k].frame = g, guards[u][k].mode = "write"
          PROVE  WriteHeld(g)' \/ Marking(g)'
      <3>1. CASE u # t
        BY <1>2, <2>2, <3>1 DEF WriteHeld
      <3>2. CASE u = t /\ k # i
        BY <1>5, <2>2, <3>2 DEF WriteHeld
      <3>3. CASE u = t /\ k = i
        <4>1. step'[t].at = "unpin" /\ step'[t].frame = g /\ step'[t].dirty
          BY <1>mark, <2>2, <3>3
        <4>2. QED
          BY <4>1 DEF Marking
      <3>4. QED
        BY <3>1, <3>2, <3>3
    <2>3. QED
      BY <1>7, <2>1, <2>2 DEF WriteHeld
  <1>8. Writer(t)' => Writer(t)
    <2>1. ASSUME NEW j \in DOMAIN gsx, gsx[j].mode = "write"
          PROVE  Writer(t)
      BY <1>6, <2>1 DEF Writer
    <2>2. ASSUME step'[t].dirty
          PROVE  Writer(t)
      BY <1>mark, <2>2 DEF Writer
    <2>3. QED
      BY <1>mark, <2>1, <2>2 DEF Writer
  <1>9. \A u \in Thread \ {t} : (Flusher(u)' <=> Flusher(u)) /\ (Writer(u)' <=> Writer(u))
    BY <1>2 DEF Flusher, Writer
  <1>10. ~ Flusher(t)' /\ \A u \in Thread : step'[u].at = "clear" => step'[u] = step[u]
    BY <1>2 DEF Flusher, Unpinning
  <1>11. QED
    BY <1>1, <1>7, <1>8, <1>9, <1>10, GuardsClean

(* Who changes a page has a write guard of it, and nobody flushes. *)
LEMMA ChangeClean ==
  ASSUME PoolInv, CleanInv, NEW t \in Thread, NEW i \in DOMAIN guards[t], Change(t, i)
  PROVE  CleanInv'
  <1> DEFINE f == guards[t][i].frame
  <1>1. f \in Frame
    BY GuardTyped DEF PoolInv
  <1>2. /\ frames' = [frames EXCEPT ![f].value = written'] /\ guards[t][i].mode = "write"
        /\ UNCHANGED <<disk, meta, guards, step>>
    BY DEF Change, inner
  <1>3. WriteHeld(f) /\ Writer(t)
    BY <1>2 DEF WriteHeld, Writer
  <1>4. \A u \in Thread : ~ Flusher(u)
    BY <1>3 DEF CleanInv, Alone
  <1>5. \A g \in Frame \ {f} : frames'[g] = frames[g]
    BY <1>2 DEF PoolInv, Typed
  <1>6. \A g \in Frame : (WriteHeld(g)' <=> WriteHeld(g)) /\ (Marking(g)' <=> Marking(g))
    BY <1>2 DEF WriteHeld, Marking
  <1>7. CleanOnDisk'
    BY <1>2, <1>3, <1>5, <1>6 DEF CleanInv, CleanOnDisk
  <1>8. \A u \in Thread : (Flusher(u)' <=> Flusher(u)) /\ (Writer(u)' <=> Writer(u))
    BY <1>2 DEF Flusher, Writer
  <1>9. Alone' /\ FlushedOnDisk'
    BY <1>2, <1>4, <1>8 DEF CleanInv, Alone, FlushedOnDisk, Flusher
  <1>10. QED
    BY <1>7, <1>9 DEF CleanInv

(* The mark is set when the pin goes. *)
LEMMA UnpinClean ==
  ASSUME PoolInv, CleanInv, NEW t \in Thread, Unpin(t)
  PROVE  CleanInv'
  <1> DEFINE f == step[t].frame
             d == Marked(meta[f].dirty, step[t].dirty)
  <1>1. /\ step[t].at = "unpin" /\ f \in Frame /\ step[t].dirty \in BOOLEAN
        /\ Goes(t, Idle) /\ UNCHANGED <<disk, frames, guards>>
        /\ meta' = [meta EXCEPT ![f].pins = Max({0, @ - 1}), ![f].dirty = Marked(@, step[t].dirty)]
    BY DEF PoolInv, Typed, StepTyped, Unpin
  <1>2. /\ step'[t] = Idle /\ \A u \in Thread \ {t} : step'[u] = step[u]
        /\ meta \in [Frame -> MetaType]
    BY <1>1 DEF PoolInv, Typed, Goes
  <1>3. \A g \in Frame : /\ meta'[g].occupant = meta[g].occupant
                         /\ g # f => meta'[g].dirty = meta[g].dirty
    BY <1>1, <1>2 DEF MetaType
  <1>4. meta'[f].dirty <=> meta[f].dirty \/ step[t].dirty
    <2>1. meta'[f].dirty = Marked(meta[f].dirty, step[t].dirty)
      BY <1>1, <1>2 DEF MetaType
    <2>2. QED
      BY <2>1 DEF Marked
  <1>5. \A g \in Frame : WriteHeld(g)' <=> WriteHeld(g)
    BY <1>1 DEF WriteHeld
  <1>6. \A g \in Frame : Marking(g) => Marking(g)' \/ (g = f /\ step[t].dirty)
    BY <1>2 DEF Marking
  <1>7. Alone'
    <2>1. ~ Flusher(t)' /\ (Writer(t)' => Writer(t))
      BY <1>1, <1>2 DEF Flusher, Writer, Idle
    <2>2. \A u \in Thread \ {t} : (Flusher(u)' <=> Flusher(u)) /\ (Writer(u)' <=> Writer(u))
      BY <1>1, <1>2 DEF Flusher, Writer
    <2>3. QED
      BY <2>1, <2>2 DEF CleanInv, Alone
  <1>8. CleanOnDisk'
    <2> SUFFICES ASSUME NEW g \in Frame, meta'[g].occupant # Nil, ~ meta'[g].dirty,
                        ~ WriteHeld(g)', ~ Marking(g)'
                 PROVE  frames'[g].value = disk'[meta'[g].occupant]
      BY DEF CleanOnDisk
    <2>1. meta[g].occupant # Nil /\ ~ meta[g].dirty /\ ~ WriteHeld(g) /\ ~ Marking(g)
      BY <1>3, <1>4, <1>5, <1>6
    <2>2. QED
      BY <1>1, <1>3, <2>1 DEF CleanInv, CleanOnDisk
  <1>9. FlushedOnDisk'
    <2> SUFFICES ASSUME NEW u \in Thread, step'[u].at = "clear",
                        meta'[Min(step'[u].todo)].occupant # Nil
                 PROVE  frames'[Min(step'[u].todo)].value = disk'[meta'[Min(step'[u].todo)].occupant]
      BY DEF FlushedOnDisk
    <2>1. step'[u] = step[u]
      BY <1>2 DEF Idle
    <2>2. Min(step[u].todo) \in Frame
      BY <2>1, FlushedFrame DEF PoolInv, Flusher
    <2>3. QED
      BY <1>1, <1>3, <2>1, <2>2 DEF CleanInv, FlushedOnDisk
  <1>10. QED
    BY <1>7, <1>8, <1>9 DEF CleanInv

(* A flush begins when nobody writes. *)
LEMMA FlushClean ==
  ASSUME FlushesAlone, PoolInv, CleanInv, NEW t \in Thread, Flush(t)
  PROVE  CleanInv'
  <1>1. /\ step[t] = Idle /\ (\A u \in Thread : ~ Writer(u))
        /\ UNCHANGED <<disk, frames, meta, guards>>
    BY DEF Flush, inner
  <1>2. PICK fs \in {Dirty} \cup {{f} : f \in Dirty} : Goes(t, Flushing("flush", fs))
    BY DEF Flush
  <1>3. step'[t] = Flushing("flush", fs) /\ \A u \in Thread \ {t} : step'[u] = step[u]
    BY <1>2 DEF PoolInv, Typed, Goes
  <1>4. \A u \in Thread : ~ Writer(u)'
    BY <1>1, <1>3 DEF Writer, Flushing
  <1>5. Alone'
    BY <1>4 DEF Alone
  <1>6. \A g \in Frame : (WriteHeld(g)' <=> WriteHeld(g)) /\ (Marking(g)' <=> Marking(g))
    BY <1>1, <1>3 DEF WriteHeld, Marking, Flushing, Idle
  <1>7. CleanOnDisk'
    BY <1>1, <1>6 DEF CleanInv, CleanOnDisk
  <1>8. FlushedOnDisk'
    BY <1>1, <1>3 DEF CleanInv, FlushedOnDisk, Flushing
  <1>9. QED
    BY <1>5, <1>7, <1>8 DEF CleanInv

(* What is written to the disk is what the frame holds, and no other frame *)
(* holds the page.                                                         *)
LEMMA FlushFrameClean ==
  ASSUME PoolInv, CleanInv, NEW t \in Thread, FlushFrame(t)
  PROVE  CleanInv'
  <1> DEFINE f == Min(step[t].todo)
  <1>1. /\ step[t].at = "flush" /\ Goes(t, Flushing("clear", step[t].todo))
        /\ disk' = IF frames[f].page = Nil THEN disk
                   ELSE [disk EXCEPT ![frames[f].page] = frames[f].value]
        /\ UNCHANGED <<frames, meta, guards>>
    BY DEF FlushFrame, inner
  <1>2. /\ step'[t] = Flushing("clear", step[t].todo)
        /\ \A u \in Thread \ {t} : step'[u] = step[u]
    BY <1>1 DEF PoolInv, Typed, Goes
  <1>3. f \in Frame /\ frames[f].page = meta[f].occupant
    BY <1>1, FlushedFrame DEF PoolInv, PlacesAgree, Flusher
  <1>4. step'[t].todo = step[t].todo /\ step'[t].at = "clear"
    BY <1>2 DEF Flushing
  <1> HIDE DEF f
  <1>5. ASSUME NEW g \in Frame, meta[g].occupant # Nil
        PROVE  disk'[meta[g].occupant] = IF g = f THEN frames[f].value ELSE disk[meta[g].occupant]
    <2>1. meta[g].occupant \in Page /\ disk \in [Page -> Nat]
      BY <1>5 DEF PoolInv, Typed, MetaType
    <2>2. g # f => meta[g].occupant # meta[f].occupant
      BY <1>3, <1>5, PagesApart DEF PoolInv
    <2>3. QED
      BY <1>1, <1>3, <1>5, <2>1, <2>2
  <1>6. Alone'
    BY <1>1, <1>2 DEF CleanInv, Alone, Flusher, Writer, Flushing
  <1>7. \A g \in Frame : (WriteHeld(g)' <=> WriteHeld(g)) /\ (Marking(g)' <=> Marking(g))
    BY <1>1, <1>2 DEF WriteHeld, Marking, Flushing
  <1>8. CleanOnDisk'
    <2> SUFFICES ASSUME NEW g \in Frame, meta'[g].occupant # Nil, ~ meta'[g].dirty,
                        ~ WriteHeld(g)', ~ Marking(g)'
                 PROVE  frames'[g].value = disk'[meta'[g].occupant]
      BY DEF CleanOnDisk
    <2>1. meta[g].occupant # Nil /\ frames[g].value = disk[meta[g].occupant]
      BY <1>1, <1>7 DEF CleanInv, CleanOnDisk
    <2>2. QED
      BY <1>1, <1>5, <2>1
  <1>9. FlushedOnDisk'
    <2> SUFFICES ASSUME NEW u \in Thread, step'[u].at = "clear",
                        meta'[Min(step'[u].todo)].occupant # Nil
                 PROVE  frames'[Min(step'[u].todo)].value = disk'[meta'[Min(step'[u].todo)].occupant]
      BY DEF FlushedOnDisk
    <2>1. CASE u = t
      BY <1>1, <1>3, <1>4, <1>5, <2>1 DEF f
    <2>2. CASE u # t
      <3> DEFINE g == Min(step[u].todo)
      <3>1. step'[u] = step[u]
        BY <1>2, <2>2
      <3>2. g \in Frame
        BY <3>1, FlushedFrame DEF PoolInv, Flusher
      <3>3. meta[g].occupant # Nil /\ frames[g].value = disk[meta[g].occupant]
        BY <1>1, <3>1 DEF CleanInv, FlushedOnDisk
      <3> HIDE DEF g
      <3>4. frames'[g].value = disk'[meta'[g].occupant]
        BY <1>1, <1>5, <3>2, <3>3
      <3>5. QED
        BY <3>1, <3>4 DEF g
    <2>3. QED
      BY <2>1, <2>2
  <1>10. QED
    BY <1>6, <1>8, <1>9 DEF CleanInv

(* The mark goes from a frame whose page is on the disk. *)
LEMMA ClearDirtyClean ==
  ASSUME PoolInv, CleanInv, NEW t \in Thread, ClearDirty(t)
  PROVE  CleanInv'
  <1> DEFINE f == Min(step[t].todo)
             rest == step[t].todo \ {f}
             place == IF rest = {} THEN Idle ELSE Flushing("flush", rest)
  <1>1. /\ step[t].at = "clear" /\ Goes(t, place)
        /\ meta' = [meta EXCEPT ![f].dirty = FALSE]
        /\ UNCHANGED <<disk, frames, guards>>
    BY DEF ClearDirty
  <1>2. place.at \in {"idle", "flush"}
    BY DEF Idle, Flushing
  <1>3. step'[t] = place /\ \A u \in Thread \ {t} : step'[u] = step[u]
    BY <1>1 DEF PoolInv, Typed, Goes
  <1>4. f \in Frame
    BY <1>1, FlushedFrame DEF PoolInv, Flusher
  <1>5. meta[f].occupant # Nil => frames[f].value = disk[meta[f].occupant]
    BY <1>1 DEF CleanInv, FlushedOnDisk
  <1> HIDE DEF place, f
  <1>6. \A g \in Frame : /\ meta'[g].occupant = meta[g].occupant
                         /\ g # f => meta'[g].dirty = meta[g].dirty
    BY <1>1, <1>4 DEF PoolInv, Typed, MetaType
  <1>7. Alone'
    <2>1. Flusher(t) /\ (Writer(t)' => Writer(t))
      BY <1>1, <1>2, <1>3 DEF Flusher, Writer
    <2>2. \A u \in Thread \ {t} : (Flusher(u)' <=> Flusher(u)) /\ (Writer(u)' <=> Writer(u))
      BY <1>1, <1>3 DEF Flusher, Writer
    <2>3. QED
      BY <2>1, <2>2 DEF CleanInv, Alone
  <1>8. \A g \in Frame : (WriteHeld(g)' <=> WriteHeld(g)) /\ (Marking(g)' <=> Marking(g))
    BY <1>1, <1>2, <1>3 DEF WriteHeld, Marking
  <1>9. CleanOnDisk'
    BY <1>1, <1>5, <1>6, <1>8 DEF CleanInv, CleanOnDisk
  <1>10. FlushedOnDisk'
    <2> SUFFICES ASSUME NEW u \in Thread, step'[u].at = "clear",
                        meta'[Min(step'[u].todo)].occupant # Nil
                 PROVE  frames'[Min(step'[u].todo)].value = disk'[meta'[Min(step'[u].todo)].occupant]
      BY DEF FlushedOnDisk
    <2>1. step'[u] = step[u]
      BY <1>2, <1>3
    <2>2. Min(step[u].todo) \in Frame
      BY <2>1, FlushedFrame DEF PoolInv, Flusher
    <2>3. QED
      BY <1>1, <1>6, <2>1, <2>2 DEF CleanInv, FlushedOnDisk
  <1>11. QED
    BY <1>7, <1>9, <1>10 DEF CleanInv

(* Every step keeps what is clean on the disk. *)
LEMMA CleanInvNext ==
  FlushesAlone /\ PoolInv /\ SweepRight /\ CleanInv /\ [Next]_vars => CleanInv'
  <1> SUFFICES ASSUME FlushesAlone, PoolInv, SweepRight, CleanInv, [Next]_vars PROVE CleanInv'
    OBVIOUS
  <1>1. ASSUME UNCHANGED <<disk, frames, meta, guards, step>>
        PROVE  CleanInv'
    BY <1>1, GuardsClean DEF WriteHeld, Marking, Flusher, Writer
  <1>2. CASE Next
    <2>1. PICK t \in Thread :
             \/ \E p \in Page, mode \in Mode :
                   Hit(t, p, mode) \/ LoadFree(t, p, mode) \/ Evict(t, p, mode)
             \/ PassOver(t) \/ Spare(t) \/ Take(t) \/ PoolFull(t)
             \/ \E i \in DOMAIN guards[t] : Change(t, i) \/ Drop(t, i)
             \/ Latch(t) \/ Unpin(t)
             \/ Flush(t) \/ FlushFrame(t) \/ ClearDirty(t)
      BY <1>2 DEF Next
    <2>2. ASSUME NEW p \in Page, NEW mode \in Mode,
                 Hit(t, p, mode) \/ LoadFree(t, p, mode) \/ Evict(t, p, mode)
          PROVE  CleanInv'
      BY <2>2, HitClean, LoadClean, SweepClean
    <2>3. CASE PassOver(t) \/ Spare(t) \/ Take(t) \/ PoolFull(t)
      <3>1. CASE Take(t)
        <4>1. step[t].page \in Page /\ step[t].mode \in Mode
          BY <3>1 DEF Take, Victim, Turns, PoolInv, Typed, StepTyped
        <4>2. QED
          BY <3>1, <4>1, LoadClean
      <3>2. QED
        BY <2>3, <3>1, SweepClean
    <2>4. ASSUME NEW i \in DOMAIN guards[t], Change(t, i) \/ Drop(t, i)
          PROVE  CleanInv'
      BY <2>4, ChangeClean, DropClean
    <2>5. QED
      BY <2>1, <2>2, <2>3, <2>4, LatchClean, UnpinClean, FlushClean, FlushFrameClean,
         ClearDirtyClean
  <1>3. QED
    BY <1>1, <1>2 DEF vars

(* The store's pages and guards. *)
Values  == [p \in Page |-> Content(p)]
Granted == UNION {{Held(t, i) : i \in DOMAIN guards[t]} : t \in Thread}

(* Which guards the store has, before a step and after it. *)
LEMMA GrantedIs ==
  /\ \A h : h \in Granted <=> \E u \in Thread : \E i \in DOMAIN guards[u] : h = Held(u, i)
  /\ \A h : h \in Granted' <=> \E u \in Thread : \E i \in DOMAIN guards'[u] : h = Held(u, i)'
  BY DEF Granted

(* A frame in use has a page. *)
LEMMA UsedHasPage ==
  ASSUME PoolInv, NEW f \in Frame, Holding(f) # {} \/ Passing(f) # {}
  PROVE  meta[f].occupant \in Page /\ frames[f].page = meta[f].occupant
  <1>1. meta[f].pins # 0
    BY UnpinnedUnused DEF PoolInv
  <1>2. meta[f].occupant # Nil /\ frames[f].page = meta[f].occupant
    BY <1>1 DEF PoolInv, PlacesAgree
  <1>3. QED
    BY <1>2 DEF PoolInv, Typed, MetaType

(* A guard's frame has a page. *)
LEMMA GuardedHasPage ==
  ASSUME PoolInv, NEW t \in Thread, NEW i \in DOMAIN guards[t]
  PROVE  LET f == guards[t][i].frame IN
         f \in Frame /\ f \in Guards(t) /\ meta[f].pins # 0
         /\ meta[f].occupant \in Page /\ frames[f].page = meta[f].occupant
  <1> DEFINE f == guards[t][i].frame
  <1>1. f \in Frame
    BY GuardTyped DEF PoolInv
  <1>2. f \in Guards(t)
    BY DEF Guards
  <1> HIDE DEF f
  <1>3. Holding(f) # {}
    BY <1>2 DEF Holding
  <1>4. meta[f].pins # 0
    BY <1>1, <1>3, UnpinnedUnused DEF PoolInv
  <1>5. meta[f].occupant \in Page /\ frames[f].page = meta[f].occupant
    BY <1>1, <1>3, UsedHasPage
  <1>6. QED
    BY <1>1, <1>2, <1>4, <1>5 DEF f

(* Guards are seen as they were as long as their frames keep their pages. *)
LEMMA SameGrants ==
  ASSUME UNCHANGED guards,
         \A t \in Thread : \A i \in DOMAIN guards[t] :
             frames'[guards[t][i].frame].page = frames[guards[t][i].frame].page
  PROVE  Granted' = Granted
  <1>1. \A t \in Thread : \A i \in DOMAIN guards[t] : Held(t, i)' = Held(t, i)
    BY DEF Held
  <1>2. ASSUME NEW t \in Thread
        PROVE  {Held(t, i) : i \in DOMAIN guards[t]}' = {Held(t, i) : i \in DOMAIN guards[t]}
    BY <1>1
  <1>3. ASSUME NEW x PROVE x \in Granted' <=> x \in Granted
    <2>1. x \in Granted <=> \E t \in Thread : x \in {Held(t, i) : i \in DOMAIN guards[t]}
      BY DEF Granted
    <2>2. x \in Granted' <=> \E t \in Thread : x \in {Held(t, i) : i \in DOMAIN guards[t]}'
      BY DEF Granted
    <2>3. QED
      BY <1>2, <2>1, <2>2
  <1>4. QED
    BY <1>3

(* Steps that move pages but change none. *)
LEMMA SameValues ==
  ASSUME \A p \in Page : Content(p)' = Content(p)
  PROVE  Values' = Values
  BY DEF Values

(* Loading a page shows what was on the disk, and the page that makes room is *)
(* found on the disk as it was in the frame.                                  *)
LEMMA LoadStutters ==
  ASSUME PoolInv, SweepRight, CleanInv, NEW t \in Thread, NEW p \in Page, NEW mode \in Mode,
         LoadFree(t, p, mode) \/ (Take(t) /\ step[t].page = p /\ step[t].mode = mode)
  PROVE  Values' = Values /\ Granted' = Granted
  <1>1. PICK f \in Frame :
            /\ MayLoad(t, mode) /\ table[p] = Nil /\ meta[f].pins = 0
            /\ frames'[f].value = disk'[p] /\ \A g \in Frame \ {f} : frames'[g] = frames[g]
            /\ \A g \in Frame \ {f} : meta'[g].occupant = meta[g].occupant
                                      /\ meta'[g].dirty = meta[g].dirty
            /\ meta'[f].occupant = p
            /\ \A q \in Page :
                  /\ table'[q] = IF q = p THEN f
                                 ELSE IF q = meta[f].occupant THEN Nil ELSE table[q]
                  /\ disk'[q] = IF q = meta[f].occupant /\ meta[f].dirty THEN frames[f].value
                                                                        ELSE disk[q]
            /\ Goes(t, Latching(f, mode)) /\ UNCHANGED guards
    BY Loaded
  <1>2. p # meta[f].occupant
    BY <1>1, NilApart DEF PoolInv, PlacesAgree
  <1>3. Holding(f) = {} /\ Passing(f) = {}
    BY <1>1, UnpinnedUnused DEF PoolInv
  <1>4. ~ WriteHeld(f) /\ ~ Marking(f)
    BY <1>3 DEF WriteHeld, Marking, Holding, Passing, Guards
  <1>5. ASSUME NEW q \in Page
        PROVE  Content(q)' = Content(q)
    <2>1. CASE q = p
      <3>1. Content(q) = disk[q] /\ disk'[q] = disk[q]
        BY <1>1, <1>2, <2>1 DEF Content
      <3>2. Content(q)' = frames'[f].value
        BY <1>1, <2>1, NilApart DEF Content
      <3>3. QED
        BY <1>1, <2>1, <3>1, <3>2
    <2>2. CASE q # p /\ q = meta[f].occupant
      <3>1. table[q] = f /\ f # Nil /\ q # Nil
        BY <2>2, NilApart DEF PoolInv, PlacesAgree
      <3>2. Content(q) = frames[f].value
        BY <3>1 DEF Content
      <3>3. Content(q)' = disk'[q]
        BY <1>1, <2>2 DEF Content
      <3>4. ~ meta[f].dirty => frames[f].value = disk[q]
        BY <1>4, <2>2, <3>1 DEF CleanInv, CleanOnDisk
      <3>5. QED
        BY <1>1, <2>2, <3>2, <3>3, <3>4
    <2>3. CASE q # p /\ q # meta[f].occupant
      <3>1. table'[q] = table[q] /\ disk'[q] = disk[q]
        BY <1>1, <2>3
      <3>2. table[q] # Nil => table[q] \in Frame \ {f}
        BY <2>3 DEF PoolInv, Typed, PlacesAgree
      <3>3. QED
        BY <1>1, <3>1, <3>2 DEF Content
    <2>4. QED
      BY <2>1, <2>2, <2>3
  <1>6. ASSUME NEW u \in Thread, NEW i \in DOMAIN guards[u]
        PROVE  frames'[guards[u][i].frame].page = frames[guards[u][i].frame].page
    <2>1. guards[u][i].frame \in Frame /\ meta[guards[u][i].frame].pins # 0
      BY GuardedHasPage
    <2>2. QED
      BY <1>1, <2>1
  <1>7. QED
    BY <1>1, <1>5, <1>6, SameGrants, SameValues

(* Writing a frame to the disk shows nobody anything. *)
LEMMA FlushFrameStutters ==
  ASSUME PoolInv, NEW t \in Thread, FlushFrame(t)
  PROVE  Values' = Values /\ Granted' = Granted
  <1> DEFINE f == Min(step[t].todo)
  <1>1. /\ step[t].at = "flush"
        /\ disk' = IF frames[f].page = Nil THEN disk
                   ELSE [disk EXCEPT ![frames[f].page] = frames[f].value]
        /\ UNCHANGED <<frames, table, guards>>
    BY DEF FlushFrame, inner
  <1>2. f \in Frame /\ frames[f].page = meta[f].occupant
    BY <1>1, FlushedFrame DEF PoolInv, PlacesAgree, Flusher
  <1> HIDE DEF f
  <1>3. ASSUME NEW q \in Page
        PROVE  Content(q)' = Content(q)
    <2>1. table[q] = Nil => q # frames[f].page
      BY <1>2, NilApart DEF PoolInv, PlacesAgree
    <2>2. table[q] = Nil => disk'[q] = disk[q]
      BY <1>1, <2>1 DEF PoolInv, Typed
    <2>3. QED
      BY <1>1, <2>2 DEF Content
  <1>4. QED
    BY <1>1, <1>3, SameGrants, SameValues

(* Steps that leave disk, frames, table and guards alone are not to be seen. *)
LEMMA NothingStutters ==
  ASSUME UNCHANGED <<disk, frames, table, guards>>
  PROVE  Values' = Values /\ Granted' = Granted
  BY SameGrants DEF Values, Content

(* Who gets a latch gets the store's guard, which nobody else's excludes. *)
LEMMA LatchLatches ==
  ASSUME PoolInv, NEW t \in Thread, Latch(t)
  PROVE  \E g \in Store!Guard : Store!Latch(g)
  <1> DEFINE f  == step[t].frame
             gd == [frame |-> f, mode |-> step[t].mode]
             g  == [thread |-> t, page |-> meta[f].occupant, mode |-> step[t].mode]
  <1>1. /\ step[t].at = "latch" /\ f \in Frame /\ step[t].mode \in Mode
        /\ guards' = [guards EXCEPT ![t] = Append(@, gd)]
        /\ UNCHANGED <<disk, frames, table>>
        /\ \A u \in Thread : \A i \in DOMAIN guards[u] : ~ Excludes(guards[u][i], f, step[t].mode)
    BY DEF Latch, PoolInv, Typed, StepTyped, inner
  <1>2. t \in Passing(f)
    BY <1>1 DEF Passing
  <1>3. meta[f].occupant \in Page /\ frames[f].page = meta[f].occupant
    BY <1>1, <1>2, UsedHasPage
  <1>4. g \in Store!Guard
    BY <1>1, <1>3 DEF Store!Guard, Mode
  <1>5. ASSUME NEW u \in Thread, NEW i \in DOMAIN guards[u]
        PROVE  ~ Store!Excludes(g, Held(u, i))
    <2> DEFINE h == guards[u][i].frame
    <2>1. h \in Frame /\ meta[h].occupant \in Page /\ frames[h].page = meta[h].occupant
      BY GuardedHasPage
    <2>2. meta[f].occupant = meta[h].occupant => f = h
      BY <1>1, <1>3, <2>1, NilApart, PagesApart DEF PoolInv
    <2>3. ~ Excludes(guards[u][i], f, step[t].mode)
      BY <1>1
    <2>4. QED
      BY <2>1, <2>2, <2>3 DEF Excludes, Held, Store!Excludes
  <1>6. /\ guards[t] \in Seq([frame : Frame, mode : Mode])
        /\ guards'[t] = Append(guards[t], gd)
        /\ \A u \in Thread \ {t} : guards'[u] = guards[u]
    BY <1>1 DEF PoolInv, Typed
  <1>7. PICK n \in Nat : n = Len(guards[t]) + 1
    BY <1>6
  <1>8. /\ DOMAIN guards'[t] = DOMAIN guards[t] \cup {n}
        /\ guards'[t][n] = gd
        /\ \A i \in DOMAIN guards[t] : guards'[t][i] = guards[t][i]
    BY <1>7, <1>6
  <1>9. \A u \in Thread : \A i \in DOMAIN guards[u] : Held(u, i)' = Held(u, i)
    BY <1>1, <1>6, <1>8 DEF Held
  <1>10. Held(t, n)' = g
    <2>1. Held(t, n)' = [thread |-> t, page |-> frames'[guards'[t][n].frame].page,
                         mode |-> guards'[t][n].mode]
      BY DEF Held
    <2>2. guards'[t][n] = gd /\ frames'[f].page = meta[f].occupant
      BY <1>1, <1>3, <1>8
    <2>3. QED
      BY <2>1, <2>2
  <1>11. Granted' = Granted \cup {g}
    <2>1. ASSUME NEW h, h \in Granted'
          PROVE  h \in Granted \cup {g}
      <3>1. PICK u \in Thread : \E i \in DOMAIN guards'[u] : h = Held(u, i)'
        BY <2>1, GrantedIs
      <3>2. PICK i \in DOMAIN guards'[u] : h = Held(u, i)'
        BY <3>1
      <3>3. CASE i \in DOMAIN guards[u]
        BY <1>9, <3>2, <3>3, GrantedIs
      <3>4. CASE u = t /\ i = n
        BY <1>10, <3>2, <3>4
      <3>5. QED
        BY <1>6, <1>8, <3>2, <3>3, <3>4
    <2>2. ASSUME NEW h, h \in Granted
          PROVE  h \in Granted'
      <3>1. PICK u \in Thread : \E i \in DOMAIN guards[u] : h = Held(u, i)
        BY <2>2, GrantedIs
      <3>2. PICK i \in DOMAIN guards[u] : h = Held(u, i)
        BY <3>1
      <3>3. i \in DOMAIN guards'[u]
        BY <1>6, <1>8, <3>2
      <3>4. h = Held(u, i)'
        BY <1>9, <3>2
      <3>5. QED
        BY <3>3, <3>4, GrantedIs
    <2>3. g \in Granted'
      <3>1. n \in DOMAIN guards'[t]
        BY <1>8
      <3>2. QED
        BY <1>10, <3>1, GrantedIs
    <2> HIDE DEF g
    <2>4. QED
      BY <2>1, <2>2, <2>3
  <1>12. Values' = Values
    BY <1>1 DEF Values, Content
  <1>13. \A h \in Granted : ~ Store!Excludes(g, h)
    BY <1>5 DEF Granted
  <1>14. QED
    BY <1>4, <1>11, <1>12, <1>13 DEF Store!Latch, Granted, Values

(* Who drops a guard gives up that one, and no other one looks the same. *)
LEMMA DropUnlatches ==
  ASSUME PoolInv, NEW t \in Thread, NEW i \in DOMAIN guards[t], Drop(t, i)
  PROVE  \E g \in Granted : Store!Unlatch(g)
  <1> DEFINE gs  == guards[t]
             gsx == guards'[t]
             g   == Held(t, i)
  <1>1. /\ guards' = [guards EXCEPT ![t] = RemoveAt(@, i)]
        /\ UNCHANGED <<disk, frames, table>>
    BY DEF Drop, inner
  <1>2. /\ gsx = RemoveAt(gs, i) /\ \A u \in Thread \ {t} : guards'[u] = guards[u]
        /\ gs \in Seq([frame : Frame, mode : Mode])
    BY <1>1 DEF PoolInv, Typed
  <1>3. /\ gsx \in Seq([frame : Frame, mode : Mode]) /\ Len(gsx) = Len(gs) - 1
        /\ \A j \in 1..(Len(gs) - 1) : gsx[j] = gs[IF j < i THEN j ELSE j + 1]
    BY <1>2, Removed
  <1>4. /\ i \in 1..Len(gs) /\ Len(gs) \in Nat /\ DOMAIN gs = 1..Len(gs)
        /\ DOMAIN gsx = 1..(Len(gs) - 1)
    BY <1>2, <1>3
  <1>5. ASSUME NEW k \in DOMAIN gs, k # i
        PROVE  \E j \in DOMAIN gsx : gsx[j] = gs[k]
    <2> DEFINE j == IF k < i THEN k ELSE k - 1
    <2>1. j \in 1..(Len(gs) - 1) /\ (IF j < i THEN j ELSE j + 1) = k
      BY <1>4, <1>5
    <2>2. QED
      BY <1>3, <1>4, <2>1
  <1>6. ASSUME NEW j \in DOMAIN gsx
        PROVE  \E k \in DOMAIN gs : k # i /\ gsx[j] = gs[k]
    <2> DEFINE k == IF j < i THEN j ELSE j + 1
    <2>1. k \in DOMAIN gs /\ k # i
      BY <1>4
    <2>2. QED
      BY <1>3, <1>4, <2>1
  <1>7. ASSUME NEW k \in DOMAIN gs, k # i
        PROVE  Held(t, k) # g
    <2> DEFINE f == gs[i].frame
               h == gs[k].frame
    <2>1. f \in Frame /\ meta[f].occupant \in Page /\ frames[f].page = meta[f].occupant
      BY GuardedHasPage
    <2>2. h \in Frame /\ meta[h].occupant \in Page /\ frames[h].page = meta[h].occupant
      BY GuardedHasPage
    <2>3. h # f
      BY <1>7 DEF PoolInv, GuardsApart
    <2>4. meta[h].occupant # meta[f].occupant
      BY <2>1, <2>2, <2>3, NilApart, PagesApart DEF PoolInv
    <2>5. QED
      BY <2>1, <2>2, <2>4 DEF Held
  <1>8. g \in Granted
    BY GrantedIs
  <1>9. ASSUME NEW h, h \in Granted'
        PROVE  h \in Granted /\ h # g
    <2>1. PICK u \in Thread : \E j \in DOMAIN guards'[u] : h = Held(u, j)'
      BY <1>9, GrantedIs
    <2>2. PICK j \in DOMAIN guards'[u] : h = Held(u, j)'
      BY <2>1
    <2>3. h = [thread |-> u, page |-> frames[guards'[u][j].frame].page, mode |-> guards'[u][j].mode]
      BY <1>1, <2>2 DEF Held
    <2>4. CASE u # t
      <3>1. j \in DOMAIN guards[u] /\ h = Held(u, j)
        BY <1>2, <2>2, <2>3, <2>4 DEF Held
      <3>2. h # g
        BY <2>3, <2>4 DEF Held
      <3>3. QED
        BY <3>1, <3>2, GrantedIs
    <2>5. CASE u = t
      <3>1. PICK k \in DOMAIN gs : k # i /\ gsx[j] = gs[k]
        BY <1>6, <2>2, <2>5
      <3>2. h = Held(t, k)
        BY <2>3, <2>5, <3>1 DEF Held
      <3>3. QED
        BY <1>7, <3>1, <3>2, GrantedIs
    <2>6. QED
      BY <2>4, <2>5
  <1>10. ASSUME NEW h, h \in Granted, h # g
         PROVE  h \in Granted'
    <2>1. PICK u \in Thread : \E k \in DOMAIN guards[u] : h = Held(u, k)
      BY <1>10, GrantedIs
    <2>2. PICK k \in DOMAIN guards[u] : h = Held(u, k)
      BY <2>1
    <2>3. PICK j \in DOMAIN guards'[u] : guards'[u][j] = guards[u][k]
      <3>1. CASE u # t
        BY <1>2, <2>2, <3>1
      <3>2. CASE u = t
        <4>1. k # i
          BY <1>10, <2>2, <3>2
        <4>2. QED
          BY <1>5, <2>2, <3>2, <4>1
      <3>3. QED
        BY <3>1, <3>2
    <2>4. h = Held(u, j)'
      BY <1>1, <2>2, <2>3 DEF Held
    <2>5. QED
      BY <2>3, <2>4, GrantedIs
  <1> HIDE DEF g
  <1>11. Granted' = Granted \ {g}
    BY <1>8, <1>9, <1>10
  <1>12. Values' = Values
    BY <1>1 DEF Values, Content
  <1>13. QED
    BY <1>8, <1>11, <1>12 DEF Store!Unlatch, Granted, Values

(* Who changes a page changes the store's page under the store's guard. *)
LEMMA ChangeWrites ==
  ASSUME PoolInv, NEW t \in Thread, NEW i \in DOMAIN guards[t], Change(t, i)
  PROVE  \E g \in Granted : Store!Write(g)
  <1> DEFINE f == guards[t][i].frame
             g == Held(t, i)
  <1>1. /\ frames' = [frames EXCEPT ![f].value = written'] /\ guards[t][i].mode = "write"
        /\ UNCHANGED <<disk, table, guards>>
    BY DEF Change, inner
  <1>2. f \in Frame /\ meta[f].occupant \in Page /\ frames[f].page = meta[f].occupant
    BY GuardedHasPage
  <1>3. g.mode = "write" /\ g.page = meta[f].occupant
    BY <1>1, <1>2 DEF Held
  <1>4. g \in Granted
    BY GrantedIs
  <1>5. \A h \in Frame : /\ frames'[h].page = frames[h].page
                         /\ h # f => frames'[h] = frames[h]
    BY <1>1, <1>2 DEF PoolInv, Typed, FrameType
  <1>6. Granted' = Granted
    <2>1. \A u \in Thread : \A j \in DOMAIN guards[u] : guards[u][j].frame \in Frame
      BY GuardTyped DEF PoolInv
    <2>2. QED
      BY <1>1, <1>5, <2>1, SameGrants
  <1>7. ASSUME NEW q \in Page, q # g.page
        PROVE  Content(q)' = Content(q)
    <2>1. table[q] # Nil => table[q] \in Frame /\ meta[table[q]].occupant = q
      BY DEF PoolInv, Typed, PlacesAgree
    <2>2. table[q] # Nil => table[q] # f
      BY <1>3, <1>7, <2>1
    <2>3. QED
      BY <1>1, <1>5, <2>1, <2>2 DEF Content
  <1>8. Values' = [Values EXCEPT ![g.page] = Values'[g.page]]
    BY <1>7 DEF Values
  <1> HIDE DEF g
  <1>9. QED
    BY <1>3, <1>4, <1>6, <1>8 DEF Store!Write, Granted, Values

(* The initial states show the store's initial state. *)
LEMMA StoreInit == Init => Store!Init
  <1> SUFFICES ASSUME Init PROVE Store!Init
    OBVIOUS
  <1>1. Values = [p \in Page |-> 0]
    BY DEF Init, Values, Content
  <1>2. \A h : h \notin Granted
    BY GrantedIs DEF Init
  <1>3. Granted = {}
    BY <1>2
  <1>4. QED
    BY <1>1, <1>3 DEF Store!Init, Values, Granted

(* Every step shows a step of the store, or nothing. *)
LEMMA StoreNext ==
  FlushesAlone /\ PoolInv /\ SweepRight /\ CleanInv /\ [Next]_vars => [Store!Next]_(Store!vars)
  <1> SUFFICES ASSUME FlushesAlone, PoolInv, SweepRight, CleanInv, [Next]_vars
               PROVE  Store!Next \/ (Values' = Values /\ Granted' = Granted)
    BY DEF Store!vars, Values, Granted
  <1>1. CASE Next
    <2>1. PICK t \in Thread :
             \/ \E p \in Page, mode \in Mode :
                   Hit(t, p, mode) \/ LoadFree(t, p, mode) \/ Evict(t, p, mode)
             \/ PassOver(t) \/ Spare(t) \/ Take(t) \/ PoolFull(t)
             \/ \E i \in DOMAIN guards[t] : Change(t, i) \/ Drop(t, i)
             \/ Latch(t) \/ Unpin(t)
             \/ Flush(t) \/ FlushFrame(t) \/ ClearDirty(t)
      BY <1>1 DEF Next
    <2>2. ASSUME NEW p \in Page, NEW mode \in Mode,
                 Hit(t, p, mode) \/ LoadFree(t, p, mode) \/ Evict(t, p, mode)
          PROVE  Values' = Values /\ Granted' = Granted
      BY <2>2, LoadStutters, NothingStutters DEF Hit, Evict, inner
    <2>8. CASE PassOver(t) \/ Spare(t) \/ PoolFull(t)
      BY <2>8, NothingStutters DEF PassOver, Spare, Turns, GoesOn, PoolFull, inner
    <2>9. CASE Take(t)
      <3>1. step[t].page \in Page /\ step[t].mode \in Mode
        BY <2>9 DEF Take, Victim, Turns, PoolInv, Typed, StepTyped
      <3>2. QED
        BY <2>9, <3>1, LoadStutters
    <2>3. ASSUME NEW i \in DOMAIN guards[t], Change(t, i) \/ Drop(t, i)
          PROVE  Store!Next
      BY <2>3, ChangeWrites, DropUnlatches DEF Store!Next, Granted
    <2>4. CASE Latch(t)
      BY <2>4, LatchLatches DEF Store!Next
    <2>5. CASE Unpin(t) \/ Flush(t) \/ ClearDirty(t)
      BY <2>5, NothingStutters DEF Unpin, Flush, ClearDirty, inner
    <2>6. CASE FlushFrame(t)
      BY <2>6, FlushFrameStutters
    <2>7. QED
      BY <2>1, <2>2, <2>3, <2>4, <2>5, <2>6, <2>8, <2>9
  <1>2. CASE UNCHANGED vars
    BY <1>2, NothingStutters DEF vars
  <1>3. QED
    BY <1>1, <1>2

(* The pool is the store its callers think it is: pages keep what was written *)
(* last, and guards exclude each other, whatever is loaded, evicted and       *)
(* flushed meanwhile, as long as nobody writes while a thread flushes (the    *)
(* pool's lock order and flush_frame, which takes the latch and no pin).      *)
THEOREM PoolImplementsStore == ASSUME FlushesAlone PROVE Spec => Implements
  <1>1. PoolInv /\ SweepRight /\ CleanInv /\ [Next]_vars => CleanInv'
    BY CleanInvNext
  <1>2. PoolInv /\ SweepRight /\ CleanInv /\ [Next]_vars => [Store!Next]_(Store!vars)
    BY StoreNext
  <1>3. QED
    BY <1>1, <1>2, StoreInit, CleanInvInit, PoolInvHolds, PTL
       DEF Spec, Implements, Store!Spec
=============================================================================
