---------------------------- MODULE InductionLemmas ----------------------------
(***************************************************************************)
(* Induction over the natural numbers for the proofs of other modules: by  *)
(* the least counterexample, as facts about sets.                          *)
(***************************************************************************)
EXTENDS Naturals, FiniteSetsExt, FiniteSetTheorems, TLAPS

(* What holds of 0, and of every number after one of which it holds. *)
LEMMA Climbs ==
  ASSUME NEW n \in Nat, NEW Good, 0 \in Good,
         \A i \in 1..n : i - 1 \in Good => i \in Good
  PROVE  0..n \subseteq Good
  <1> DEFINE Bad == {i \in 0..n : i \notin Good}
  <1> SUFFICES ASSUME Bad # {} PROVE FALSE
    OBVIOUS
  <1>1. Bad \in SUBSET Nat
    OBVIOUS
  <1>2. \E i \in Bad : \A k \in Bad : ~ (<<k, i>> \in OpToRel(<, Nat))
    BY <1>1, NatLessThanWellFounded, WFMin
  <1>3. OpToRel(<, Nat) = {p \in Nat \X Nat : p[1] < p[2]}
    BY DEF OpToRel
  <1>4. PICK i \in Bad : \A k \in Bad : ~ (<<k, i>> \in OpToRel(<, Nat))
    BY <1>2
  <1>5. \A k \in Bad : ~ (k < i)
    <2> SUFFICES ASSUME NEW k \in Bad, k < i PROVE FALSE
      OBVIOUS
    <2>1. <<k, i>> \in Nat \X Nat
      OBVIOUS
    <2>2. QED
      BY <1>3, <1>4, <2>1
  <1>6. i \in 0..n /\ i # 0 /\ i \notin Good
    OBVIOUS
  <1>7. i - 1 \in 0..n /\ i \in 1..n /\ i - 1 < i
    BY <1>6
  <1>8. i - 1 \notin Bad
    BY <1>5, <1>7
  <1>9. QED
    BY <1>6, <1>7, <1>8

\* f[i] is what i steps from start lead to.
Fold(f, A, n, start, step) ==
    f \in [0..n -> A] /\ f[0] = start /\ \A i \in 1..n : f[i] = step[<<f[i - 1], i>>]

(* A fold over the numbers up to n exists, and stays in A. *)
LEMMA Folds ==
  ASSUME NEW A, NEW n \in Nat, NEW start, start \in A,
         NEW step, step \in [A \X (1..n) -> A]
  PROVE  \E f : Fold(f, A, n, start, step)
  <1> DEFINE Leads(m, f) == f \in [0..m -> A] /\ f[0] = start
                            /\ \A i \in 1..m : f[i] = step[<<f[i - 1], i>>]
             Good == {m \in 0..n : \E f : Leads(m, f)}
  <1>1. 0 \in Good
    <2> DEFINE g == [i \in 0..0 |-> start]
    <2>1. g \in [0..0 -> A] /\ g[0] = start /\ \A i \in 1..0 : FALSE
      OBVIOUS
    <2> HIDE DEF g
    <2>2. Leads(0, g)
      BY <2>1
    <2>3. QED
      BY <2>2
  <1>2. ASSUME NEW m \in 1..n, m - 1 \in Good PROVE m \in Good
    <2>1. PICK f : Leads(m - 1, f)
      BY <1>2
    <2> DEFINE g == [i \in 0..m |-> IF i = m THEN step[<<f[m - 1], m>>] ELSE f[i]]
    <2>2. f[m - 1] \in A
      BY <2>1
    <2>3. step[<<f[m - 1], m>>] \in A
      <3>1. <<f[m - 1], m>> \in A \X (1..n)
        BY <2>2
      <3>2. QED
        BY <3>1
    <2>4. g \in [0..m -> A] /\ g[0] = start
      BY <2>1, <2>3
    <2>5. \A i \in 0..(m - 1) : g[i] = f[i]
      OBVIOUS
    <2>6. ASSUME NEW i \in 1..m PROVE g[i] = step[<<g[i - 1], i>>]
      <3>1. CASE i = m
        <4>1. m \in 0..m /\ m - 1 \in 0..(m - 1)
          OBVIOUS
        <4>2. g[m] = step[<<f[m - 1], m>>]
          BY <4>1
        <4>3. g[m - 1] = f[m - 1]
          BY <2>5, <4>1
        <4>4. QED
          BY <3>1, <4>2, <4>3
      <3>2. CASE i # m
        <4>1. i \in 1..(m - 1) /\ i - 1 \in 0..(m - 1) /\ i \in 0..(m - 1)
          BY <3>2
        <4>2. QED
          BY <2>1, <2>5, <4>1
      <3>3. QED
        BY <3>1, <3>2
    <2> HIDE DEF g
    <2>7. Leads(m, g)
      BY <2>4, <2>6
    <2>8. QED
      BY <2>7
  <1> HIDE DEF Good
  <1>3. 0..n \subseteq Good
    BY <1>1, <1>2, Climbs
  <1>4. n \in Good
    BY <1>3
  <1>5. QED
    BY <1>4 DEF Good, Fold

(* A set of naturals has a least element. *)
LEMMA MinRight ==
  ASSUME NEW S \in SUBSET Nat, S # {}
  PROVE  Min(S) \in S /\ \A x \in S : Min(S) <= x
  <1>1. \E m \in S : \A x \in S : ~ (<<x, m>> \in OpToRel(<, Nat))
    BY NatLessThanWellFounded, WFMin
  <1>2. OpToRel(<, Nat) = {p \in Nat \X Nat : p[1] < p[2]}
    BY DEF OpToRel
  <1>3. PICK m \in S : \A x \in S : ~ (<<x, m>> \in OpToRel(<, Nat))
    BY <1>1
  <1>4. ASSUME NEW x \in S PROVE m <= x
    <2>1. <<x, m>> \in Nat \X Nat => ~ (x < m)
      BY <1>2, <1>3
    <2>2. QED
      BY <2>1
  <1>5. QED
    BY <1>4 DEF Min

(* A bounded one has a greatest. *)
LEMMA MaxRight ==
  ASSUME NEW n \in Nat, NEW S \in SUBSET (0..n), S # {}
  PROVE  Max(S) \in S /\ \A x \in S : Max(S) >= x
  <1> DEFINE Back == {n - x : x \in S}
  <1>1. Back \in SUBSET Nat /\ Back # {}
    <2>1. \A x \in S : x \in 0..n
      OBVIOUS
    <2>2. \A x \in S : n - x \in Nat
      BY <2>1
    <2>3. QED
      BY <2>2
  <1>2. PICK m \in Back : \A y \in Back : m <= y
    BY <1>1, MinRight
  <1>3. PICK k \in S : m = n - k
    BY <1>2
  <1>4. ASSUME NEW x \in S PROVE k >= x
    <2>1. n - x \in Back
      OBVIOUS
    <2>2. n - k <= n - x
      BY <1>2, <1>3, <2>1
    <2>3. QED
      BY <2>2
  <1>5. QED
    BY <1>4 DEF Max
================================================================================
