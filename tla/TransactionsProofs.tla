------------------------- MODULE TransactionsProofs -------------------------
(***************************************************************************)
(* Proofs about Transactions, for any number of transactions, tables, rows *)
(* and statements: the database uses the lock manager as it expects to be  *)
(* used, writes stay locked until the end, and what a transaction has read *)
(* stays as it was; undo puts back what was there, so that what is left is *)
(* what was committed and nobody reads anything else.                      *)
(*                                                                         *)
(* Two hypotheses.  Blocking: clients go through SharedDatabase, so that a *)
(* refused statement is tried again until it has its locks.  RowsStay: on  *)
(* disk no row appears or disappears, so that a second attempt wants the   *)
(* keys of the first; the runs of Transactions show what becomes of the    *)
(* locks where rows do disappear.  Tables in memory, which are locked as   *)
(* wholes, may grow and shrink.                                            *)
(***************************************************************************)
EXTENDS Transactions, FiniteSetTheorems, TLAPS

LMP == INSTANCE LockManagerProofs

RowsStay == Backend = "Disk" => \A w \in Work : w[2].op \in {"select", "update"}

------------------------------------------------------------------------------
(* The inductive invariant.                                                *)

State    == {"Unborn", "Active", "Aborted"} \cup Ended
AnyRow   == Row \cup {NoRow}
Record   == [op : {"insert", "update", "delete"}, table : Table, slot : Slot,
             before : AnyRow, after : AnyRow]
Context  == [state : State, level : Level, undo : Seq(Record)]
Reading  == [table : Table, ids : SUBSET Id, rows : SUBSET Row]

Typed ==
    /\ heap \in [Table -> [Slot -> AnyRow]]
    /\ tx \in [Txn -> Context]
    /\ call \in [Txn -> Stmt \cup {NoStmt}]
    /\ \A t \in Txn : InCall(t) => \E w \in Work : w[2] = call[t]
    /\ asleep \subseteq {t \in Txn : InCall(t)}
    /\ issued \in [Txn -> 0..MaxStmts]
    /\ seen \in [Txn -> SUBSET Reading]

\* The locks are in order, whatever the transactions are doing.
LocksRight == LMP!LockInv /\ LMP!PendingExact

\* The lock that guards a slot.
Place(tab, s) == IF Backend = "Memory" THEN TableKey(tab) ELSE RowKey(tab, s)

\* On disk a slot keeps its key, and the undo records put it back.
SeedId(s) == IF s <= Seeded THEN s ELSE 0

RowsFixed ==
    Backend = "Disk" =>
        /\ \A tab \in Table, s \in Slot : heap[tab][s].id = SeedId(s)
        /\ \A t \in Txn : \A i \in 1..Len(tx[t].undo) :
              /\ tx[t].undo[i].op = "update"
              /\ tx[t].undo[i].before.id = SeedId(tx[t].undo[i].slot)

\* The keys that t's statement needs: those of its attempt, and of any other.
Wanted(t) == Range(KeysOf(t, call[t]))

\* Who waits is in a call, and waits for what that call needs.
RequestsWanted(t) ==
    \A k \in Key : \A w \in LMP!Requests(entries[k]) : w.txn = t =>
        /\ tx[t].state = "Active"
        /\ InCall(t)
        /\ k \in Wanted(t)
        /\ w.mode = ModeOf(call[t])

\* An attempt still has to ask for the keys that it does not hold.
Attempt == [txn : Txn, keys : Seq(Key), victim : Txn \cup {0}, again : BOOLEAN]

RunRight ==
    \/ run = NoRun
    \/ /\ run \in Attempt
       /\ tx[run.txn].state = "Active" /\ InCall(run.txn)
       /\ Range(run.keys) \subseteq Wanted(run.txn)
       /\ \A k \in Wanted(run.txn) \ Range(run.keys) :
             entries[k].holders[run.txn] \in {LM!Exclusive, ModeOf(call[run.txn])}

\* Only a transaction that has begun, and has not ended, is in a call.
CallLive(t) == InCall(t) => Live(t)

\* Nothing is left of an earlier transaction where one begins.
BornClean(t) == tx[t].state = "Unborn" => pending[t] = {} /\ seen[t] = {}

\* READ COMMITTED: the grants on record are the Shared locks of one SELECT.
GrantsOfSelect(t) ==
    tx[t].state = "Active" /\ tx[t].level = "ReadCommitted" =>
        \A k \in pending[t] : /\ InCall(t) /\ call[t].op = "select"
                              /\ entries[k].holders[t] = LM!Shared

\* Whatever is still to be undone is under an exclusive lock.
ChangesLocked(t) ==
    \A i \in 1..Len(tx[t].undo) :
        entries[Place(tx[t].undo[i].table, tx[t].undo[i].slot)].holders[t] = LM!Exclusive

StableLevels == {"RepeatableRead", "Serializable"}

\* What was read is under a lock: on disk its rows, in memory its table.
ReadsLocked(t) ==
    Keeps(t, StableLevels) =>
        \A rd \in seen[t] : \A s \in Slot :
            Backend = "Memory" \/ s \in Occupied(heap, rd.table) =>
                entries[Place(rd.table, s)].holders[t] # LM!NoLock

\* What was read is still there.
StillThere(t) ==
    Keeps(t, StableLevels) =>
        \A rd \in seen[t] : \A r \in rd.rows :
            \/ \E s \in Slot : heap[rd.table][s] = r
            \/ WroteItself(t, rd.table, r.id)

\* Reading again finds no row that was not there.
NothingNew(t) ==
    Keeps(t, StableLevels) =>
        \A rd \in seen[t] : \A s \in Matching(heap, rd) :
            \/ heap[rd.table][s] \in rd.rows
            \/ WroteItself(t, rd.table, heap[rd.table][s].id)

TxnInv(t) ==
    /\ CallLive(t)
    /\ RequestsWanted(t)
    /\ BornClean(t)
    /\ GrantsOfSelect(t)
    /\ ChangesLocked(t)
    /\ ReadsLocked(t)
    /\ StillThere(t)
    /\ NothingNew(t)

TxInv ==
    /\ Typed
    /\ LocksRight
    /\ RowsFixed
    /\ RunRight
    /\ \A t \in Txn : TxnInv(t)

------------------------------------------------------------------------------
(* Sets of numbers in ascending order.                                     *)

(* Rank and Nth number the elements of a finite set of naturals. *)
LEMMA RankNth ==
  ASSUME NEW S \in SUBSET Nat, IsFiniteSet(S)
  PROVE  /\ Cardinality(S) \in Nat
         /\ \A x \in S : Rank(S, x) \in 1..Cardinality(S) /\ Nth(S, Rank(S, x)) = x
         /\ \A i \in 1..Cardinality(S) : Nth(S, i) \in S /\ Rank(S, Nth(S, i)) = i
  <1> DEFINE Below(x) == {y \in S : y <= x}
             n == Cardinality(S)
  <1>1. n \in Nat
    BY FS_CardinalityType
  <1>2. \A x : Below(x) \in SUBSET S /\ Rank(S, x) = Cardinality(Below(x))
    BY DEF Rank
  <1>3. \A x, y \in S : x <= y => Below(x) \in SUBSET Below(y)
    <2> SUFFICES ASSUME NEW x \in S, NEW y \in S, x <= y, NEW z \in Below(x)
                 PROVE  z \in Below(y)
      OBVIOUS
    <2>1. \A a \in S : a \in Nat
      OBVIOUS
    <2>2. QED
      BY <2>1
  <1>4. \A x, y \in S : x < y => y \notin Below(x)
    <2> SUFFICES ASSUME NEW x \in S, NEW y \in S, x < y, y \in Below(x) PROVE FALSE
      OBVIOUS
    <2>1. \A z \in S : z \in Nat
      OBVIOUS
    <2>2. QED
      BY <2>1
  <1>5. \A x \in S : x \in Below(x)
    OBVIOUS
  <1> HIDE DEF Below, n
  <1>6. \A x : IsFiniteSet(Below(x)) /\ Rank(S, x) \in Nat /\ Rank(S, x) <= n
    BY <1>2, FS_Subset, FS_CardinalityType DEF n
  <1>7. \A x \in S : Rank(S, x) # 0
    BY <1>2, <1>5, <1>6, FS_EmptySet
  <1>8. ASSUME NEW x \in S, NEW y \in S, x < y
        PROVE  Rank(S, x) < Rank(S, y)
    <2>1. Below(x) \in SUBSET Below(y) /\ Below(x) # Below(y)
      BY <1>3, <1>4, <1>5, <1>8
    <2>2. Cardinality(Below(x)) <= Cardinality(Below(y))
          /\ Cardinality(Below(x)) # Cardinality(Below(y))
      BY <1>6, <2>1, FS_Subset
    <2>3. QED
      BY <1>2, <1>6, <2>2
  <1>9. \A x, y \in S : Rank(S, x) = Rank(S, y) => x = y
    <2> SUFFICES ASSUME NEW x \in S, NEW y \in S, Rank(S, x) = Rank(S, y) PROVE x = y
      OBVIOUS
    <2>1. x \in Nat /\ y \in Nat /\ Rank(S, x) \in Nat
      BY <1>6
    <2>2. ~ (x < y) /\ ~ (y < x)
      BY <1>8, <2>1
    <2>3. QED
      BY <2>1, <2>2
  <1>10. \A x \in S : Rank(S, x) \in 1..n
    BY <1>1, <1>6, <1>7
  <1> DEFINE rank == [x \in S |-> Rank(S, x)]
  <1>11. rank \in [S -> 1..n] /\ \A x \in S : rank[x] = Rank(S, x)
    BY <1>10
  <1> HIDE DEF rank
  <1>12. rank \in Injection(S, 1..n)
    BY <1>9, <1>11 DEF Injection, IsInjective
  <1>13. IsFiniteSet(1..n) /\ Cardinality(1..n) = n
    BY <1>1, FS_Interval
  <1>14. rank \in Surjection(S, 1..n)
    BY <1>12, <1>13, FS_Injection DEF n
  <1>15. \A i \in 1..n : \E x \in S : Rank(S, x) = i
    <2>1. \A i \in 1..n : \E x \in S : rank[x] = i
      BY <1>14 DEF Surjection
    <2>2. QED
      BY <1>11, <2>1
  <1>16. \A i \in 1..n : Nth(S, i) \in S /\ Rank(S, Nth(S, i)) = i
    BY <1>15 DEF Nth
  <1>17. QED
    BY <1>1, <1>9, <1>10, <1>16 DEF n

------------------------------------------------------------------------------
(* Undo.                                                                   *)

(* The first m of the n records are undone, the last one first. *)
Undoes(f, m, n, start, undo) ==
    f = [i \in 0..m |-> IF i = 0 THEN start ELSE Undone(f[i - 1], undo[n + 1 - i])]

(* The recursion of Undo has a solution. *)
LEMMA UndoneBy ==
  ASSUME NEW n \in Nat, NEW start, NEW undo
  PROVE  \E f : Undoes(f, n, n, start, undo)
  <1> DEFINE Steps(m, f) == f = [i \in 0..m |-> IF i = 0 THEN start ELSE Undone(f[i - 1], undo[n + 1 - i])]
             Bad == {m \in 0..n : ~ \E f : Steps(m, f)}
  <1>1. Bad = {}
    <2> SUFFICES ASSUME Bad # {} PROVE FALSE
      OBVIOUS
    <2>1. Bad \in SUBSET Nat
      OBVIOUS
    <2>2. PICK m \in Bad : \A k \in Bad : m <= k
      BY <2>1, LMP!LeastNatural
    <2>3. m # 0
      <3>1. Steps(0, [i \in 0..0 |-> start])
        OBVIOUS
      <3>2. QED
        BY <3>1
    <2>4. m - 1 \in 0..n /\ m - 1 \notin Bad
      <3>1. m \in 0..n
        OBVIOUS
      <3> HIDE DEF Bad
      <3>2. QED
        BY <2>1, <2>2, <2>3, <3>1
    <2>5. PICK f : Steps(m - 1, f)
      BY <2>4
    <2> DEFINE g == [i \in 0..m |-> IF i = m THEN Undone(f[m - 1], undo[n + 1 - m]) ELSE f[i]]
    <2>6. \A i \in 0..(m - 1) : g[i] = f[i] /\ f[i] = IF i = 0 THEN start ELSE Undone(f[i - 1], undo[n + 1 - i])
      BY <2>2, <2>3, <2>4, <2>5
    <2>7. \A i \in 0..m : g[i] = IF i = 0 THEN start ELSE Undone(g[i - 1], undo[n + 1 - i])
      <3> SUFFICES ASSUME NEW i \in 0..m 
                   PROVE g[i] = IF i = 0 THEN start ELSE Undone(g[i - 1], undo[n + 1 - i])
        OBVIOUS
      <3>1. CASE i = m
        BY <2>2, <2>3, <2>6, <3>1
      <3>2. CASE i # m
        <4>1. i \in 0..(m - 1) /\ (i # 0 => i - 1 \in 0..(m - 1))
          BY <2>2, <3>2
        <4>2. QED
          BY <2>6, <4>1
      <3>3. QED
        BY <3>1, <3>2
    <2>8. Steps(m, g)
      BY <2>7
    <2>9. QED
      BY <2>2, <2>8
  <1>2. n \in 0..n
    OBVIOUS
  <1>3. QED
    BY <1>1, <1>2 DEF Undoes

(* What the undo of each record, the last one first, makes of the state that *)
(* the later ones left holds of the undo of all of them.                     *)
LEMMA UndoSteps ==
  ASSUME NEW h, NEW undo, Len(undo) \in Nat, NEW G,
         [heap |-> h, remap |-> [tab \in Table |-> [s \in Slot |-> s]], ok |-> TRUE] \in G[Len(undo)],
         \A i \in 1..Len(undo) : \A acc \in G[i] : Undone(acc, undo[i]) \in G[i - 1]
  PROVE  Undo(h, undo) \in G[0]
  <1> DEFINE n == Len(undo)
             start == [heap |-> h, remap |-> [tab \in Table |-> [s \in Slot |-> s]], ok |-> TRUE]
             after[i \in 0..n] == IF i = 0 THEN start ELSE Undone(after[i - 1], undo[n + 1 - i])
  <1>1. Undo(h, undo) = after[n]
    BY DEF Undo
  <1> HIDE DEF start
  <1>2. after = [i \in 0..n |-> IF i = 0 THEN start ELSE Undone(after[i - 1], undo[n + 1 - i])]
    <2>1. after = CHOOSE f : Undoes(f, n, n, start, undo)
      BY DEF Undoes
    <2>2. \E f : Undoes(f, n, n, start, undo)
      BY UndoneBy
    <2>3. Undoes(after, n, n, start, undo)
      BY <2>1, <2>2
    <2>4. QED
      BY <2>3 DEF Undoes
  <1> HIDE DEF after
  <1> DEFINE Bad == {i \in 0..n : after[i] \notin G[n - i]}
  <1>3. Bad = {}
    <2> SUFFICES ASSUME Bad # {} PROVE FALSE
      OBVIOUS
    <2>1. Bad \in SUBSET Nat
      OBVIOUS
    <2>2. PICK m \in Bad : \A k \in Bad : m <= k
      BY <2>1, LMP!LeastNatural
    <2>3. m # 0
      BY <1>2 DEF start
    <2>4. m - 1 \in 0..n /\ m - 1 \notin Bad /\ n + 1 - m \in 1..n
      BY <2>2, <2>3
    <2>5. after[m] = Undone(after[m - 1], undo[n + 1 - m])
      BY <1>2, <2>2, <2>3
    <2>6. after[m - 1] \in G[n + 1 - m]
      <3>1. n - (m - 1) = n + 1 - m
        BY <2>2, <2>4
      <3>2. QED
        BY <2>4, <3>1
    <2>7. after[m] \in G[n - m]
      <3>1. (n + 1 - m) - 1 = n - m
        BY <2>2, <2>4
      <3>2. QED
        BY <2>4, <2>5, <2>6, <3>1
    <2>8. QED
      BY <2>2, <2>7
  <1>4. n \notin Bad /\ n \in 0..n /\ n - n = 0
    BY <1>3
  <1>5. QED
    BY <1>1, <1>4

(* What every record preserves, the undo of all of them preserves. *)
LEMMA UndoStays ==
  ASSUME NEW h, NEW undo, Len(undo) \in Nat, NEW G,
         [heap |-> h, remap |-> [tab \in Table |-> [s \in Slot |-> s]], ok |-> TRUE] \in G,
         \A acc \in G : \A i \in 1..Len(undo) : Undone(acc, undo[i]) \in G
  PROVE  Undo(h, undo) \in G
  <1> DEFINE F == [i \in 0..Len(undo) |-> G]
  <1>1. /\ F[Len(undo)] = G /\ F[0] = G
        /\ \A i \in 1..Len(undo) : F[i] = G /\ F[i - 1] = G
    OBVIOUS
  <1> HIDE DEF F
  <1>2. QED
    BY <1>1, UndoSteps

------------------------------------------------------------------------------
(* The keys of a statement.                                                *)

(* A row is told from a free slot by its key, and so are the statements. *)
LEMMA Distinct ==
  /\ \A r \in AnyRow : r.id \in Id \cup {0} /\ (r # NoRow <=> r.id # 0) /\ (r # NoRow <=> r \in Row)
  /\ NoStmt \notin Stmt
  /\ \A stmt \in Stmt : /\ stmt.op \in {"select", "insert", "update", "delete"}
                        /\ stmt.table \in Table /\ stmt.ids \in SUBSET Id
  <1>1. \A r \in Row : r.id \in Id /\ r.id # 0
    BY BoundsAssumption DEF Row
  <1>2. NoRow.id = 0 /\ NoRow.by = 0
    BY DEF NoRow
  <1>3. NoStmt.op = "none" /\ \A stmt \in Stmt : stmt.op # "none"
    BY DEF NoStmt, Stmt
  <1>4. QED
    BY <1>1, <1>2, <1>3 DEF AnyRow, Stmt

(* The contexts, the undo records and the results of reading. *)
LEMMA Contexts ==
  ASSUME Typed, NEW t \in Txn
  PROVE  /\ tx[t] \in Context /\ tx[t].state \in State /\ tx[t].level \in Level
         /\ tx[t].undo \in Seq(Record) /\ Len(tx[t].undo) \in Nat
         /\ \A i \in 1..Len(tx[t].undo) :
               /\ tx[t].undo[i] \in Record
               /\ tx[t].undo[i].op \in {"insert", "update", "delete"}
               /\ tx[t].undo[i].table \in Table /\ tx[t].undo[i].slot \in Slot
               /\ tx[t].undo[i].before \in AnyRow /\ tx[t].undo[i].after \in AnyRow
         /\ InCall(t) => call[t] \in Stmt /\ \E w \in Work : w[2] = call[t]
         /\ \A rd \in seen[t] : rd.table \in Table /\ rd.ids \in SUBSET Id /\ rd.rows \in SUBSET Row
  <1>1. tx[t] \in Context
    BY DEF Typed
  <1>2. tx[t].state \in State /\ tx[t].level \in Level /\ tx[t].undo \in Seq(Record)
    BY <1>1 DEF Context
  <1>3. Len(tx[t].undo) \in Nat /\ \A i \in 1..Len(tx[t].undo) : tx[t].undo[i] \in Record
    BY <1>2
  <1>4. \A rec \in Record : /\ rec.op \in {"insert", "update", "delete"}
                            /\ rec.table \in Table /\ rec.slot \in Slot
                            /\ rec.before \in AnyRow /\ rec.after \in AnyRow
    BY DEF Record
  <1>5. InCall(t) => call[t] \in Stmt /\ \E w \in Work : w[2] = call[t]
    BY DEF Typed, InCall
  <1>6. \A rd \in seen[t] : rd.table \in Table /\ rd.ids \in SUBSET Id /\ rd.rows \in SUBSET Row
    BY DEF Typed, Reading
  <1>7. QED
    BY <1>1, <1>2, <1>3, <1>4, <1>5, <1>6

(* Table numbers, slots and keys. *)
LEMMA Places ==
  /\ Slot \in SUBSET Nat /\ IsFiniteSet(Slot)
  /\ Backend # "Memory" => Backend = "Disk"
  /\ \A tab \in Table : TableKey(tab) \in Key
  /\ \A tab \in Table, s \in Slot : RowKey(tab, s) \in Key /\ Place(tab, s) \in Key
  <1>1. NSlots \in Nat \ {0}
    BY BoundsAssumption
  <1>2. Slot \in SUBSET Nat /\ IsFiniteSet(Slot)
    BY <1>1, FS_Interval DEF Slot
  <1>3. QED
    BY <1>1, <1>2, BackendAssumption DEF TableKey, RowKey, Place, Key, Slot

(* The keys of some rows of a table. *)
LEMMA RowKeysRight ==
  ASSUME NEW tab \in Table, NEW slots \in SUBSET Slot
  PROVE  /\ RowKeys(tab, slots) \in Seq(Key)
         /\ Range(RowKeys(tab, slots)) = {RowKey(tab, s) : s \in slots}
  <1>1. slots \in SUBSET Nat /\ IsFiniteSet(slots)
    BY Places, FS_Subset
  <1> DEFINE n == Cardinality(slots)
  <1>2. /\ n \in Nat
        /\ \A x \in slots : Rank(slots, x) \in 1..n /\ Nth(slots, Rank(slots, x)) = x
        /\ \A i \in 1..n : Nth(slots, i) \in slots
    BY <1>1, RankNth
  <1> HIDE DEF n
  <1>3. /\ DOMAIN RowKeys(tab, slots) = 1..n
        /\ \A i \in 1..n : RowKeys(tab, slots)[i] = RowKey(tab, Nth(slots, i))
    BY DEF RowKeys, n
  <1>4. \A i \in 1..n : RowKeys(tab, slots)[i] \in Key
    BY <1>2, <1>3, Places
  <1>5. RowKeys(tab, slots) \in [1..n -> Key]
    BY <1>3, <1>4 DEF RowKeys, n
  <1>6. RowKeys(tab, slots) \in Seq(Key)
    BY <1>2, <1>5
  <1>7. \A k : k \in Range(RowKeys(tab, slots)) <=> k \in {RowKey(tab, s) : s \in slots}
    BY <1>2, <1>3 DEF Range
  <1>8. QED
    BY <1>6, <1>7

(* What a statement locks: all that it reads from READ COMMITTED up, and    *)
(* the rows that it changes, or their table.                                *)
LEMMA KeysRight ==
  ASSUME Typed, NEW t \in Txn, NEW stmt \in Stmt
  PROVE  /\ KeysOf(t, stmt) \in Seq(Key)
         /\ Range(KeysOf(t, stmt)) \subseteq Key
         /\ stmt.op = "select" /\ tx[t].level # "ReadUncommitted" =>
               \A s \in Slot : Backend = "Memory" \/ s \in Occupied(heap, stmt.table) =>
                   Place(stmt.table, s) \in Range(KeysOf(t, stmt))
         /\ stmt.op \in {"update", "delete"} =>
               \A s \in Matching(heap, stmt) : Place(stmt.table, s) \in Range(KeysOf(t, stmt))
         /\ stmt.op = "insert" /\ Backend = "Memory" =>
               \A s \in Slot : Place(stmt.table, s) \in Range(KeysOf(t, stmt))
  <1> DEFINE tab == stmt.table
             k == TableKey(tab)
             occ == Occupied(heap, tab)
             mat == Matching(heap, stmt)
  <1>1. tab \in Table /\ stmt.op \in {"select", "insert", "update", "delete"} /\ k \in Key
    BY Distinct, Places
  <1>2. occ \in SUBSET Slot /\ mat \in SUBSET Slot /\ mat \subseteq occ
    BY DEF Occupied, Matching
  <1>3. /\ <<>> \in Seq(Key) /\ Range(<<>>) = {}
        /\ <<k>> \in Seq(Key) /\ Range(<<k>>) = {k}
    BY <1>1 DEF Range
  <1>4. \A slots \in SUBSET Slot : /\ RowKeys(tab, slots) \in Seq(Key)
                                   /\ Range(RowKeys(tab, slots)) = {RowKey(tab, s) : s \in slots}
    BY <1>1, RowKeysRight
  <1> DEFINE rk == RowKeys(tab, occ)
  <1>5. rk \o <<k>> \in Seq(Key) /\ {RowKey(tab, s) : s \in occ} \subseteq Range(rk \o <<k>>)
    <2>1. rk \in Seq(Key) /\ Range(rk) = {RowKey(tab, s) : s \in occ}
      BY <1>2, <1>4
    <2> HIDE DEF rk, k
    <2>2. rk \o <<k>> \in Seq(Key) /\ Len(rk \o <<k>>) = Len(rk) + 1 /\ Len(rk) \in Nat
          /\ \A i \in 1..Len(rk) : (rk \o <<k>>)[i] = rk[i]
      BY <1>1, <2>1
    <2>3. Range(rk) \subseteq Range(rk \o <<k>>)
      BY <2>1, <2>2 DEF Range
    <2>4. QED
      BY <2>1, <2>2, <2>3
  <1>6. \A s \in Slot : /\ Backend = "Memory" => Place(tab, s) = k
                        /\ Backend # "Memory" => Place(tab, s) = RowKey(tab, s)
    BY DEF Place
  <1>7. \A q \in Seq(Key) : Range(q) \subseteq Key
    BY DEF Range
  <1> HIDE DEF occ, mat, k, tab
  <1>8. CASE stmt.op = "select"
    <2>1. KeysOf(t, stmt) =
            IF tx[t].level = "ReadUncommitted" THEN <<>>
            ELSE IF Backend = "Memory"   THEN <<k>>
            ELSE rk \o (IF tx[t].level = "Serializable" THEN <<k>> ELSE <<>>)
      BY <1>8 DEF KeysOf, ReadKeys, occ, k, tab
    <2>2. rk \o <<>> = rk /\ rk \in Seq(Key) /\ Range(rk) = {RowKey(tab, s) : s \in occ}
      BY <1>2, <1>4
    <2> HIDE DEF rk
    <2>3. KeysOf(t, stmt) \in Seq(Key)
      BY <1>3, <1>5, <2>1, <2>2
    <2>4. tx[t].level # "ReadUncommitted" =>
               \A s \in Slot : Backend = "Memory" \/ s \in occ =>
                   Place(tab, s) \in Range(KeysOf(t, stmt))
      BY <1>3, <1>5, <1>6, <2>1, <2>2
    <2>5. QED
      BY <1>7, <1>8, <2>3, <2>4 DEF occ, tab
  <1>9. CASE stmt.op = "insert"
    <2>1. KeysOf(t, stmt) = IF Backend = "Memory" \/ tx[t].level = "Serializable"
                            THEN <<k>> ELSE <<>>
      BY <1>9 DEF KeysOf, InsertKeys, k, tab
    <2>2. QED
      BY <1>3, <1>6, <1>7, <1>9, <2>1 DEF tab
  <1>10. CASE stmt.op \in {"update", "delete"}
    <2>1. KeysOf(t, stmt) = IF Backend = "Memory" THEN <<k>> ELSE RowKeys(tab, mat)
      BY <1>10 DEF KeysOf, WriteKeys, k, tab, mat
    <2>2. RowKeys(tab, mat) \in Seq(Key)
          /\ Range(RowKeys(tab, mat)) = {RowKey(tab, s) : s \in mat}
      BY <1>2, <1>4
    <2>3. \A s \in mat : Place(tab, s) \in Range(KeysOf(t, stmt))
      BY <1>2, <1>3, <1>6, <2>1, <2>2
    <2>4. QED
      BY <1>3, <1>7, <1>10, <2>1, <2>2, <2>3 DEF tab, mat
  <1>11. QED
    BY <1>1, <1>8, <1>9, <1>10 DEF occ, mat, tab

(* On disk rows stay, so no step changes which rows a statement means. *)
LEMMA RowsMeant ==
  Typed /\ Typed' /\ RowsFixed /\ RowsFixed' /\ Backend = "Disk" =>
      /\ \A tab \in Table : Occupied(heap', tab) = Occupied(heap, tab)
      /\ \A stmt \in Stmt : Matching(heap', stmt) = Matching(heap, stmt)
  <1> SUFFICES ASSUME Typed, Typed', RowsFixed, RowsFixed', Backend = "Disk"
               PROVE  /\ \A tab \in Table : Occupied(heap', tab) = Occupied(heap, tab)
                      /\ \A stmt \in Stmt : Matching(heap', stmt) = Matching(heap, stmt)
    OBVIOUS
  <1>1. \A b \in Table, s \in Slot : /\ heap[b][s].id = heap'[b][s].id
                                     /\ heap[b][s] \in AnyRow /\ heap'[b][s] \in AnyRow
    BY DEF Typed, RowsFixed
  <1>2. \A b \in Table, s \in Slot : heap[b][s] # NoRow <=> heap'[b][s] # NoRow
    BY <1>1, Distinct
  <1>3. \A stmt \in Stmt : stmt.table \in Table
    BY Distinct
  <1>4. \A b \in Table : \A s : s \in Occupied(heap', b) <=> s \in Occupied(heap, b)
    BY <1>2 DEF Occupied
  <1>5. \A stmt \in Stmt : \A s : s \in Matching(heap', stmt) <=> s \in Matching(heap, stmt)
    BY <1>1, <1>3, <1>4 DEF Matching, Occupied
  <1>6. QED
    BY <1>4, <1>5

(* A second attempt of a statement wants the keys of the first. *)
LEMMA SameWanted ==
  ASSUME Typed, Typed', RowsFixed, RowsFixed', NEW t \in Txn, InCall(t),
         call'[t] = call[t], tx'[t].level = tx[t].level
  PROVE  Wanted(t)' = Wanted(t)
  <1>1. call[t] \in Stmt /\ call[t].table \in Table
    BY Distinct DEF Typed, InCall
  <1>2. CASE Backend = "Memory"
    BY <1>2 DEF Wanted, KeysOf, ReadKeys, InsertKeys, WriteKeys
  <1>3. CASE Backend # "Memory"
    <2>1. /\ Occupied(heap', call[t].table) = Occupied(heap, call[t].table)
          /\ Matching(heap', call[t]) = Matching(heap, call[t])
      BY <1>1, <1>3, Places, RowsMeant
    <2>2. QED
      BY <1>3, <2>1 DEF Wanted, KeysOf, ReadKeys, InsertKeys, WriteKeys
  <1>4. QED
    BY <1>2, <1>3

------------------------------------------------------------------------------
(* The calls of the lock manager.                                          *)

(* Both instances of the lock manager say the same. *)
LEMMA SameAcquire ==
  ASSUME NEW t, NEW k, NEW mode
  PROVE  LM!Acquire(t, k, mode) <=> LMP!Acquire(t, k, mode)
  BY DEF LM!Acquire, LMP!Acquire, LM!AcquireEntry, LMP!AcquireEntry,
         LM!GrantedAtOnce, LMP!GrantedAtOnce, LM!HoldsEnough, LMP!HoldsEnough,
         LM!IsUpgrade, LMP!IsUpgrade, LM!SoleHolder, LMP!SoleHolder,
         LM!CompatibleWithHolders, LMP!CompatibleWithHolders, LM!HoldersOf, LMP!HoldersOf,
         LM!Compatible, LMP!Compatible, LM!Enqueue, LMP!Enqueue, LM!Waits, LMP!Waits,
         LM!Shared, LMP!Shared, LM!Exclusive, LMP!Exclusive, LM!NoLock, LMP!NoLock,
         LM!NewlyShared, LMP!NewlyShared

(* The test of acquire. *)
LEMMA SameGranted ==
  ASSUME NEW e, NEW t, NEW mode
  PROVE  LM!GrantedAtOnce(e, t, mode) <=> LMP!GrantedAtOnce(e, t, mode)
  BY DEF LM!GrantedAtOnce, LMP!GrantedAtOnce, LM!HoldsEnough, LMP!HoldsEnough,
         LM!IsUpgrade, LMP!IsUpgrade, LM!SoleHolder, LMP!SoleHolder,
         LM!CompatibleWithHolders, LMP!CompatibleWithHolders, LM!HoldersOf, LMP!HoldersOf,
         LM!Compatible, LMP!Compatible,
         LM!Shared, LMP!Shared, LM!Exclusive, LMP!Exclusive, LM!NoLock, LMP!NoLock

(* release_all. *)
LEMMA SameReleaseAll ==
  ASSUME NEW t
  PROVE  LM!ReleaseAll(t) <=> LMP!ReleaseAll(t)
  BY DEF LM!ReleaseAll, LMP!ReleaseAll, LM!Touches, LMP!Touches,
         LM!ReleaseEntry, LMP!ReleaseEntry, LM!DropHolder, LMP!DropHolder,
         LM!DropWaiter, LMP!DropWaiter, LM!Waits, LMP!Waits, LM!NoLock, LMP!NoLock,
         LM!Shared, LMP!Shared, LM!NewlyShared, LMP!NewlyShared,
         LM!PromoteWaiters, LMP!PromoteWaiters, LM!PromotedCount, LMP!PromotedCount,
         LM!HoldersAfter, LMP!HoldersAfter, LM!Grantable, LMP!Grantable,
         LM!CanGrant, LMP!CanGrant, LM!SoleHolder, LMP!SoleHolder,
         LM!CompatibleWithHolders, LMP!CompatibleWithHolders, LM!HoldersOf, LMP!HoldersOf,
         LM!Compatible, LMP!Compatible

(* release_keys, at the end of a read. *)
LEMMA SameReads ==
  ASSUME NEW t
  PROVE  /\ LM!ReleasePendingReads(t) <=> LMP!ReleasePendingReads(t)
         /\ LM!OnlyReads(t) <=> LMP!OnlyReads(t)
  BY DEF LM!ReleasePendingReads, LMP!ReleasePendingReads,
         LM!ReleaseHeldEntry, LMP!ReleaseHeldEntry, LM!DropHolder, LMP!DropHolder,
         LM!Waits, LMP!Waits, LM!NoLock, LMP!NoLock, LM!OnlyReads, LMP!OnlyReads,
         LM!Shared, LMP!Shared, LM!NewlyShared, LMP!NewlyShared,
         LM!PromoteWaiters, LMP!PromoteWaiters, LM!PromotedCount, LMP!PromotedCount,
         LM!HoldersAfter, LMP!HoldersAfter, LM!Grantable, LMP!Grantable,
         LM!CanGrant, LMP!CanGrant, LM!SoleHolder, LMP!SoleHolder,
         LM!CompatibleWithHolders, LMP!CompatibleWithHolders, LM!HoldersOf, LMP!HoldersOf,
         LM!Compatible, LMP!Compatible

(* What one step of the database does to the locks. *)
LockStep ==
    \E t \in Txn :
        \/ \E k \in Key, mode \in LMP!Mode : LMP!Acquire(t, k, mode)
        \/ LMP!ReleaseAll(t)
        \/ LMP!EndOfReads(t)

(* Every such step keeps the locks in order. *)
LEMMA LocksStayRight ==
  LocksRight /\ (LockStep \/ UNCHANGED locks) => LocksRight'
  <1> SUFFICES ASSUME LocksRight, LockStep \/ UNCHANGED locks PROVE LocksRight'
    OBVIOUS
  <1>1. [LMP!Next]_LMP!vars
    BY DEF LockStep, LMP!Next, LMP!vars, locks
  <1>2. LMP!LockInv'
    BY <1>1, LMP!LockInvNext DEF LocksRight
  <1>3. LMP!PendingExact'
    BY <1>1, LMP!PendingExactNext DEF LocksRight
  <1>4. QED
    BY <1>2, <1>3 DEF LocksRight

(* The database uses the lock manager as its specification says. *)
LEMMA StepIsLockStep ==
  LockStep => LM!Next
  BY SameAcquire, SameReleaseAll, SameReads
     DEF LockStep, LM!Next, LMP!EndOfReads, LM!EndOfReads, LM!Mode, LMP!Mode,
         LM!Shared, LMP!Shared, LM!Exclusive, LMP!Exclusive

------------------------------------------------------------------------------
(* A transaction while another one steps.                                  *)

(* The modes, as the modules name them. *)
LEMMA Modes ==
  /\ LM!Shared = "Shared" /\ LM!Exclusive = "Exclusive" /\ LM!NoLock = "None"
  /\ LMP!Shared = "Shared" /\ LMP!Exclusive = "Exclusive" /\ LMP!NoLock = "None"
  /\ LMP!Mode = {"Shared", "Exclusive"}
  /\ \A stmt : ModeOf(stmt) = IF stmt.op = "select" THEN "Shared" ELSE "Exclusive"
  BY DEF LM!Shared, LM!Exclusive, LM!NoLock, LMP!Shared, LMP!Exclusive, LMP!NoLock,
         LMP!Mode, ModeOf

(* The lock table, one key at a time. *)
LEMMA LockTable ==
  ASSUME LocksRight, NEW k \in Key
  PROVE  /\ LMP!EntryInv(entries[k]) /\ LMP!ReleasedInv(entries[k])
         /\ entries[k].holders \in [Txn -> {"Shared", "Exclusive", "None"}]
         /\ \A t \in Txn : pending[t] \in SUBSET Key
         /\ \A t \in Txn : /\ k \in pending[t] => entries[k].holders[t] # "None"
                           /\ entries[k].holders[t] = "Shared" => k \in pending[t]
         /\ \A t, u \in Txn : entries[k].holders[t] = "Exclusive" /\ u # t =>
               entries[k].holders[u] = "None"
  <1>1. /\ LMP!EntryInv(entries[k]) /\ LMP!ReleasedInv(entries[k])
        /\ pending \in [Txn -> SUBSET Key]
    BY DEF LocksRight, LMP!LockInv, LMP!EntryInv, LMP!TypeOK
  <1>2. entries[k].holders \in [Txn -> {"Shared", "Exclusive", "None"}]
    BY <1>1, Modes DEF LMP!ReleasedInv, LMP!Entry
  <1>3. \A t \in Txn : /\ k \in pending[t] => entries[k].holders[t] # "None"
                       /\ entries[k].holders[t] = "Shared" => k \in pending[t]
    BY Modes DEF LocksRight, LMP!PendingExact
  <1>4. ASSUME NEW t \in Txn, NEW u \in Txn, entries[k].holders[t] = "Exclusive", u # t
        PROVE  entries[k].holders[u] = "None"
    BY <1>1, <1>2, <1>4, Modes
       DEF LMP!ReleasedInv, LMP!ModesCompatible, LMP!HoldersOf, LMP!Compatible
  <1>5. QED
    BY <1>1, <1>2, <1>3, <1>4

(* Another's call takes nothing from u, and grants it what its statement    *)
(* wants and did not have.                                                  *)
LEMMA HoldingKept ==
  ASSUME LocksRight, NEW u \in Txn, RequestsWanted(u), LMP!OthersCall(u), NEW k \in Key
  PROVE  /\ \A w \in LMP!Requests(entries'[k]) : w.txn = u => w \in LMP!Requests(entries[k])
         /\ \/ entries'[k].holders[u] = entries[k].holders[u]
            \/ /\ tx[u].state = "Active" /\ InCall(u) /\ k \in Wanted(u)
               /\ entries'[k].holders[u] = ModeOf(call[u])
               /\ \/ entries[k].holders[u] = "None"
                  \/ entries[k].holders[u] = "Shared" /\ entries'[k].holders[u] = "Exclusive"
         /\ k \in pending'[u] \ pending[u] =>
               /\ tx[u].state = "Active" /\ InCall(u) /\ call[u].op = "select"
               /\ entries'[k].holders[u] = "Shared"
  <1>1. LMP!Undisturbed(entries[k], entries'[k], u)
    BY DEF LMP!OthersCall
  <1>2. \A w \in LMP!Requests(entries[k]) :
           /\ w.txn \in Txn /\ w.mode \in {"Shared", "Exclusive"}
           /\ entries[k].holders[w.txn] \in {"None", "Shared"}
           /\ entries[k].holders[w.txn] = "Shared" => w.mode = "Exclusive"
    BY LockTable, LMP!WaitersLackIt, Modes
  <1>3. \A w \in LMP!Requests(entries[k]) : w.txn = u =>
           /\ tx[u].state = "Active" /\ InCall(u) /\ k \in Wanted(u)
           /\ w.mode = ModeOf(call[u])
    BY DEF RequestsWanted
  <1>4. \A w \in LMP!Requests(entries'[k]) : w.txn = u => w \in LMP!Requests(entries[k])
    BY <1>1 DEF LMP!Undisturbed
  <1>5. \/ entries'[k].holders[u] = entries[k].holders[u]
        \/ \E w \in LMP!Requests(entries[k]) : w.txn = u /\ entries'[k].holders[u] = w.mode
    BY <1>1 DEF LMP!Undisturbed
  <1>6. \/ entries'[k].holders[u] = entries[k].holders[u]
        \/ /\ tx[u].state = "Active" /\ InCall(u) /\ k \in Wanted(u)
           /\ entries'[k].holders[u] = ModeOf(call[u])
           /\ \/ entries[k].holders[u] = "None"
              \/ entries[k].holders[u] = "Shared" /\ entries'[k].holders[u] = "Exclusive"
    BY <1>2, <1>3, <1>5
  <1>7. k \in pending'[u] \ pending[u] =>
           entries[k].holders[u] = "None" /\ entries'[k].holders[u] = "Shared"
    BY Modes DEF LMP!OthersCall
  <1>8. QED
    BY <1>4, <1>6, <1>7, Modes

(* A transaction that a step does not touch. *)
Untouched(u) ==
    /\ tx'[u] = tx[u] /\ call'[u] = call[u] /\ seen'[u] = seen[u]
    /\ LMP!OthersCall(u)
    /\ \A tab \in Table, s \in Slot :
          entries[Place(tab, s)].holders[u] # "None" => heap'[tab][s] = heap[tab][s]

(* Whose lock table stays is not touched by a call. *)
LEMMA SameLocks ==
  ASSUME NEW u \in Txn, UNCHANGED locks
  PROVE  LMP!OthersCall(u)
  BY DEF locks, LMP!OthersCall, LMP!Undisturbed

(* Nothing changes for it. *)
LEMMA UntouchedKept ==
  TxInv /\ Typed' /\ RowsFixed' /\ LocksRight' =>
      \A u \in Txn : Untouched(u) => TxnInv(u)'
  <1> SUFFICES ASSUME TxInv, Typed', RowsFixed', LocksRight', NEW u \in Txn, Untouched(u)
               PROVE  TxnInv(u)'
    OBVIOUS
  <1>1. Typed /\ LocksRight /\ RowsFixed /\ TxnInv(u)
    BY DEF TxInv
  <1>2. /\ tx'[u] = tx[u] /\ call'[u] = call[u] /\ seen'[u] = seen[u]
        /\ InCall(u)' <=> InCall(u)
        /\ LMP!OthersCall(u)
    BY DEF Untouched, InCall
  <1>3. InCall(u) => Wanted(u)' = Wanted(u)
    BY <1>1, <1>2, SameWanted
  <1>4. \A k \in Key :
         /\ \A w \in LMP!Requests(entries'[k]) : w.txn = u => w \in LMP!Requests(entries[k])
         /\ \/ entries'[k].holders[u] = entries[k].holders[u]
            \/ /\ tx[u].state = "Active" /\ InCall(u) /\ k \in Wanted(u)
               /\ entries'[k].holders[u] = ModeOf(call[u])
               /\ \/ entries[k].holders[u] = "None"
                  \/ entries[k].holders[u] = "Shared" /\ entries'[k].holders[u] = "Exclusive"
         /\ k \in pending'[u] \ pending[u] =>
               /\ tx[u].state = "Active" /\ InCall(u) /\ call[u].op = "select"
               /\ entries'[k].holders[u] = "Shared"
    BY <1>1, <1>2, HoldingKept DEF TxnInv
  <1>5. \A k \in Key : /\ entries[k].holders[u] # "None" => entries'[k].holders[u] # "None"
                       /\ entries[k].holders[u] = "Exclusive" => entries'[k].holders[u] = "Exclusive"
    BY <1>4, Modes
  <1>6. RequestsWanted(u)'
    BY <1>1, <1>2, <1>3, <1>4 DEF TxnInv, RequestsWanted
  <1>7. pending'[u] \in SUBSET Key
    BY DEF LocksRight, LMP!LockInv, LMP!TypeOK
  <1>8. tx[u].state # "Active" => pending'[u] \subseteq pending[u]
    BY <1>4, <1>7
  <1>9. BornClean(u)'
    BY <1>1, <1>2, <1>8 DEF TxnInv, BornClean
  <1>10. GrantsOfSelect(u)'
    <2> SUFFICES ASSUME tx[u].state = "Active", tx[u].level = "ReadCommitted",
                        NEW k \in pending'[u]
                 PROVE  InCall(u) /\ call[u].op = "select" /\ entries'[k].holders[u] = "Shared"
      BY <1>2, Modes DEF GrantsOfSelect
    <2>1. CASE k \in pending[u]
      <3>1. k \in Key /\ InCall(u) /\ call[u].op = "select" /\ entries[k].holders[u] = "Shared"
        BY <1>1, <1>7, <2>1, Modes DEF TxnInv, GrantsOfSelect
      <3>2. ModeOf(call[u]) = "Shared"
        BY <3>1, Modes
      <3>3. QED
        BY <1>4, <3>1, <3>2
    <2>2. CASE k \notin pending[u]
      BY <1>4, <1>7, <2>2
    <2>3. QED
      BY <2>1, <2>2
  <1>11. \A i \in 1..Len(tx[u].undo) : tx[u].undo[i].table \in Table /\ tx[u].undo[i].slot \in Slot
    BY <1>1, Contexts
  <1>12. ChangesLocked(u)'
    BY <1>1, <1>2, <1>5, <1>11, Places, Modes DEF TxnInv, ChangesLocked, Place, TableKey, RowKey
  <1>13. \A rd \in seen[u] : rd.table \in Table /\ rd.ids \in SUBSET Id /\ rd.rows \in SUBSET Row
    BY <1>1, Contexts
  <1>14. Keeps(u, StableLevels)' <=> Keeps(u, StableLevels)
    BY <1>2 DEF Keeps, StableLevels
  <1>15. \A tab \in Table, s \in Slot :
            entries[Place(tab, s)].holders[u] # "None" => heap'[tab][s] = heap[tab][s]
    BY DEF Untouched
  <1>16. \A tab \in Table, s \in Slot : Backend # "Memory" =>
            (s \in Occupied(heap', tab) <=> s \in Occupied(heap, tab))
    BY <1>1, Places, RowsMeant DEF Typed
  <1>17. ReadsLocked(u)'
    BY <1>1, <1>2, <1>5, <1>13, <1>14, <1>16, Places, Modes DEF TxnInv, ReadsLocked, Place
  <1>18. ASSUME Keeps(u, StableLevels), NEW rd \in seen[u], NEW s \in Slot,
                s \in Occupied(heap, rd.table) \/ s \in Occupied(heap', rd.table)
         PROVE  heap'[rd.table][s] = heap[rd.table][s]
    <2>1. Backend = "Memory" \/ s \in Occupied(heap, rd.table)
      BY <1>13, <1>16, <1>18
    <2>2. entries[Place(rd.table, s)].holders[u] # "None"
      BY <1>1, <1>18, <2>1, Modes DEF TxnInv, ReadsLocked
    <2>3. QED
      BY <1>13, <1>15, <2>2
  <1>19. StillThere(u)'
    <2> SUFFICES ASSUME Keeps(u, StableLevels), NEW rd \in seen[u], NEW r \in rd.rows,
                        ~ WroteItself(u, rd.table, r.id)
                 PROVE  \E s \in Slot : heap'[rd.table][s] = r
      BY <1>2, <1>14 DEF StillThere, WroteItself
    <2>1. PICK s \in Slot : heap[rd.table][s] = r
      BY <1>1 DEF TxnInv, StillThere
    <2>2. r # NoRow
      BY <1>13, Distinct DEF AnyRow
    <2>3. s \in Occupied(heap, rd.table)
      BY <2>1, <2>2 DEF Occupied
    <2>4. QED
      BY <1>18, <2>1, <2>3
  <1>20. NothingNew(u)'
    <2> SUFFICES ASSUME Keeps(u, StableLevels), NEW rd \in seen[u], NEW s \in Matching(heap', rd)
                 PROVE  \/ heap'[rd.table][s] \in rd.rows
                        \/ WroteItself(u, rd.table, heap'[rd.table][s].id)
      BY <1>2, <1>14 DEF NothingNew, WroteItself
    <2>1. s \in Slot /\ s \in Occupied(heap', rd.table) /\ heap'[rd.table][s].id \in rd.ids
          /\ heap'[rd.table][s] # NoRow
      BY DEF Matching, Occupied
    <2>2. heap'[rd.table][s] = heap[rd.table][s]
      BY <1>18, <2>1
    <2>3. s \in Matching(heap, rd)
      BY <2>1, <2>2 DEF Matching, Occupied
    <2>4. QED
      BY <1>1, <2>2, <2>3 DEF TxnInv, NothingNew
  <1>21. CallLive(u)'
    BY <1>1, <1>2 DEF TxnInv, CallLive, Live
  <1>22. QED
    BY <1>6, <1>9, <1>10, <1>12, <1>17, <1>19, <1>20, <1>21 DEF TxnInv

------------------------------------------------------------------------------
(* What undo leaves alone.                                                 *)

Heaps == [Table -> [Slot -> AnyRow]]

\* The state of an undo in which every row comes back in its place.
InPlace == [tab \in Table |-> [s \in Slot |-> s]]
Undoing == [heap : Heaps, remap : {InPlace}, ok : {TRUE}]

PutBack(acc, rec, x) ==
    [acc EXCEPT !.heap = [acc.heap EXCEPT ![rec.table][x] = rec.before]]

(* It changes one row. *)
LEMMA PutBackRow ==
  ASSUME NEW acc \in Undoing, NEW rec \in Record, NEW p
  PROVE  /\ PutBack(acc, rec, p) \in Undoing
         /\ \A b \in Table, x \in Slot : PutBack(acc, rec, p).heap[b][x] =
               IF b = rec.table /\ x = p THEN rec.before ELSE acc.heap[b][x]
  <1> DEFINE tab == rec.table
             g == [acc.heap[tab] EXCEPT ![p] = rec.before]
             h == [acc.heap EXCEPT ![tab] = g]
  <1>1. acc.heap \in Heaps /\ tab \in Table /\ rec.before \in AnyRow
    BY DEF Undoing, Record
  <1>2. acc.heap[tab] \in [Slot -> AnyRow]
    BY <1>1 DEF Heaps
  <1>3. g \in [Slot -> AnyRow] /\ \A x \in Slot : g[x] = IF x = p THEN rec.before ELSE acc.heap[tab][x]
    BY <1>1, <1>2
  <1>4. PutBack(acc, rec, p) = [acc EXCEPT !.heap = h]
    BY DEF PutBack
  <1> HIDE DEF g, tab
  <1>5. h \in Heaps /\ \A b \in Table : h[b] = IF b = tab THEN g ELSE acc.heap[b]
    BY <1>1, <1>3 DEF Heaps
  <1> HIDE DEF h
  <1>6. [acc EXCEPT !.heap = h] \in Undoing /\ [acc EXCEPT !.heap = h].heap = h
    BY <1>5 DEF Undoing
  <1>7. QED
    BY <1>3, <1>4, <1>5, <1>6 DEF tab

(* The undo of a record puts its row somewhere, on disk in its place: there  *)
(* no record is a DELETE's.                                                  *)
LEMMA UndonePlace ==
  ASSUME NEW acc \in Undoing, NEW rec \in Record,
         Backend = "Disk" => rec.op = "update"
  PROVE  \/ Undone(acc, rec) = acc
         \/ \E x : /\ Backend = "Disk" => x = rec.slot
                  /\ Undone(acc, rec) = PutBack(acc, rec, x)
  <1> DEFINE tab == rec.table
             found == {u \in Slot : acc.heap[tab][u] = rec.after}
             place == IF acc.heap[tab][rec.slot] = NoRow THEN rec.slot ELSE FirstFree(acc.heap, tab)
  <1>1. /\ acc.ok = TRUE /\ acc.remap = InPlace
        /\ rec.op \in {"insert", "update", "delete"} /\ tab \in Table /\ rec.slot \in Slot
    BY DEF Undoing, Record
  <1>2. \A x : [acc EXCEPT !.heap[tab][x] = rec.before] = PutBack(acc, rec, x)
    BY DEF Undoing, PutBack
  <1>3. CASE Backend = "Memory"
    <2>1. Undone(acc, rec) = UndoneInMemory(acc, rec)
      BY <1>1, <1>3 DEF Undone
    <2>2. UndoneInMemory(acc, rec) =
             CASE rec.op = "delete" -> [acc EXCEPT !.heap[tab][place] = rec.before]
               [] rec.op # "delete" /\ found # {} -> [acc EXCEPT !.heap[tab][Min(found)] = rec.before]
               [] rec.op # "delete" /\ found = {} -> acc
      BY DEF UndoneInMemory
    <2> HIDE DEF found, place, tab
    <2>3. Undone(acc, rec) \in {acc, PutBack(acc, rec, place), PutBack(acc, rec, Min(found))}
      BY <1>2, <2>1, <2>2
    <2>4. QED
      BY <1>3, <2>3 DEF tab
  <1>4. CASE Backend = "Disk"
    <2> DEFINE s == Resolve(acc.remap[tab], rec.slot)
    <2>1. Undone(acc, rec) = UndoneOnDisk(acc, rec) /\ rec.op = "update"
      BY <1>1, <1>4 DEF Undone
    <2>2. s = rec.slot
      <3>1. acc.remap[tab][rec.slot] = rec.slot
        BY <1>1 DEF InPlace
      <3>2. QED
        BY <3>1, Zenon DEF Resolve
    <2>3. Undone(acc, rec) = IF acc.heap[tab][s] = NoRow THEN acc
                             ELSE [acc EXCEPT !.heap[tab][s] = rec.before]
      BY <2>1 DEF UndoneOnDisk
    <2> HIDE DEF s, tab
    <2>4. Undone(acc, rec) \in {acc, PutBack(acc, rec, s)}
      BY <1>2, <2>3
    <2>5. QED
      BY <2>2, <2>4 DEF tab
  <1>5. QED
    BY <1>3, <1>4, BackendAssumption

(* An undo writes only where its transaction holds the exclusive lock, keeps *)
(* the rows of a disk in their places, and succeeds.                         *)
LEMMA UndoRight ==
  ASSUME TxInv, NEW v \in Txn
  PROVE  /\ Undo(heap, tx[v].undo).ok
         /\ Undo(heap, tx[v].undo).heap \in Heaps
         /\ \A tab \in Table, s \in Slot :
               /\ Undo(heap, tx[v].undo).heap[tab][s] # heap[tab][s] =>
                     entries[Place(tab, s)].holders[v] = "Exclusive"
               /\ Backend = "Disk" => Undo(heap, tx[v].undo).heap[tab][s].id = SeedId(s)
  <1> DEFINE undo == tx[v].undo
             Fine(h) == \A tab \in Table, s \in Slot :
                           /\ h[tab][s] # heap[tab][s] => entries[Place(tab, s)].holders[v] = "Exclusive"
                           /\ Backend = "Disk" => h[tab][s].id = SeedId(s)
             G == {acc \in Undoing : Fine(acc.heap)}
  <1>1. Typed /\ LocksRight /\ RowsFixed /\ TxnInv(v)
    BY DEF TxInv
  <1>2. /\ Len(undo) \in Nat
        /\ \A i \in 1..Len(undo) : /\ undo[i] \in Record
                                   /\ undo[i].table \in Table /\ undo[i].slot \in Slot
                                   /\ undo[i].before \in AnyRow
    BY <1>1, Contexts
  <1>3. \A i \in 1..Len(undo) :
            /\ entries[Place(undo[i].table, undo[i].slot)].holders[v] = "Exclusive"
            /\ Backend = "Disk" => undo[i].op = "update" /\ undo[i].before.id = SeedId(undo[i].slot)
    BY <1>1, Modes DEF TxnInv, ChangesLocked, RowsFixed
  <1>4. heap \in Heaps /\ Fine(heap)
    BY <1>1 DEF Typed, Heaps, RowsFixed
  <1> HIDE DEF Fine
  <1>5. [heap |-> heap, remap |-> InPlace, ok |-> TRUE] \in G
    BY <1>4 DEF Undoing
  <1>6. ASSUME NEW acc \in G, NEW i \in 1..Len(undo)
        PROVE  Undone(acc, undo[i]) \in G
    <2>1. PICK rec \in Record : rec = undo[i]
      BY <1>2
    <2>2. /\ rec.table \in Table /\ rec.slot \in Slot /\ rec.before \in AnyRow
          /\ entries[Place(rec.table, rec.slot)].holders[v] = "Exclusive"
          /\ Backend = "Disk" => rec.op = "update" /\ rec.before.id = SeedId(rec.slot)
      BY <1>2, <1>3, <2>1
    <2>3. acc \in Undoing /\ Fine(acc.heap)
      OBVIOUS
    <2> HIDE DEF G
    <2>4. ASSUME NEW p, Backend = "Disk" => p = rec.slot
          PROVE  PutBack(acc, rec, p) \in G
      <3>1. PICK next : next = PutBack(acc, rec, p)
        OBVIOUS
      <3>2. /\ next \in Undoing
            /\ \A b \in Table, x \in Slot : next.heap[b][x] =
                  IF b = rec.table /\ x = p THEN rec.before ELSE acc.heap[b][x]
        BY <2>3, <3>1, PutBackRow
      <3>3. Backend # "Disk" => \A x \in Slot : Place(rec.table, x) = Place(rec.table, rec.slot)
        BY Places DEF Place
      <3>4. \A x \in Slot : x = p => entries[Place(rec.table, x)].holders[v] = "Exclusive"
        BY <2>2, <2>4, <3>3
      <3>5. Fine(next.heap)
        BY <2>2, <2>3, <2>4, <3>2, <3>4 DEF Fine
      <3>6. QED
        BY <3>1, <3>2, <3>5 DEF G
    <2>5. QED
      BY <2>1, <2>2, <2>3, <2>4, UndonePlace
  <1> HIDE DEF G
  <1>7. Undo(heap, undo) \in G
    <2>1. [heap |-> heap, remap |-> [tab \in Table |-> [s \in Slot |-> s]], ok |-> TRUE] \in G
      BY <1>5 DEF InPlace
    <2>2. QED
      BY <1>2, <1>6, <2>1, UndoStays
  <1>8. \A acc \in G : acc.ok /\ acc.heap \in Heaps /\ Fine(acc.heap)
    BY DEF G, Undoing
  <1>9. QED
    BY <1>7, <1>8 DEF Fine

------------------------------------------------------------------------------
(* What a statement writes.                                                *)

(* The rows a statement writes are rows, in slots of its table. *)
LEMMA NewRows ==
  ASSUME Typed, NEW t \in Txn, NEW stmt \in Stmt, stmt.op # "select"
  PROVE  /\ Targets(stmt) \in SUBSET Slot
         /\ \A s \in Targets(stmt) : NewRow(t, stmt, s) \in AnyRow
         /\ stmt.op = "update" => \A s \in Targets(stmt) : NewRow(t, stmt, s).id = heap[stmt.table][s].id
         /\ stmt.op = "update" => \A s \in Targets(stmt) :
               heap[stmt.table][s] # NoRow /\ NewRow(t, stmt, s).by = t
         /\ stmt.op = "insert" => \A s \in Targets(stmt) :
               /\ heap[stmt.table][s] = NoRow
               /\ NewRow(t, stmt, s).id \in stmt.ids /\ NewRow(t, stmt, s).by = t
               /\ \A x \in Targets(stmt) : NewRow(t, stmt, x).id = NewRow(t, stmt, s).id => x = s
         /\ stmt.op = "delete" => \A s \in Targets(stmt) :
               heap[stmt.table][s] # NoRow /\ NewRow(t, stmt, s) = NoRow
  <1>1. /\ stmt.table \in Table /\ stmt.ids \in SUBSET Id
        /\ stmt.op \in {"insert", "update", "delete"}
        /\ heap[stmt.table] \in [Slot -> AnyRow]
    BY Distinct DEF Typed
  <1>2. CASE stmt.op = "insert"
    <2> DEFINE F == Free(stmt.table)
               ids == stmt.ids
    <2>1. F \in SUBSET Nat /\ IsFiniteSet(F) /\ F \in SUBSET Slot
      BY Places, FS_Subset DEF Free
    <2>2. ids \in SUBSET Nat /\ IsFiniteSet(ids)
      <3>1. IsFiniteSet(Id) /\ Id \in SUBSET Nat
        BY BoundsAssumption
      <3>2. QED
        BY <1>1, <3>1, FS_Subset
    <2>3. Targets(stmt) = {s \in F : Rank(F, s) <= Cardinality(ids)}
      BY <1>2 DEF Targets
    <2>4. \A s \in Targets(stmt) : NewRow(t, stmt, s) = [id |-> Nth(ids, Rank(F, s)), by |-> t]
      BY <1>2 DEF NewRow
    <2> HIDE DEF F, ids
    <2>5. /\ Cardinality(ids) \in Nat
          /\ \A i \in 1..Cardinality(ids) : Nth(ids, i) \in ids /\ Rank(ids, Nth(ids, i)) = i
      BY <2>2, RankNth
    <2>6. /\ Cardinality(F) \in Nat /\ \A s \in F : Rank(F, s) \in 1..Cardinality(F)
          /\ \A s, x \in F : Rank(F, s) = Rank(F, x) => s = x
      BY <2>1, RankNth
    <2>7. \A s \in Targets(stmt) : Rank(F, s) \in 1..Cardinality(ids)
      BY <2>3, <2>5, <2>6
    <2>8. \A s \in Targets(stmt) : Nth(ids, Rank(F, s)) \in Id /\ t \in 0..NTxn
      BY <1>1, <2>5, <2>7, BoundsAssumption DEF ids, Txn
    <2>9. \A s \in Targets(stmt) : NewRow(t, stmt, s) \in AnyRow
      BY <2>4, <2>8 DEF AnyRow, Row
    <2>10. \A s \in Targets(stmt) : heap[stmt.table][s] = NoRow
      BY <2>1, <2>3 DEF F, Free, Occupied
    <2>11. ASSUME NEW s \in Targets(stmt), NEW x \in Targets(stmt),
                  NewRow(t, stmt, x).id = NewRow(t, stmt, s).id
           PROVE  x = s
      <3>1. Nth(ids, Rank(F, x)) = Nth(ids, Rank(F, s))
        BY <2>4, <2>11
      <3>2. Rank(F, x) = Rank(F, s)
        BY <2>5, <2>7, <3>1
      <3>3. QED
        BY <2>3, <2>6, <3>2
    <2>12. \A s \in Targets(stmt) : NewRow(t, stmt, s).id \in ids /\ NewRow(t, stmt, s).by = t
      BY <2>4, <2>5, <2>7
    <2>13. QED
      BY <1>2, <2>1, <2>3, <2>9, <2>10, <2>11, <2>12 DEF ids
  <1>3. CASE stmt.op = "update"
    <2>1. Targets(stmt) = Matching(heap, stmt)
      BY <1>3 DEF Targets
    <2>2. \A s \in Targets(stmt) : s \in Slot /\ heap[stmt.table][s] \in Row
                                   /\ heap[stmt.table][s] # NoRow
      BY <1>1, <2>1, Distinct DEF Matching, Occupied
    <2>3. \A s \in Targets(stmt) : NewRow(t, stmt, s) = [heap[stmt.table][s] EXCEPT !.by = t]
      BY <1>3 DEF NewRow
    <2>4. t \in 0..NTxn
      BY BoundsAssumption DEF Txn
    <2>5. \A r \in Row : /\ [r EXCEPT !.by = t] \in Row /\ [r EXCEPT !.by = t].id = r.id
                          /\ [r EXCEPT !.by = t].by = t
      BY <2>4 DEF Row
    <2>6. \A s \in Targets(stmt) : /\ NewRow(t, stmt, s) \in Row
                                   /\ NewRow(t, stmt, s).id = heap[stmt.table][s].id
                                   /\ NewRow(t, stmt, s).by = t
      <3> SUFFICES ASSUME NEW s \in Targets(stmt)
                   PROVE  /\ NewRow(t, stmt, s) \in Row
                          /\ NewRow(t, stmt, s).id = heap[stmt.table][s].id
                          /\ NewRow(t, stmt, s).by = t
        OBVIOUS
      <3>1. PICK r \in Row : r = heap[stmt.table][s]
        BY <2>2
      <3>2. NewRow(t, stmt, s) = [r EXCEPT !.by = t]
        BY <2>3, <3>1
      <3>3. QED
        BY <2>5, <3>1, <3>2
    <2>7. Targets(stmt) \in SUBSET Slot
      BY <2>2
    <2>8. QED
      BY <1>3, <2>2, <2>6, <2>7 DEF AnyRow
  <1>4. CASE stmt.op = "delete"
    BY <1>4 DEF Targets, Matching, Occupied, NewRow, AnyRow
  <1>5. QED
    BY <1>1, <1>2, <1>3, <1>4

(* A statement changes the rows it targets, and records how to undo each. *)
LEMMA WriteRight ==
  ASSUME Typed, NEW t \in Txn, NEW stmt \in Stmt, stmt.op # "select"
  PROVE  /\ Written(t, stmt).heap \in Heaps
         /\ \A tab \in Table, s \in Slot :
               Written(t, stmt).heap[tab][s] =
                   IF tab = stmt.table /\ s \in Targets(stmt) THEN NewRow(t, stmt, s)
                                                             ELSE heap[tab][s]
         /\ \E new \in Seq(Record) :
               /\ Written(t, stmt).undo = tx[t].undo \o new
               /\ \A i \in 1..Len(new) : \E s \in Targets(stmt) : new[i] = UndoRecord(t, stmt, s)
               /\ \A s \in Targets(stmt) : \E i \in 1..Len(new) : new[i] = UndoRecord(t, stmt, s)
               /\ \A i, j \in 1..Len(new) : new[i].slot = new[j].slot => i = j
  <1> DEFINE S == Targets(stmt)
             n == Cardinality(S)
             new == [i \in 1..n |-> UndoRecord(t, stmt, Nth(S, i))]
             rows == [s \in Slot |-> IF s \in S THEN NewRow(t, stmt, s) ELSE heap[stmt.table][s]]
  <1>1. /\ stmt.table \in Table /\ stmt.op \in {"insert", "update", "delete"}
        /\ heap \in [Table -> [Slot -> AnyRow]]
    BY Distinct DEF Typed
  <1>2. S \in SUBSET Slot /\ \A s \in S : NewRow(t, stmt, s) \in AnyRow
    BY NewRows
  <1>3. S \in SUBSET Nat /\ IsFiniteSet(S)
    BY <1>2, Places, FS_Subset
  <1>4. /\ n \in Nat
        /\ \A x \in S : Rank(S, x) \in 1..n /\ Nth(S, Rank(S, x)) = x
        /\ \A i \in 1..n : Nth(S, i) \in S /\ Rank(S, Nth(S, i)) = i
    BY <1>3, RankNth
  <1>5. Written(t, stmt).heap = [heap EXCEPT ![stmt.table] = rows]
        /\ Written(t, stmt).undo = tx[t].undo \o new
    BY <1>1 DEF Written
  <1> HIDE DEF S
  <1>6. rows \in [Slot -> AnyRow]
    BY <1>1, <1>2
  <1>7. \A s \in Slot : rows[s] = IF s \in S THEN NewRow(t, stmt, s) ELSE heap[stmt.table][s]
    OBVIOUS
  <1> HIDE DEF rows, n
  <1>8. /\ Written(t, stmt).heap \in Heaps
        /\ \A tab \in Table, s \in Slot :
               Written(t, stmt).heap[tab][s] =
                   IF tab = stmt.table /\ s \in S THEN NewRow(t, stmt, s) ELSE heap[tab][s]
    BY <1>1, <1>5, <1>6, <1>7 DEF Heaps
  <1>9. \A s \in S : UndoRecord(t, stmt, s) \in Record
    BY <1>1, <1>2 DEF UndoRecord, Record
  <1>10. new \in Seq(Record) /\ Len(new) = n /\ \A i \in 1..n : new[i] = UndoRecord(t, stmt, Nth(S, i))
    BY <1>4, <1>9
  <1> HIDE DEF new
  <1>11. \A i \in 1..Len(new) : \E s \in S : new[i] = UndoRecord(t, stmt, s)
    BY <1>4, <1>10
  <1>12. \A s \in S : \E i \in 1..Len(new) : new[i] = UndoRecord(t, stmt, s)
    BY <1>4, <1>10
  <1>13. \A i, j \in 1..Len(new) : new[i].slot = new[j].slot => i = j
    <2>1. \A s : UndoRecord(t, stmt, s).slot = s
      BY DEF UndoRecord
    <2>2. QED
      BY <1>4, <1>10, <2>1
  <1>14. QED
    BY <1>5, <1>8, <1>10, <1>11, <1>12, <1>13 DEF S

------------------------------------------------------------------------------
(* Steps.                                                                  *)

(* A context with another state, level or undo record. *)
LEMMA ContextSet ==
  ASSUME NEW c \in Context
  PROVE  /\ \A st \in State : LET d == [c EXCEPT !.state = st]
            IN  d \in Context /\ d.state = st /\ d.level = c.level /\ d.undo = c.undo
         /\ \A level \in Level : LET d == [c EXCEPT !.level = level]
            IN  d \in Context /\ d.state = c.state /\ d.level = level /\ d.undo = c.undo
         /\ \A undo \in Seq(Record) : LET d == [c EXCEPT !.undo = undo]
            IN  d \in Context /\ d.state = c.state /\ d.level = c.level /\ d.undo = undo
  BY DEF Context

(* Rows stay in their places when undo records only go away. *)
LEMMA RowsFixedKept ==
  RowsFixed /\ (\A tab \in Table, s \in Slot : Backend = "Disk" => heap'[tab][s].id = SeedId(s))
            /\ (\A u \in Txn : tx'[u].undo = tx[u].undo \/ tx'[u].undo = <<>>)
      => RowsFixed'
  BY DEF RowsFixed, SeedId

(* What one transaction holds exclusively, no other transaction holds. *)
LEMMA ChangesApart ==
  ASSUME LocksRight, NEW v \in Txn, NEW u \in Txn \ {v}, NEW tab \in Table, NEW s \in Slot,
         entries[Place(tab, s)].holders[v] = "Exclusive"
  PROVE  entries[Place(tab, s)].holders[u] = "None"
  BY Places, LockTable

(* A step that leaves everyone else alone. *)
LEMMA StepKept ==
  ASSUME NEW t \in Txn, NEW v \in Txn
  PROVE  (/\ TxInv /\ Typed' /\ LocksRight' /\ RowsFixed' /\ RunRight'
          /\ \A u \in Txn \ {t, v} : Untouched(u)
          /\ TxnInv(t)' /\ TxnInv(v)') => TxInv'
  <1> SUFFICES ASSUME TxInv, Typed', LocksRight', RowsFixed', RunRight',
                      \A u \in Txn \ {t, v} : Untouched(u), TxnInv(t)', TxnInv(v)'
               PROVE  TxInv'
    OBVIOUS
  <1>1. \A u \in Txn : TxnInv(u)'
    BY UntouchedKept
  <1>2. QED
    BY <1>1 DEF TxInv

(* A transaction that is not active waits for nothing. *)
LEMMA NoRequests ==
  ASSUME TxInv, NEW t \in Txn, tx[t].state # "Active" \/ ~ InCall(t)
  PROVE  \A k \in Key : \A w \in LMP!Requests(entries[k]) : w.txn # t
  BY DEF TxInv, TxnInv, RequestsWanted

(* A statement that has its locks holds all that it wants, and waits for    *)
(* nothing.                                                                 *)
LEMMA HasLocksRight ==
  ASSUME TxInv, NEW t \in Txn, HasLocks(t)
  PROVE  /\ tx[t].state = "Active" /\ InCall(t) /\ call[t] \in Stmt
         /\ \A k \in Wanted(t) : k \in Key /\ entries[k].holders[t] \in {"Exclusive", ModeOf(call[t])}
         /\ \A k \in Key : \A w \in LMP!Requests(entries[k]) : w.txn # t
  <1>1. Typed /\ LocksRight /\ RunRight /\ TxnInv(t)
    BY DEF TxInv
  <1>2. run.txn = t /\ run.keys = <<>> /\ run # NoRun
    BY BoundsAssumption DEF HasLocks, NoRun, Txn
  <1>3. /\ tx[t].state = "Active" /\ InCall(t)
        /\ \A k \in Wanted(t) \ Range(run.keys) : entries[k].holders[t] \in {"Exclusive", ModeOf(call[t])}
    BY <1>1, <1>2, Modes DEF RunRight
  <1>4. call[t] \in Stmt
    BY <1>1, <1>3, Contexts
  <1>5. Range(run.keys) = {} /\ Wanted(t) \subseteq Key
    BY <1>1, <1>2, <1>4, KeysRight DEF Range, Wanted
  <1>6. ASSUME NEW k \in Key, NEW w \in LMP!Requests(entries[k]), w.txn = t PROVE FALSE
    <2>1. k \in Wanted(t) /\ w.mode = ModeOf(call[t])
      BY <1>1, <1>6 DEF TxnInv, RequestsWanted
    <2>2. /\ entries[k].holders[t] \in {"None", "Shared"}
          /\ entries[k].holders[t] = "Shared" => w.mode = "Exclusive"
      BY <1>1, <1>6, LockTable, LMP!WaitersLackIt, Modes
    <2>3. entries[k].holders[t] \in {"Exclusive", ModeOf(call[t])}
      BY <1>3, <1>5, <2>1
    <2>4. QED
      BY <2>1, <2>2, <2>3, Modes
  <1>7. QED
    BY <1>3, <1>4, <1>5, <1>6

(* begin_tx *)
LEMMA BeginKept ==
  ASSUME NEW t \in Txn, NEW level \in Level
  PROVE  TxInv /\ Begin(t, level) => TxInv'
  <1> SUFFICES ASSUME TxInv, Begin(t, level) PROVE TxInv'
    OBVIOUS
  <1> USE DEF Begin
  <1>1. Typed /\ LocksRight /\ RowsFixed /\ RunRight /\ TxnInv(t)
    BY DEF TxInv
  <1>2. /\ UNCHANGED <<entries, pending, heap, call, asleep, run, issued, seen>>
        /\ UNCHANGED locks
    BY DEF locks
  <1> DEFINE c == [tx[t] EXCEPT !.state = "Active"]
             d == [c EXCEPT !.level = level]
  <1>3. tx' = [tx EXCEPT ![t] = d]
    BY DEF Typed
  <1>4. c \in Context /\ d \in Context /\ d.state = "Active" /\ d.undo = tx[t].undo
    <2>1. "Active" \in State
      BY DEF State
    <2>2. c \in Context /\ c.state = "Active" /\ c.undo = tx[t].undo
      BY <1>1, <2>1, Contexts, ContextSet
    <2> HIDE DEF c
    <2>3. QED
      BY <2>2, ContextSet
  <1> HIDE DEF c, d
  <1>5. tx' \in [Txn -> Context] /\ tx'[t] = d /\ \A u \in Txn \ {t} : tx'[u] = tx[u]
    BY <1>1, <1>3, <1>4 DEF Typed
  <1>6. Typed'
    BY <1>1, <1>2, <1>5 DEF Typed, InCall
  <1>7. LocksRight' /\ \A u \in Txn : LMP!OthersCall(u)
    BY <1>1, <1>2, LocksStayRight, SameLocks
  <1>8. RowsFixed'
    BY <1>1, <1>2, <1>4, <1>5, RowsFixedKept DEF RowsFixed
  <1>9. run = NoRun /\ RunRight'
    BY <1>2 DEF RunRight, Idle
  <1>10. \A u \in Txn \ {t} : Untouched(u)
    BY <1>2, <1>5, <1>7 DEF Untouched
  <1>11. TxnInv(t)'
    <2>1. tx[t].state = "Unborn" /\ pending[t] = {} /\ seen[t] = {} /\ ~ InCall(t)
      BY <1>1 DEF TxnInv, BornClean, CallLive, Live
    <2>2. \A k \in Key : \A w \in LMP!Requests(entries'[k]) : w.txn # t
      BY <1>2, <2>1, NoRequests
    <2>3. CallLive(t)' /\ RequestsWanted(t)' /\ BornClean(t)'
      BY <1>2, <1>4, <1>5, <2>1, <2>2 DEF CallLive, InCall, RequestsWanted, BornClean
    <2>4. GrantsOfSelect(t)' /\ ReadsLocked(t)' /\ StillThere(t)' /\ NothingNew(t)'
      BY <1>2, <2>1 DEF GrantsOfSelect, ReadsLocked, StillThere, NothingNew
    <2>5. ChangesLocked(t)'
      BY <1>1, <1>2, <1>4, <1>5 DEF TxnInv, ChangesLocked, Place
    <2>6. QED
      BY <2>3, <2>4, <2>5 DEF TxnInv
  <1>12. QED
    BY <1>6, <1>7, <1>8, <1>9, <1>10, <1>11, StepKept

(* An attempt starts with the keys of its statement. *)
LEMMA AttemptStarts ==
  ASSUME Typed, NEW t \in Txn, NEW stmt \in Stmt, StartAttempt(t, stmt),
         tx[t].state = "Active", InCall(t)', call'[t] = stmt, UNCHANGED <<heap, tx>>
  PROVE  RunRight'
  <1> DEFINE q == KeysOf(t, stmt)
  <1>1. q \in Seq(Key)
    BY KeysRight
  <1>2. run' = [txn |-> t, keys |-> q, victim |-> 0, again |-> FALSE]
    BY DEF StartAttempt
  <1>3. Wanted(t)' = Range(q)
    BY DEF Wanted, KeysOf, ReadKeys, InsertKeys, WriteKeys, Matching, Occupied
  <1> HIDE DEF q
  <1>4. run' \in Attempt /\ run'.txn = t /\ run'.keys = q
    BY <1>1, <1>2 DEF Attempt
  <1>5. QED
    BY <1>3, <1>4 DEF RunRight

(* execute_in_tx *)
LEMMA IssueKept ==
  ASSUME NEW t \in Txn, NEW stmt
  PROVE  TxInv /\ Issue(t, stmt) => TxInv'
  <1> SUFFICES ASSUME TxInv, Issue(t, stmt) PROVE TxInv'
    OBVIOUS
  <1>1. Typed /\ LocksRight /\ RowsFixed /\ RunRight /\ TxnInv(t)
    BY DEF TxInv
  <1>2. /\ tx[t].state = "Active" /\ ~ InCall(t)
        /\ <<tx[t].level, stmt>> \in Work /\ issued[t] < MaxStmts
        /\ issued' = [issued EXCEPT ![t] = @ + 1]
        /\ call' = [call EXCEPT ![t] = stmt]
        /\ StartAttempt(t, stmt)
        /\ UNCHANGED <<entries, pending, heap, tx, asleep, seen>> /\ UNCHANGED locks
    BY DEF Issue, locks
  <1>3. stmt \in Stmt /\ stmt # NoStmt /\ \E w \in Work : w[2] = stmt
    BY <1>2, WorkAssumption, Distinct
  <1>4. /\ call' \in [Txn -> Stmt \cup {NoStmt}] /\ call'[t] = stmt
        /\ \A u \in Txn \ {t} : call'[u] = call[u]
    BY <1>1, <1>2, <1>3 DEF Typed
  <1>5. issued' \in [Txn -> 0..MaxStmts]
    <2>1. issued \in [Txn -> 0..MaxStmts] /\ MaxStmts \in Nat
      BY <1>1, BoundsAssumption DEF Typed
    <2>2. issued[t] \in 0..MaxStmts
      BY <2>1
    <2>3. issued[t] + 1 \in 0..MaxStmts
      BY <1>2, <2>1, <2>2
    <2>4. QED
      BY <1>2, <2>1, <2>3
  <1>6. InCall(t)' /\ \A u \in Txn \ {t} : InCall(u)' <=> InCall(u)
    BY <1>3, <1>4 DEF InCall
  <1>7. Typed'
    <2>1. \A u \in Txn : InCall(u)' => \E w \in Work : w[2] = call'[u]
      BY <1>1, <1>3, <1>4, <1>6 DEF Typed
    <2>2. asleep' \subseteq {u \in Txn : InCall(u)'}
      BY <1>1, <1>2, <1>6 DEF Typed
    <2>3. QED
      BY <1>1, <1>2, <1>4, <1>5, <2>1, <2>2 DEF Typed
  <1>8. LocksRight' /\ \A u \in Txn : LMP!OthersCall(u)
    BY <1>1, <1>2, LocksStayRight, SameLocks
  <1>9. RowsFixed'
    BY <1>1, <1>2 DEF RowsFixed
  <1>10. RunRight'
    BY <1>1, <1>2, <1>3, <1>4, <1>6, AttemptStarts
  <1>11. \A u \in Txn \ {t} : Untouched(u)
    BY <1>2, <1>4, <1>8 DEF Untouched
  <1>12. TxnInv(t)'
    <2>1. \A k \in Key : \A w \in LMP!Requests(entries'[k]) : w.txn # t
      BY <1>2, NoRequests
    <2>2. CallLive(t)' /\ RequestsWanted(t)' /\ BornClean(t)'
      BY <1>2, <2>1 DEF CallLive, Live, RequestsWanted, BornClean
    <2>3. GrantsOfSelect(t)'
      BY <1>1, <1>2 DEF TxnInv, GrantsOfSelect
    <2>4. ChangesLocked(t)' /\ ReadsLocked(t)'
      BY <1>1, <1>2 DEF TxnInv, ChangesLocked, Place, ReadsLocked, Keeps, Occupied
    <2>5. StillThere(t)'
      BY <1>1, <1>2 DEF TxnInv, StillThere, Keeps, WroteItself
    <2>6. NothingNew(t)'
      BY <1>1, <1>2 DEF TxnInv, NothingNew, Keeps, Occupied, Matching, WroteItself
    <2>7. QED
      BY <2>2, <2>3, <2>4, <2>5, <2>6 DEF TxnInv
  <1>13. QED
    BY <1>7, <1>8, <1>9, <1>10, <1>11, <1>12, StepKept

(* What the end of a call leaves of it. *)
LEMMA Returned ==
  ASSUME Typed, NEW t \in Txn, Return(t)
  PROVE  /\ call' \in [Txn -> Stmt \cup {NoStmt}] /\ ~ InCall(t)'
         /\ \A u \in Txn \ {t} : call'[u] = call[u] /\ (InCall(u)' <=> InCall(u))
         /\ \A u \in Txn : InCall(u)' => \E w \in Work : w[2] = call'[u]
         /\ asleep' = {} /\ run' = NoRun /\ RunRight'
  <1>1. /\ call' \in [Txn -> Stmt \cup {NoStmt}] /\ call'[t] = NoStmt
        /\ \A u \in Txn \ {t} : call'[u] = call[u]
    BY DEF Typed, Return
  <1>2. ~ InCall(t)' /\ \A u \in Txn \ {t} : (InCall(u)' <=> InCall(u))
    BY <1>1 DEF InCall
  <1>3. QED
    BY <1>1, <1>2 DEF Typed, Return, RunRight

(* A notified thread goes on. *)
LEMMA RetryKept ==
  ASSUME NEW t \in Txn
  PROVE  TxInv /\ Retry(t) => TxInv'
  <1> SUFFICES ASSUME TxInv, Retry(t) PROVE TxInv'
    OBVIOUS
  <1>1. Typed /\ LocksRight /\ RowsFixed /\ RunRight /\ TxnInv(t)
    BY DEF TxInv
  <1>2. /\ InCall(t)
        /\ UNCHANGED <<entries, pending, heap, tx, issued, seen>> /\ UNCHANGED locks
    BY DEF Retry, locks
  <1>3. LocksRight' /\ \A u \in Txn : LMP!OthersCall(u)
    BY <1>1, <1>2, LocksStayRight, SameLocks
  <1>4. RowsFixed'
    BY <1>1, <1>2 DEF RowsFixed
  <1>5. CASE tx[t].state = "Aborted"
    <2>1. Return(t)
      BY <1>5 DEF Retry
    <2>2. /\ call' \in [Txn -> Stmt \cup {NoStmt}] /\ ~ InCall(t)'
          /\ \A u \in Txn \ {t} : call'[u] = call[u]
          /\ \A u \in Txn : InCall(u)' => \E w \in Work : w[2] = call'[u]
          /\ asleep' = {} /\ RunRight'
      BY <1>1, <2>1, Returned
    <2>3. Typed'
      BY <1>1, <1>2, <2>2 DEF Typed
    <2>4. \A u \in Txn \ {t} : Untouched(u)
      BY <1>2, <1>3, <2>2 DEF Untouched
    <2>5. TxnInv(t)'
      <3>1. \A k \in Key : \A w \in LMP!Requests(entries'[k]) : w.txn # t
        BY <1>2, <1>5, NoRequests
      <3>2. CallLive(t)' /\ RequestsWanted(t)' /\ BornClean(t)' /\ GrantsOfSelect(t)'
            /\ ReadsLocked(t)' /\ StillThere(t)' /\ NothingNew(t)'
        BY <1>2, <1>5, <2>2, <3>1
           DEF CallLive, RequestsWanted, BornClean, GrantsOfSelect, ReadsLocked, StillThere,
               NothingNew, Keeps
      <3>3. ChangesLocked(t)'
        BY <1>1, <1>2 DEF TxnInv, ChangesLocked, Place
      <3>4. QED
        BY <3>2, <3>3 DEF TxnInv
    <2>6. QED
      BY <1>3, <1>4, <2>2, <2>3, <2>4, <2>5, StepKept
  <1>6. CASE tx[t].state # "Aborted"
    <2>1. StartAttempt(t, call[t]) /\ UNCHANGED <<call, asleep>>
      BY <1>6 DEF Retry
    <2>2. tx[t].state = "Active" /\ call[t] \in Stmt
      BY <1>1, <1>2, <1>6, Contexts DEF TxnInv, CallLive, Live
    <2>3. Typed'
      BY <1>1, <1>2, <2>1 DEF Typed, InCall
    <2>4. RunRight'
      BY <1>1, <1>2, <2>1, <2>2, AttemptStarts DEF InCall
    <2>5. \A u \in Txn : Untouched(u)
      BY <1>2, <1>3, <2>1 DEF Untouched
    <2>6. \A u \in Txn : TxnInv(u)'
      BY <1>3, <1>4, <2>3, <2>5, UntouchedKept
    <2>7. QED
      BY <1>3, <1>4, <2>3, <2>4, <2>6 DEF TxInv
  <1>7. QED
    BY <1>5, <1>6

(* A heap in which only v has changed rows is the same for everyone else. *)
HeapOf(v) ==
    /\ heap' \in Heaps
    /\ \A tab \in Table, s \in Slot :
          /\ heap'[tab][s] # heap[tab][s] => entries[Place(tab, s)].holders[v] = "Exclusive"
          /\ Backend = "Disk" => heap'[tab][s].id = SeedId(s)

(* A heap that stays is one of them, and so is the heap after an undo. *)
LEMMA HeapStays ==
  ASSUME TxInv, NEW v \in Txn
  PROVE  heap' = heap \/ heap' = Undo(heap, tx[v].undo).heap => HeapOf(v)
  <1>1. heap' = heap => HeapOf(v)
    BY DEF TxInv, Typed, RowsFixed, HeapOf, Heaps
  <1>2. heap' = Undo(heap, tx[v].undo).heap => HeapOf(v)
    BY UndoRight DEF HeapOf
  <1>3. QED
    BY <1>1, <1>2

(* What such a step leaves alone. *)
LEMMA LeftAlone ==
  ASSUME TxInv, NEW v \in Txn, HeapOf(v), NEW u \in Txn \ {v},
         tx'[u] = tx[u], call'[u] = call[u], seen'[u] = seen[u], LMP!OthersCall(u)
  PROVE  Untouched(u)
  <1>1. LocksRight
    BY DEF TxInv
  <1>2. \A tab \in Table, s \in Slot :
           heap'[tab][s] # heap[tab][s] => entries[Place(tab, s)].holders[u] = "None"
    BY <1>1, ChangesApart DEF HeapOf
  <1>3. QED
    BY <1>2 DEF Untouched

(* release_all, when nothing of t is left to protect. *)
LEMMA ReleasedAll ==
  ASSUME LocksRight, NEW t \in Txn, ReleaseLocks(t)
  PROVE  /\ LockStep /\ LocksRight'
         /\ \A u \in Txn \ {t} : LMP!OthersCall(u)
         /\ \A k \in Key : \A w \in LMP!Requests(entries'[k]) : w.txn # t
         /\ pending'[t] = {}
  <1>1. LMP!ReleaseAll(t)
    BY SameReleaseAll DEF ReleaseLocks
  <1>2. LockStep
    BY <1>1 DEF LockStep
  <1>3. LocksRight'
    BY <1>2, LocksStayRight
  <1>4. LMP!LockInv
    BY DEF LocksRight
  <1>5. QED
    BY <1>1, <1>2, <1>3, <1>4, LMP!ReleaseAllView

(* A transaction ends: its changes are in, or undone, and it gives up its   *)
(* locks.                                                                   *)
LEMMA EndKept ==
  ASSUME NEW t \in Txn, NEW st \in Ended
  PROVE  TxInv /\ Idle /\ ~ InCall(t) /\ EndTx(t, st) /\ ReleaseLocks(t) /\ HeapOf(t)
               /\ UNCHANGED <<call, run>> => TxInv'
  <1> SUFFICES ASSUME TxInv, Idle, ~ InCall(t), EndTx(t, st), ReleaseLocks(t), HeapOf(t),
                      UNCHANGED <<call, run>>
               PROVE  TxInv'
    OBVIOUS
  <1>1. Typed /\ LocksRight /\ RowsFixed /\ RunRight
    BY DEF TxInv
  <1> DEFINE d == [state |-> st, level |-> "RepeatableRead", undo |-> <<>>]
  <1>2. d \in Context /\ d.state = st /\ d.undo = <<>>
    BY DEF Context, State, Level
  <1>3. /\ tx' = [tx EXCEPT ![t] = d] /\ seen' = [seen EXCEPT ![t] = {}]
        /\ issued' = [issued EXCEPT ![t] = 0] /\ asleep' = {}
    BY DEF EndTx
  <1> HIDE DEF d
  <1>4. /\ tx' \in [Txn -> Context] /\ tx'[t] = d /\ \A u \in Txn \ {t} : tx'[u] = tx[u]
        /\ seen' \in [Txn -> SUBSET Reading] /\ seen'[t] = {}
        /\ \A u \in Txn \ {t} : seen'[u] = seen[u]
    BY <1>1, <1>2, <1>3 DEF Typed
  <1>5. issued' \in [Txn -> 0..MaxStmts]
    BY <1>1, <1>3, BoundsAssumption DEF Typed
  <1>6. Typed'
    BY <1>1, <1>3, <1>4, <1>5 DEF Typed, InCall, HeapOf, Heaps
  <1>7. /\ LocksRight' /\ \A u \in Txn \ {t} : LMP!OthersCall(u)
        /\ \A k \in Key : \A w \in LMP!Requests(entries'[k]) : w.txn # t
        /\ pending'[t] = {}
    BY <1>1, ReleasedAll
  <1>8. RowsFixed'
    BY <1>1, <1>2, <1>4, RowsFixedKept DEF HeapOf
  <1>9. RunRight'
    BY DEF RunRight, Idle
  <1>10. \A u \in Txn \ {t} : Untouched(u)
    BY <1>4, <1>7, LeftAlone
  <1>11. TxnInv(t)'
    BY <1>2, <1>4, <1>7
       DEF TxnInv, CallLive, InCall, RequestsWanted, BornClean, GrantsOfSelect, ChangesLocked,
           ReadsLocked, StillThere, NothingNew, Keeps, Ended
  <1>12. QED
    BY <1>6, <1>7, <1>8, <1>9, <1>10, <1>11, StepKept

(* commit_tx *)
LEMMA CommitKept ==
  ASSUME NEW t \in Txn
  PROVE  TxInv /\ Commit(t) => TxInv'
  <1> SUFFICES ASSUME TxInv, Commit(t) PROVE TxInv'
    OBVIOUS
  <1>1. Idle /\ ~ InCall(t) /\ EndTx(t, "Committed") /\ ReleaseLocks(t) /\ heap' = heap
        /\ UNCHANGED <<call, run>>
    BY DEF Commit
  <1>2. HeapOf(t)
    BY <1>1, HeapStays
  <1>3. "Committed" \in Ended
    BY DEF Ended
  <1>4. QED
    BY <1>1, <1>2, <1>3, EndKept

(* rollback_tx, which cannot fail here. *)
LEMMA RollbackKept ==
  ASSUME NEW t \in Txn
  PROVE  TxInv /\ Rollback(t) => TxInv'
  <1> SUFFICES ASSUME TxInv, Rollback(t) PROVE TxInv'
    OBVIOUS
  <1>1. Undo(heap, tx[t].undo).ok
    BY UndoRight
  <1>2. Idle /\ ~ InCall(t) /\ EndTx(t, "RolledBack") /\ ReleaseLocks(t)
        /\ heap' = Undo(heap, tx[t].undo).heap /\ UNCHANGED <<call, run>>
    BY <1>1 DEF Rollback
  <1>3. HeapOf(t)
    BY <1>2, HeapStays
  <1>4. "RolledBack" \in Ended
    BY DEF Ended
  <1>5. QED
    BY <1>2, <1>3, <1>4, EndKept

(* commit_tx of an aborted transaction. *)
LEMMA CommitRefusedKept ==
  ASSUME NEW t \in Txn
  PROVE  TxInv /\ CommitRefused(t) => TxInv'
  <1> SUFFICES ASSUME TxInv, CommitRefused(t) PROVE TxInv'
    OBVIOUS
  <1>1. Typed /\ LocksRight /\ RowsFixed /\ RunRight /\ TxnInv(t)
    BY DEF TxInv
  <1> DEFINE d == [tx[t] EXCEPT !.state = "Lost"]
  <1>2. /\ Idle /\ ~ InCall(t) /\ tx[t].state = "Aborted"
        /\ tx' = [tx EXCEPT ![t] = d] /\ asleep' = {}
        /\ UNCHANGED <<entries, pending, heap, call, run, issued, seen>> /\ UNCHANGED locks
    BY <1>1 DEF CommitRefused, locks, Typed
  <1>3. d \in Context /\ d.state = "Lost" /\ d.undo = tx[t].undo
    <2>1. "Lost" \in State /\ tx[t] \in Context
      BY <1>1, Contexts DEF State, Ended
    <2>2. QED
      BY <2>1, ContextSet
  <1> HIDE DEF d
  <1>4. tx' \in [Txn -> Context] /\ tx'[t] = d /\ \A u \in Txn \ {t} : tx'[u] = tx[u]
    BY <1>1, <1>2, <1>3 DEF Typed
  <1>5. Typed'
    BY <1>1, <1>2, <1>4 DEF Typed, InCall
  <1>6. LocksRight' /\ \A u \in Txn : LMP!OthersCall(u)
    BY <1>1, <1>2, LocksStayRight, SameLocks
  <1>7. RowsFixed'
    BY <1>1, <1>2, <1>3, <1>4, RowsFixedKept DEF RowsFixed
  <1>8. RunRight'
    BY <1>2 DEF RunRight, Idle
  <1>9. \A u \in Txn \ {t} : Untouched(u)
    BY <1>2, <1>4, <1>6 DEF Untouched
  <1>10. TxnInv(t)'
    <2>1. \A k \in Key : \A w \in LMP!Requests(entries'[k]) : w.txn # t
      BY <1>2, NoRequests
    <2>2. ChangesLocked(t)'
      BY <1>1, <1>2, <1>3, <1>4 DEF TxnInv, ChangesLocked, Place
    <2>3. QED
      BY <1>2, <1>3, <1>4, <2>1, <2>2
         DEF TxnInv, CallLive, InCall, RequestsWanted, BornClean, GrantsOfSelect,
             ReadsLocked, StillThere, NothingNew, Keeps
  <1>11. QED
    BY <1>5, <1>6, <1>7, <1>8, <1>9, <1>10, StepKept

(* acquire, as the transaction that asks sees it. *)
Asked(t, k, mode) ==
    /\ \A j \in Key \ {k} : entries'[j] = entries[j]
    /\ \A w \in LMP!Requests(entries'[k]) :
          w \in LMP!Requests(entries[k]) \/ (w.txn = t /\ w.mode = mode)
    /\ Granted(t) => entries'[k].holders[t] = IF entries[k].holders[t] = "Exclusive"
                                              THEN "Exclusive" ELSE mode
    /\ ~ Granted(t) => entries'[k].holders = entries[k].holders
    /\ \A j \in pending'[t] \ pending[t] :
          j = k /\ entries[k].holders[t] = "None" /\ entries'[k].holders[t] = "Shared"

(* The next key of a statement is one that it wants. *)
LEMMA AcquireRight ==
  ASSUME TxInv, NEW t \in Txn, AcquireNext(t)
  PROVE  /\ tx[t].state = "Active" /\ InCall(t) /\ call[t] \in Stmt
         /\ Head(run.keys) \in Key /\ Head(run.keys) \in Wanted(t)
         /\ run.txn = t /\ run \in Attempt /\ run.keys # <<>>
         /\ ModeOf(call[t]) \in {"Shared", "Exclusive"}
         /\ LockStep /\ LocksRight'
         /\ \A u \in Txn \ {t} : LMP!OthersCall(u)
         /\ Asked(t, Head(run.keys), ModeOf(call[t]))
  <1> DEFINE k == Head(run.keys)
             mode == ModeOf(call[t])
  <1>1. Typed /\ LocksRight /\ RunRight
    BY DEF TxInv
  <1>2. run.txn = t /\ run.keys # <<>> /\ LM!Acquire(t, k, mode) /\ run # NoRun
    BY BoundsAssumption DEF AcquireNext, NoRun, Txn
  <1>3. /\ tx[t].state = "Active" /\ InCall(t) /\ run \in Attempt
        /\ Range(run.keys) \subseteq Wanted(t)
    BY <1>1, <1>2 DEF RunRight
  <1>4. call[t] \in Stmt
    BY <1>1, <1>3, Contexts
  <1>5. k \in Key /\ k \in Range(run.keys)
    <2>1. run.keys \in Seq(Key)
      BY <1>3 DEF Attempt
    <2>2. 1 \in DOMAIN run.keys /\ k = run.keys[1] /\ k \in Key
      BY <1>2, <2>1
    <2>3. QED
      BY <2>2 DEF Range
  <1>6. mode \in {"Shared", "Exclusive"} /\ mode \in LMP!Mode
    BY Modes
  <1>7. LMP!Acquire(t, k, mode)
    BY <1>2, SameAcquire
  <1>8. LockStep
    BY <1>5, <1>6, <1>7 DEF LockStep
  <1>9. LocksRight' /\ LMP!LockInv
    BY <1>1, <1>8, LocksStayRight DEF LocksRight
  <1>10. Granted(t) <=> LMP!GrantedAtOnce(entries[k], t, mode)
    BY SameGranted DEF Granted
  <1> HIDE DEF k, mode
  <1>11. /\ \A u \in Txn \ {t} : LMP!OthersCall(u)
         /\ \A j \in Key \ {k} : entries'[j] = entries[j]
         /\ \A w \in LMP!Requests(entries'[k]) :
               w \in LMP!Requests(entries[k]) \/ (w.txn = t /\ w.mode = mode)
         /\ LMP!GrantedAtOnce(entries[k], t, mode) =>
               entries'[k].holders[t]
                   = IF entries[k].holders[t] = LMP!Exclusive THEN LMP!Exclusive ELSE mode
         /\ ~ LMP!GrantedAtOnce(entries[k], t, mode) => entries'[k].holders = entries[k].holders
         /\ \A j \in pending'[t] \ pending[t] :
               j = k /\ entries[k].holders[t] = LMP!NoLock /\ entries'[k].holders[t] = LMP!Shared
    BY <1>5, <1>6, <1>7, <1>9, LMP!AcquireView
  <1>12. Asked(t, k, mode)
    BY <1>10, <1>11, Modes DEF Asked
  <1>13. QED
    BY <1>2, <1>3, <1>4, <1>5, <1>6, <1>8, <1>9, <1>11, <1>12 DEF k, mode

(* A transaction that stays in its call after asking for a key. *)
LEMMA AskerKept ==
  ASSUME NEW t \in Txn
  PROVE  TxInv /\ AcquireNext(t) /\ Typed' /\ RowsFixed' /\ UNCHANGED call => TxnInv(t)'
  <1> SUFFICES ASSUME TxInv, AcquireNext(t), Typed', RowsFixed', UNCHANGED call
               PROVE  TxnInv(t)'
    OBVIOUS
  <1>1. Typed /\ LocksRight /\ RowsFixed /\ TxnInv(t)
    BY DEF TxInv
  <1>2. UNCHANGED <<heap, tx, issued, seen>>
    BY DEF AcquireNext
  <1> DEFINE k == Head(run.keys)
             mode == ModeOf(call[t])
  <1>3. /\ tx[t].state = "Active" /\ InCall(t) /\ k \in Key /\ k \in Wanted(t)
        /\ mode \in {"Shared", "Exclusive"} /\ LocksRight' /\ Asked(t, k, mode)
    BY AcquireRight
  <1>4. Wanted(t)' = Wanted(t) /\ InCall(t)'
    BY <1>1, <1>2, <1>3, SameWanted DEF InCall
  <1>5. mode = "Shared" <=> call[t].op = "select"
    BY Modes
  <1> HIDE DEF k, mode
  <1>6. \A j \in Key : /\ entries[j].holders[t] = "Exclusive" => entries'[j].holders[t] = "Exclusive"
                       /\ entries[j].holders[t] # "None" => entries'[j].holders[t] # "None"
                       /\ mode = "Shared" /\ entries[j].holders[t] = "Shared" =>
                             entries'[j].holders[t] = "Shared"
    BY <1>3 DEF Asked
  <1>7. CallLive(t)' /\ BornClean(t)'
    BY <1>2, <1>3 DEF CallLive, Live, BornClean
  <1>8. RequestsWanted(t)'
    BY <1>1, <1>2, <1>3, <1>4 DEF TxnInv, RequestsWanted, Asked, mode
  <1>9. GrantsOfSelect(t)'
    <2> SUFFICES ASSUME tx[t].level = "ReadCommitted", NEW j \in pending'[t]
                 PROVE  call[t].op = "select" /\ entries'[j].holders[t] = "Shared"
      BY <1>2, <1>4, Modes DEF GrantsOfSelect
    <2>1. CASE j \in pending[t]
      <3>1. j \in Key
        BY <1>1, <1>3, <2>1, LockTable
      <3>2. call[t].op = "select" /\ entries[j].holders[t] = "Shared"
        BY <1>1, <1>3, <2>1, Modes DEF TxnInv, GrantsOfSelect
      <3>3. QED
        BY <1>5, <1>6, <3>1, <3>2
    <2>2. CASE j \notin pending[t]
      <3>1. j = k /\ entries[k].holders[t] = "None" /\ entries'[k].holders[t] = "Shared"
        BY <1>3, <2>2 DEF Asked
      <3>2. mode = "Shared"
        BY <1>3, <3>1 DEF Asked
      <3>3. QED
        BY <1>5, <3>1, <3>2
    <2>3. QED
      BY <2>1, <2>2
  <1>10. ChangesLocked(t)'
    BY <1>1, <1>2, <1>6, Contexts, Places, Modes DEF TxnInv, ChangesLocked, Place
  <1>11. ReadsLocked(t)'
    BY <1>1, <1>2, <1>6, Contexts, Places, Modes DEF TxnInv, ReadsLocked, Place, Keeps, Occupied
  <1>12. StillThere(t)'
    BY <1>1, <1>2 DEF TxnInv, StillThere, Keeps, WroteItself
  <1>13. NothingNew(t)'
    BY <1>1, <1>2 DEF TxnInv, NothingNew, Keeps, Occupied, Matching, WroteItself
  <1>14. QED
    BY <1>7, <1>8, <1>9, <1>10, <1>11, <1>12, <1>13 DEF TxnInv

(* The key is granted. *)
LEMMA LockGrantedKept ==
  ASSUME NEW t \in Txn
  PROVE  TxInv /\ LockGranted(t) => TxInv'
  <1> SUFFICES ASSUME TxInv, LockGranted(t) PROVE TxInv'
    OBVIOUS
  <1>1. Typed /\ LocksRight /\ RowsFixed /\ RunRight
    BY DEF TxInv
  <1> DEFINE c == [run EXCEPT !.keys = Tail(run.keys)]
  <1>2. /\ AcquireNext(t) /\ Granted(t) /\ run' = [run EXCEPT !.keys = Tail(@), !.again = FALSE]
        /\ UNCHANGED <<heap, tx, issued, seen, call, asleep>>
    BY DEF LockGranted, AcquireNext
  <1> DEFINE k == Head(run.keys)
             mode == ModeOf(call[t])
  <1>3. /\ tx[t].state = "Active" /\ InCall(t) /\ k \in Key /\ k \in Wanted(t)
        /\ run.txn = t /\ run \in Attempt /\ run.keys # <<>>
        /\ LocksRight' /\ Asked(t, k, mode)
        /\ \A u \in Txn \ {t} : LMP!OthersCall(u)
    BY <1>2, AcquireRight
  <1>4. Typed' /\ RowsFixed'
    BY <1>1, <1>2 DEF Typed, InCall, RowsFixed
  <1>5. TxnInv(t)'
    BY <1>2, <1>4, AskerKept
  <1>6. \A u \in Txn \ {t} : Untouched(u)
    BY <1>2, <1>3 DEF Untouched
  <1>7. Wanted(t)' = Wanted(t) /\ InCall(t)'
    BY <1>1, <1>2, <1>3, <1>4, SameWanted DEF InCall
  <1>8. run' \in Attempt /\ run'.txn = t /\ run'.keys = Tail(run.keys)
    <2>1. Tail(run.keys) \in Seq(Key)
      BY <1>3 DEF Attempt
    <2>2. c \in Attempt /\ c.txn = t /\ c.keys = Tail(run.keys)
      BY <1>3, <2>1 DEF Attempt
    <2>3. run' = [c EXCEPT !.again = FALSE]
      BY <1>2, <1>3 DEF Attempt
    <2> HIDE DEF c
    <2>4. QED
      BY <2>2, <2>3 DEF Attempt
  <1>9. Range(Tail(run.keys)) \subseteq Range(run.keys)
        /\ Range(run.keys) \subseteq Range(Tail(run.keys)) \cup {k}
    <2>1. run.keys \in Seq(Key)
      BY <1>3 DEF Attempt
    <2> DEFINE q == run.keys
    <2> HIDE DEF q
    <2>2. q \in Seq(Key) /\ q # <<>> /\ k = Head(q)
      BY <1>3, <2>1 DEF q
    <2>3. /\ \A i \in 1..Len(Tail(q)) : Tail(q)[i] = q[i + 1] /\ i + 1 \in 1..Len(q)
          /\ \A i \in 1..Len(q) : i = 1 \/ (i - 1 \in 1..Len(Tail(q)) /\ q[i] = Tail(q)[i - 1])
          /\ Head(q) = q[1] /\ DOMAIN q = 1..Len(q) /\ DOMAIN Tail(q) = 1..Len(Tail(q))
      BY <2>2
    <2> DEFINE p == Tail(q)
    <2> HIDE DEF p
    <2>4. Range(p) \subseteq Range(q) /\ Range(q) \subseteq Range(p) \cup {k}
      <3>1. ASSUME NEW x \in Range(p) PROVE x \in Range(q)
        <4>1. PICK i \in 1..Len(p) : x = p[i]
          BY <2>3, <3>1 DEF Range, p
        <4>2. x = q[i + 1] /\ i + 1 \in DOMAIN q
          BY <2>3, <4>1 DEF p
        <4>3. QED
          BY <4>2 DEF Range
      <3>2. ASSUME NEW x \in Range(q) PROVE x \in Range(p) \cup {k}
        <4>1. PICK i \in 1..Len(q) : x = q[i]
          BY <2>3, <3>2 DEF Range
        <4>2. CASE i = 1
          BY <2>2, <2>3, <4>1, <4>2
        <4>3. CASE i # 1
          <5>1. i - 1 \in DOMAIN p /\ x = p[i - 1]
            BY <2>3, <4>1, <4>3 DEF p
          <5>2. QED
            BY <5>1 DEF Range
        <4>4. QED
          BY <4>2, <4>3
      <3>3. QED
        BY <3>1, <3>2
    <2>5. QED
      BY <2>4 DEF p, q
  <1>10. RunRight'
    <2>1. /\ Range(run.keys) \subseteq Wanted(t)
          /\ \A j \in Wanted(t) \ Range(run.keys) : entries[j].holders[t] \in {"Exclusive", mode}
      <3>1. run # NoRun
        BY <1>3, BoundsAssumption DEF NoRun, Txn
      <3>2. QED
        BY <1>1, <1>3, <3>1, Modes DEF RunRight
    <2>2. ASSUME NEW j \in Wanted(t) \ Range(Tail(run.keys))
          PROVE  entries'[j].holders[t] \in {"Exclusive", mode}
      <3>1. j \in Key
        BY <1>1, <1>3, Contexts, KeysRight DEF Wanted
      <3>2. CASE j = k
        BY <1>2, <1>3, <3>2 DEF Asked
      <3>3. CASE j # k
        BY <1>3, <1>9, <2>1, <2>2, <3>1, <3>3 DEF Asked
      <3>4. QED
        BY <3>2, <3>3
    <2>3. Range(run'.keys) \subseteq Wanted(t)
      BY <1>8, <1>9, <2>1
    <2>4. /\ tx'[t].state = "Active"
          /\ \A j \in Wanted(t)' \ Range(run'.keys) :
                entries'[j].holders[t] \in {LM!Exclusive, ModeOf(call'[t])}
      BY <1>2, <1>3, <1>7, <1>8, <2>2, Modes
    <2>5. QED
      BY <1>7, <1>8, <2>3, <2>4 DEF RunRight, ModeOf, LM!Shared, LM!Exclusive
  <1>11. QED
    BY <1>3, <1>4, <1>5, <1>6, <1>10, StepKept

(* WouldBlock: the thread sleeps, its statement is not over. *)
LEMMA LockRefusedKept ==
  ASSUME NEW t \in Txn, Blocking
  PROVE  TxInv /\ LockRefused(t) => TxInv'
  <1> SUFFICES ASSUME TxInv, LockRefused(t) PROVE TxInv'
    OBVIOUS
  <1>1. Typed /\ LocksRight /\ RowsFixed
    BY DEF TxInv
  <1>2. /\ AcquireNext(t) /\ run' = NoRun /\ asleep' = {t}
        /\ UNCHANGED <<heap, tx, issued, seen, call>>
    BY DEF LockRefused, AcquireNext, WouldBlock
  <1>3. InCall(t) /\ LocksRight' /\ \A u \in Txn \ {t} : LMP!OthersCall(u)
    BY <1>2, AcquireRight
  <1>4. Typed' /\ RowsFixed' /\ RunRight'
    BY <1>1, <1>2, <1>3 DEF Typed, InCall, RowsFixed, RunRight
  <1>5. TxnInv(t)'
    BY <1>2, <1>4, AskerKept
  <1>6. \A u \in Txn \ {t} : Untouched(u)
    BY <1>2, <1>3 DEF Untouched
  <1>7. QED
    BY <1>3, <1>4, <1>5, <1>6, StepKept

(* A deadlock: the victim is chosen. *)
LEMMA DeadlockFoundKept ==
  ASSUME NEW t \in Txn
  PROVE  TxInv /\ DeadlockFound(t) => TxInv'
  <1> SUFFICES ASSUME TxInv, DeadlockFound(t) PROVE TxInv'
    OBVIOUS
  <1>1. Typed /\ LocksRight /\ RowsFixed /\ RunRight
    BY DEF TxInv
  <1>2. PICK v \in Victims(t) : run' = [run EXCEPT !.victim = v]
    BY DEF DeadlockFound
  <1>3. /\ AcquireNext(t) /\ ~ Granted(t) /\ v \in Txn
        /\ UNCHANGED <<heap, tx, issued, seen, call, asleep>>
    BY DEF DeadlockFound, AcquireNext, Victims
  <1> DEFINE k == Head(run.keys)
             mode == ModeOf(call[t])
  <1>4. /\ tx[t].state = "Active" /\ InCall(t) /\ run.txn = t /\ run \in Attempt
        /\ k \in Key /\ Asked(t, k, mode) /\ LocksRight' /\ \A u \in Txn \ {t} : LMP!OthersCall(u)
    BY <1>3, AcquireRight
  <1>5. Typed' /\ RowsFixed'
    BY <1>1, <1>3 DEF Typed, InCall, RowsFixed
  <1>6. TxnInv(t)'
    BY <1>3, <1>5, AskerKept
  <1>7. \A u \in Txn \ {t} : Untouched(u)
    BY <1>3, <1>4 DEF Untouched
  <1>8. Wanted(t)' = Wanted(t) /\ InCall(t)'
    BY <1>1, <1>3, <1>4, <1>5, SameWanted DEF InCall
  <1>9. run' \in Attempt /\ run'.txn = t /\ run'.keys = run.keys
    BY <1>2, <1>3, <1>4 DEF Attempt
  <1>10. \A j \in Key : entries'[j].holders = entries[j].holders
    BY <1>3, <1>4 DEF Asked
  <1>11. RunRight'
    <2>1. run # NoRun
      BY <1>4, BoundsAssumption DEF NoRun, Txn
    <2>2. /\ Range(run.keys) \subseteq Wanted(t) /\ Wanted(t) \subseteq Key
          /\ \A j \in Wanted(t) \ Range(run.keys) : entries[j].holders[t] \in {"Exclusive", mode}
      BY <1>1, <1>4, <2>1, Modes, Contexts, KeysRight DEF RunRight, Wanted
    <2>3. /\ tx'[t].state = "Active"
          /\ \A j \in Wanted(t)' \ Range(run'.keys) :
                entries'[j].holders[t] \in {LM!Exclusive, ModeOf(call'[t])}
      BY <1>3, <1>4, <1>8, <1>9, <1>10, <2>2, Modes
    <2>4. QED
      BY <1>8, <1>9, <2>2, <2>3 DEF RunRight, ModeOf, LM!Shared, LM!Exclusive
  <1>12. QED
    BY <1>4, <1>5, <1>6, <1>7, <1>11, StepKept

(* abort_transaction, of the caller itself or of another transaction. *)
LEMMA AbortKept ==
  ASSUME NEW t \in Txn, NEW v \in Txn
  PROVE  TxInv /\ AbortVictim(t) /\ run.victim = v => TxInv'
  <1> SUFFICES ASSUME TxInv, AbortVictim(t), run.victim = v PROVE TxInv'
    OBVIOUS
  <1> DEFINE d == AbortedContext(tx[v])
  <1>1. Typed /\ LocksRight /\ RowsFixed /\ RunRight
    BY DEF TxInv
  <1>2. /\ run.txn = t /\ v # 0 /\ heap' = Undo(heap, tx[v].undo).heap
        /\ tx' = [tx EXCEPT ![v] = d] /\ ReleaseLocks(v)
        /\ UNCHANGED <<issued, seen>>
    BY DEF AbortVictim
  <1>3. run \in Attempt /\ run # NoRun /\ tx[t].state = "Active" /\ InCall(t)
    <2>1. run # NoRun
      BY <1>2, BoundsAssumption DEF NoRun, Txn
    <2>2. QED
      BY <1>1, <1>2, <2>1 DEF RunRight, Attempt
  <1>4. d \in Context /\ d.state = "Aborted" /\ d.level = tx[v].level /\ d.undo = <<>>
    <2> DEFINE c == [tx[v] EXCEPT !.state = "Aborted"]
    <2>1. tx[v] \in Context /\ "Aborted" \in State /\ <<>> \in Seq(Record)
      BY <1>1, <1>3, Contexts DEF State
    <2>2. c \in Context /\ c.state = "Aborted" /\ c.level = tx[v].level
      BY <2>1, ContextSet
    <2>3. d = [c EXCEPT !.undo = <<>>]
      BY <2>1 DEF AbortedContext, Context
    <2> HIDE DEF c, d
    <2>4. QED
      BY <2>1, <2>2, <2>3, ContextSet
  <1> HIDE DEF d
  <1>5. tx' \in [Txn -> Context] /\ tx'[v] = d /\ \A u \in Txn \ {v} : tx'[u] = tx[u]
    BY <1>1, <1>2, <1>3, <1>4 DEF Typed
  <1>6. HeapOf(v)
    BY <1>2, <1>3, HeapStays
  <1>7. /\ LocksRight' /\ \A u \in Txn \ {v} : LMP!OthersCall(u)
        /\ \A k \in Key : \A w \in LMP!Requests(entries'[k]) : w.txn # v
        /\ pending'[v] = {}
    BY <1>1, <1>2, <1>3, ReleasedAll
  <1>8. RowsFixed'
    BY <1>1, <1>4, <1>5, <1>6, RowsFixedKept DEF HeapOf
  <1>9. CallLive(v) /\ BornClean(v)
    BY <1>3 DEF TxInv, TxnInv
  <1>10. TxnInv(v)'
    BY <1>4, <1>5, <1>7
       DEF TxnInv, CallLive, Live, RequestsWanted, BornClean, GrantsOfSelect, ChangesLocked,
           ReadsLocked, StillThere, NothingNew, Keeps
  <1>11. CASE v = t
    <2>1. Return(t)
      BY <1>11 DEF AbortVictim
    <2>2. /\ call' \in [Txn -> Stmt \cup {NoStmt}]
          /\ \A u \in Txn \ {t} : call'[u] = call[u]
          /\ \A u \in Txn : InCall(u)' => \E w \in Work : w[2] = call'[u]
          /\ asleep' = {} /\ RunRight'
      BY <1>1, <2>1, Returned
    <2>3. Typed'
      BY <1>1, <1>2, <1>5, <1>6, <2>2 DEF Typed, HeapOf, Heaps
    <2>4. \A u \in Txn \ {t} : Untouched(u)
      BY <1>2, <1>3, <1>5, <1>6, <1>7, <1>11, <2>2, LeftAlone
    <2>5. QED
      BY <1>7, <1>8, <1>10, <1>11, <2>2, <2>3, <2>4, StepKept
  <1>12. CASE v # t
    <2>1. run' = [run EXCEPT !.victim = 0, !.again = TRUE] /\ UNCHANGED <<call, asleep>>
      BY <1>12 DEF AbortVictim
    <2>2. Typed'
      BY <1>1, <1>2, <1>5, <1>6, <2>1 DEF Typed, HeapOf, Heaps, InCall
    <2>3. \A u \in Txn \ {v} : Untouched(u)
      BY <1>2, <1>3, <1>5, <1>6, <1>7, <2>1, LeftAlone
    <2>4. run' \in Attempt /\ run'.txn = t /\ run'.keys = run.keys
      <3> DEFINE c == [run EXCEPT !.victim = 0]
      <3>1. c \in Attempt /\ c.txn = t /\ c.keys = run.keys
        BY <1>2, <1>3 DEF Attempt
      <3>2. run' = [c EXCEPT !.again = TRUE]
        BY <1>3, <2>1 DEF Attempt
      <3> HIDE DEF c
      <3>3. QED
        BY <3>1, <3>2 DEF Attempt
    <2>5. Wanted(t)' = Wanted(t) /\ InCall(t)' /\ tx'[t] = tx[t]
      <3>1. tx'[t] = tx[t] /\ call'[t] = call[t]
        BY <1>5, <1>12, <2>1
      <3>2. QED
        BY <1>1, <1>3, <1>8, <2>2, <3>1, SameWanted DEF InCall
    <2>6. /\ Range(run.keys) \subseteq Wanted(t) /\ Wanted(t) \subseteq Key
          /\ \A j \in Wanted(t) \ Range(run.keys) :
                entries[j].holders[t] \in {"Exclusive", ModeOf(call[t])}
      BY <1>1, <1>2, <1>3, Modes, Contexts, KeysRight DEF RunRight, Wanted
    <2>7. ASSUME NEW j \in Wanted(t) \ Range(run.keys)
          PROVE  entries'[j].holders[t] \in {"Exclusive", ModeOf(call[t])}
      <3>1. j \in Key /\ entries[j].holders[t] \in {"Exclusive", ModeOf(call[t])}
        BY <2>6, <2>7
      <3>2. RequestsWanted(t) /\ LMP!OthersCall(t)
        BY <1>7, <1>12 DEF TxInv, TxnInv
      <3>3. \/ entries'[j].holders[t] = entries[j].holders[t]
            \/ entries'[j].holders[t] = ModeOf(call[t])
        BY <1>1, <3>1, <3>2, HoldingKept
      <3>4. QED
        BY <3>1, <3>3
    <2>8. RunRight'
      <3>1. /\ tx'[t].state = "Active"
            /\ \A j \in Wanted(t)' \ Range(run'.keys) :
                  entries'[j].holders[t] \in {LM!Exclusive, ModeOf(call'[t])}
        BY <1>3, <2>1, <2>4, <2>5, <2>7, Modes
      <3>2. QED
        BY <2>4, <2>5, <2>6, <3>1 DEF RunRight, ModeOf, LM!Shared, LM!Exclusive
    <2>9. \A u \in Txn \ {v, v} : Untouched(u)
      BY <2>3
    <2>10. QED
      BY <1>3, <1>7, <1>8, <1>10, <2>2, <2>8, <2>9, StepKept
  <1>13. QED
    BY <1>11, <1>12

(* Whoever the victim is. *)
LEMMA AbortVictimKept ==
  ASSUME NEW t \in Txn
  PROVE  TxInv /\ AbortVictim(t) => TxInv'
  <1> SUFFICES ASSUME TxInv, AbortVictim(t) PROVE TxInv'
    OBVIOUS
  <1>1. run.txn = t /\ run.victim # 0
    BY DEF AbortVictim
  <1>2. run # NoRun
    BY <1>1, BoundsAssumption DEF NoRun, Txn
  <1>3. run.victim \in Txn
    BY <1>1, <1>2 DEF TxInv, RunRight, Attempt
  <1>4. PICK v \in Txn : run.victim = v
    BY <1>3
  <1>5. QED
    BY <1>4, AbortKept

(* Its undo does not fail. *)
LEMMA VictimUndone ==
  ASSUME TxInv, NEW t \in Txn
  PROVE  ~ AbortVictimFails(t)
  <1> SUFFICES ASSUME AbortVictimFails(t) PROVE FALSE
    OBVIOUS
  <1>1. run.txn = t /\ run.victim # 0 /\ ~ Undo(heap, tx[run.victim].undo).ok
    BY DEF AbortVictimFails
  <1>2. run # NoRun
    BY <1>1, BoundsAssumption DEF NoRun, Txn
  <1>3. run.victim \in Txn
    BY <1>1, <1>2 DEF TxInv, RunRight, Attempt
  <1>4. QED
    BY <1>1, <1>3, UndoRight

(* The end of a SELECT: READ COMMITTED gives up what the SELECT was granted, *)
(* which are Shared locks, as release_keys expects.                          *)
LEMMA ScanEnds ==
  ASSUME TxInv, NEW t \in Txn, HasLocks(t), call[t].op = "select", EndOfScanLocks(t)
  PROVE  /\ LockStep \/ UNCHANGED locks
         /\ LocksRight'
         /\ \A u \in Txn \ {t} : LMP!OthersCall(u)
         /\ \A k \in Key : \A w \in LMP!Requests(entries'[k]) : w.txn # t
         /\ \A k \in Key : entries[k].holders[t] = "Exclusive" => entries'[k].holders[t] = "Exclusive"
         /\ tx[t].level = "ReadCommitted" => pending'[t] = {}
         /\ tx[t].level # "ReadCommitted" => UNCHANGED locks
  <1>1. Typed /\ LocksRight /\ TxnInv(t)
    BY DEF TxInv
  <1>2. /\ tx[t].state = "Active"
        /\ \A k \in Key : \A w \in LMP!Requests(entries[k]) : w.txn # t
    BY HasLocksRight
  <1>3. CASE tx[t].level # "ReadCommitted"
    <2>1. UNCHANGED locks
      BY <1>3 DEF EndOfScanLocks, ReleasesReads
    <2>2. LocksRight' /\ \A u \in Txn : LMP!OthersCall(u)
      BY <1>1, <2>1, LocksStayRight, SameLocks
    <2>3. QED
      BY <1>2, <1>3, <2>1, <2>2 DEF locks
  <1>4. CASE tx[t].level = "ReadCommitted"
    <2>1. LMP!ReleasePendingReads(t)
      BY <1>4, SameReads DEF EndOfScanLocks, ReleasesReads
    <2>2. \A k \in pending[t] : k \in Key /\ entries[k].holders[t] = "Shared"
      <3>1. pending[t] \in SUBSET Key
        BY <1>1 DEF LocksRight, LMP!LockInv, LMP!TypeOK
      <3>2. QED
        BY <1>1, <1>2, <1>4, <3>1, Modes DEF TxnInv, GrantsOfSelect
    <2>3. LMP!OnlyReads(t)
      <3>1. \A k \in Key : ~ LMP!Waits(entries[k].waiters, t)
        BY <1>2 DEF LMP!Requests, LMP!Waits
      <3>2. QED
        BY <2>2, <3>1, Modes DEF LMP!OnlyReads
    <2>4. LMP!EndOfReads(t)
      BY <2>1, <2>3 DEF LMP!EndOfReads
    <2>5. LockStep /\ LMP!LockInv
      BY <1>1, <2>4 DEF LockStep, LocksRight
    <2>6. /\ \A u \in Txn \ {t} : LMP!OthersCall(u)
          /\ \A k \in Key :
               IF k \in pending[t] THEN /\ entries'[k].holders[t] = LMP!NoLock
                                        /\ \A w \in LMP!Requests(entries'[k]) : w.txn # t
                                   ELSE entries'[k] = entries[k]
          /\ pending'[t] = {}
      BY <2>4, <2>5, LMP!EndOfReadsView
    <2>7. LocksRight'
      BY <1>1, <2>5, LocksStayRight
    <2>8. \A k \in Key : entries[k].holders[t] = "Exclusive" => entries'[k] = entries[k]
      BY <2>2, <2>6
    <2>9. \A k \in Key : \A w \in LMP!Requests(entries'[k]) : w.txn # t
      BY <1>2, <2>6
    <2>10. QED
      BY <1>4, <2>5, <2>6, <2>7, <2>8, <2>9
  <1>5. QED
    BY <1>3, <1>4

(* Undo records and exclusive locks that stay. *)
LEMMA ChangesStayLocked ==
  ASSUME TxInv, NEW t \in Txn, tx'[t].undo = tx[t].undo,
         \A k \in Key : entries[k].holders[t] = "Exclusive" => entries'[k].holders[t] = "Exclusive"
  PROVE  ChangesLocked(t)'
  <1>1. Typed /\ TxnInv(t)
    BY DEF TxInv
  <1>2. \A i \in 1..Len(tx[t].undo) : Place(tx[t].undo[i].table, tx[t].undo[i].slot) \in Key
    BY <1>1, Contexts, Places
  <1>3. QED
    BY <1>1, <1>2, Modes DEF TxnInv, ChangesLocked, Place

(* A SELECT. *)
LEMMA SelectKept ==
  ASSUME NEW t \in Txn
  PROVE  TxInv /\ Select(t) => TxInv'
  <1> SUFFICES ASSUME TxInv, Select(t) PROVE TxInv'
    OBVIOUS
  <1> DEFINE stmt == call[t]
             rows == {heap[stmt.table][s] : s \in Matching(heap, stmt)}
             rd == [table |-> stmt.table, ids |-> stmt.ids, rows |-> rows]
             old == IF ReleasesReads(t) THEN {} ELSE seen[t]
  <1>1. Typed /\ LocksRight /\ RowsFixed /\ TxnInv(t)
    BY DEF TxInv
  <1>2. /\ HasLocks(t) /\ stmt.op = "select" /\ EndOfScanLocks(t) /\ Return(t)
        /\ seen' = [seen EXCEPT ![t] = old \cup {rd}]
        /\ UNCHANGED <<heap, tx, issued>>
    BY DEF Select
  <1>3. /\ tx[t].state = "Active" /\ InCall(t) /\ stmt \in Stmt
        /\ \A k \in Wanted(t) : k \in Key /\ entries[k].holders[t] \in {"Exclusive", ModeOf(stmt)}
    BY <1>2, HasLocksRight
  <1>4. /\ stmt.table \in Table /\ stmt.ids \in SUBSET Id
        /\ \A s \in Matching(heap, stmt) : s \in Slot /\ heap[stmt.table][s] \in Row
    BY <1>1, <1>3, Distinct DEF Typed, Matching, Occupied
  <1>5. rd \in Reading /\ rd.table = stmt.table /\ rd.ids = stmt.ids /\ rd.rows = rows
    BY <1>4 DEF Reading
  <1>6. Matching(heap, rd) = Matching(heap, stmt)
    BY <1>5 DEF Matching
  <1>7. \A r \in rows : \E s \in Slot : heap[stmt.table][s] = r
    BY <1>4
  <1>8. \A s \in Matching(heap, stmt) : heap[stmt.table][s] \in rows
    OBVIOUS
  <1> HIDE DEF rd, rows
  <1>9. /\ seen' \in [Txn -> SUBSET Reading] /\ seen'[t] = old \cup {rd}
        /\ \A u \in Txn \ {t} : seen'[u] = seen[u]
    BY <1>1, <1>2, <1>5 DEF Typed
  <1>10. /\ call' \in [Txn -> Stmt \cup {NoStmt}] /\ ~ InCall(t)'
         /\ \A u \in Txn \ {t} : call'[u] = call[u]
         /\ \A u \in Txn : InCall(u)' => \E w \in Work : w[2] = call'[u]
         /\ asleep' = {} /\ RunRight'
    BY <1>1, <1>2, Returned
  <1>11. Typed'
    BY <1>1, <1>2, <1>9, <1>10 DEF Typed
  <1>12. RowsFixed'
    BY <1>1, <1>2 DEF RowsFixed
  <1>13. /\ LocksRight' /\ \A u \in Txn \ {t} : LMP!OthersCall(u)
         /\ \A k \in Key : \A w \in LMP!Requests(entries'[k]) : w.txn # t
         /\ \A k \in Key : entries[k].holders[t] = "Exclusive" => entries'[k].holders[t] = "Exclusive"
         /\ tx[t].level = "ReadCommitted" => pending'[t] = {}
         /\ tx[t].level # "ReadCommitted" => UNCHANGED locks
    BY <1>2, ScanEnds
  <1>14. \A u \in Txn \ {t} : Untouched(u)
    BY <1>2, <1>9, <1>10, <1>13 DEF Untouched
  <1>15. CallLive(t)' /\ RequestsWanted(t)' /\ BornClean(t)' /\ GrantsOfSelect(t)'
    BY <1>2, <1>3, <1>10, <1>13 DEF CallLive, RequestsWanted, BornClean, GrantsOfSelect
  <1>16. ChangesLocked(t)'
    BY <1>2, <1>13, ChangesStayLocked
  <1>17. ASSUME Keeps(t, StableLevels) PROVE TxnInv(t)'
    <2>1. /\ tx[t].level \in StableLevels /\ tx[t].level # "ReadCommitted" /\ tx[t].level # "ReadUncommitted"
          /\ seen'[t] = seen[t] \cup {rd} /\ UNCHANGED <<entries, heap, tx>>
      BY <1>2, <1>9, <1>13, <1>17 DEF Keeps, StableLevels, ReleasesReads, locks
    <2>2. \A s \in Slot : Backend = "Memory" \/ s \in Occupied(heap, rd.table) =>
             entries[Place(rd.table, s)].holders[t] # LM!NoLock
      <3>1. \A s \in Slot : Backend = "Memory" \/ s \in Occupied(heap, stmt.table) =>
               Place(stmt.table, s) \in Wanted(t)
        BY <1>1, <1>2, <1>3, <2>1, KeysRight DEF Wanted
      <3>2. QED
        BY <1>3, <1>5, <3>1, Modes
    <2>3. ReadsLocked(t)'
      BY <1>1, <2>1, <2>2 DEF TxnInv, ReadsLocked, Keeps, Occupied, Place
    <2>4. StillThere(t)'
      BY <1>1, <1>5, <1>7, <2>1 DEF TxnInv, StillThere, Keeps, WroteItself
    <2>5. NothingNew(t)'
      <3>1. \A s \in Matching(heap, rd) : heap[rd.table][s] \in rd.rows
        BY <1>5, <1>6, <1>8
      <3>2. QED
        BY <1>1, <2>1, <3>1 DEF TxnInv, NothingNew, Keeps, WroteItself, Matching, Occupied
    <2>6. QED
      BY <1>15, <1>16, <2>3, <2>4, <2>5 DEF TxnInv
  <1>18. ASSUME ~ Keeps(t, StableLevels) PROVE TxnInv(t)'
    <2>1. ~ Keeps(t, StableLevels)'
      BY <1>2, <1>18 DEF Keeps, StableLevels
    <2>2. ReadsLocked(t)' /\ StillThere(t)' /\ NothingNew(t)'
      BY <2>1 DEF ReadsLocked, StillThere, NothingNew
    <2>3. QED
      BY <1>15, <1>16, <2>2 DEF TxnInv
  <1>19. QED
    BY <1>11, <1>12, <1>13, <1>10, <1>14, <1>17, <1>18, StepKept

(* finish, when the statement failed. *)
LEMMA StatementFailsKept ==
  ASSUME NEW t \in Txn
  PROVE  TxInv /\ StatementFails(t) => TxInv'
  <1> SUFFICES ASSUME TxInv, StatementFails(t) PROVE TxInv'
    OBVIOUS
  <1> DEFINE d == [tx[t] EXCEPT !.state = "Aborted"]
  <1>1. Typed /\ LocksRight /\ RowsFixed /\ TxnInv(t)
    BY DEF TxInv
  <1>2. /\ HasLocks(t) /\ Return(t) /\ tx' = [tx EXCEPT ![t] = d]
        /\ IF call[t].op = "select" THEN EndOfScanLocks(t) ELSE UNCHANGED locks
        /\ UNCHANGED <<heap, issued, seen>>
    BY <1>1 DEF StatementFails, Typed
  <1>3. d \in Context /\ d.state = "Aborted" /\ d.undo = tx[t].undo
    <2>1. "Aborted" \in State /\ tx[t] \in Context
      BY <1>1, Contexts DEF State
    <2>2. QED
      BY <2>1, ContextSet
  <1> HIDE DEF d
  <1>4. tx' \in [Txn -> Context] /\ tx'[t] = d /\ \A u \in Txn \ {t} : tx'[u] = tx[u]
    BY <1>1, <1>2, <1>3 DEF Typed
  <1>5. /\ call' \in [Txn -> Stmt \cup {NoStmt}] /\ ~ InCall(t)'
        /\ \A u \in Txn \ {t} : call'[u] = call[u]
        /\ \A u \in Txn : InCall(u)' => \E w \in Work : w[2] = call'[u]
        /\ asleep' = {} /\ RunRight'
    BY <1>1, <1>2, Returned
  <1>6. Typed'
    BY <1>1, <1>2, <1>4, <1>5 DEF Typed
  <1>7. RowsFixed'
    BY <1>1, <1>2, <1>3, <1>4, RowsFixedKept DEF RowsFixed
  <1>8. /\ LocksRight' /\ \A u \in Txn \ {t} : LMP!OthersCall(u)
        /\ \A k \in Key : \A w \in LMP!Requests(entries'[k]) : w.txn # t
        /\ \A k \in Key : entries[k].holders[t] = "Exclusive" => entries'[k].holders[t] = "Exclusive"
    <2>1. CASE call[t].op = "select"
      BY <1>2, <2>1, ScanEnds
    <2>2. CASE call[t].op # "select"
      <3>1. UNCHANGED locks /\ UNCHANGED entries
        BY <1>2, <2>2 DEF locks
      <3>2. LocksRight' /\ \A u \in Txn : LMP!OthersCall(u)
        BY <1>1, <3>1, LocksStayRight, SameLocks
      <3>3. \A k \in Key : \A w \in LMP!Requests(entries[k]) : w.txn # t
        BY <1>2, HasLocksRight
      <3>4. QED
        BY <3>1, <3>2, <3>3
    <2>3. QED
      BY <2>1, <2>2
  <1>9. \A u \in Txn \ {t} : Untouched(u)
    BY <1>2, <1>4, <1>5, <1>8 DEF Untouched
  <1>10. TxnInv(t)'
    <2>1. ChangesLocked(t)'
      BY <1>3, <1>4, <1>8, ChangesStayLocked
    <2>2. QED
      BY <1>3, <1>4, <1>5, <1>8, <2>1
         DEF TxnInv, CallLive, RequestsWanted, BornClean, GrantsOfSelect, ReadsLocked,
             StillThere, NothingNew, Keeps
  <1>11. QED
    BY <1>5, <1>6, <1>7, <1>8, <1>9, <1>10, StepKept


(* c has the elements of a and b. *)
Joins(S, a, b, c) ==
    /\ c \in Seq(S)
    /\ \A i \in 1..Len(c) : \/ \E j \in 1..Len(a) : c[i] = a[j]
                           \/ \E j \in 1..Len(b) : c[i] = b[j]
    /\ \A j \in 1..Len(a) : \E i \in 1..Len(c) : c[i] = a[j]
    /\ \A j \in 1..Len(b) : \E i \in 1..Len(c) : c[i] = b[j]

(* The elements of a sequence that is appended to another. *)
LEMMA Appended ==
  ASSUME NEW S, NEW a \in Seq(S), NEW b \in Seq(S)
  PROVE  Joins(S, a, b, a \o b)
  <1> DEFINE c == a \o b
  <1>1. /\ c \in Seq(S) /\ Len(c) = Len(a) + Len(b) /\ Len(a) \in Nat /\ Len(b) \in Nat
        /\ \A i \in 1..Len(c) : c[i] = IF i <= Len(a) THEN a[i] ELSE b[i - Len(a)]
    OBVIOUS
  <1> HIDE DEF c
  <1>2. ASSUME NEW i \in 1..Len(c)
        PROVE  \/ \E j \in 1..Len(a) : c[i] = a[j]
               \/ \E j \in 1..Len(b) : c[i] = b[j]
    <2>1. CASE i <= Len(a)
      BY <1>1, <2>1
    <2>2. CASE ~ (i <= Len(a))
      <3>1. i - Len(a) \in 1..Len(b) /\ c[i] = b[i - Len(a)]
        BY <1>1, <2>2
      <3>2. QED
        BY <3>1
    <2>3. QED
      BY <2>1, <2>2
  <1>3. ASSUME NEW j \in 1..Len(a) PROVE \E i \in 1..Len(c) : c[i] = a[j]
    BY <1>1
  <1>4. ASSUME NEW j \in 1..Len(b) PROVE \E i \in 1..Len(c) : c[i] = b[j]
    <2>1. Len(a) + j \in 1..Len(c) /\ c[Len(a) + j] = b[j]
      BY <1>1
    <2>2. QED
      BY <2>1
  <1>5. QED
    BY <1>1, <1>2, <1>3, <1>4 DEF c, Joins

(* A statement has the exclusive locks of the rows it writes. *)
LEMMA TargetsLocked ==
  ASSUME TxInv, NEW t \in Txn, RowsStay, HasLocks(t), call[t].op # "select"
  PROVE  \A s \in Targets(call[t]) : entries[Place(call[t].table, s)].holders[t] = "Exclusive"
  <1> DEFINE stmt == call[t]
  <1>1. Typed
    BY DEF TxInv
  <1>2. /\ InCall(t) /\ stmt \in Stmt
        /\ \A k \in Wanted(t) : entries[k].holders[t] = "Exclusive"
    BY HasLocksRight, Modes
  <1>3. /\ stmt.table \in Table /\ stmt.op \in {"insert", "update", "delete"}
        /\ Backend = "Disk" => stmt.op = "update"
    BY <1>1, <1>2, Contexts, Distinct DEF RowsStay
  <1>4. Targets(stmt) \in SUBSET Slot
    BY <1>1, <1>2, NewRows
  <1>5. CASE stmt.op = "insert"
    BY <1>1, <1>2, <1>3, <1>4, <1>5, KeysRight, Places DEF Wanted
  <1>6. CASE stmt.op \in {"update", "delete"}
    <2>1. Targets(stmt) = Matching(heap, stmt)
      BY <1>6 DEF Targets
    <2>2. QED
      BY <1>1, <1>2, <1>6, <2>1, KeysRight DEF Wanted
  <1>7. QED
    BY <1>3, <1>5, <1>6

(* An INSERT, UPDATE or DELETE. *)
LEMMA WriteKept ==
  ASSUME NEW t \in Txn, RowsStay
  PROVE  TxInv /\ Write(t) => TxInv'
  <1> SUFFICES ASSUME TxInv, Write(t) PROVE TxInv'
    OBVIOUS
  <1> DEFINE stmt == call[t]
             tab == stmt.table
             undo == tx[t].undo
  <1>1. Typed /\ LocksRight /\ RowsFixed /\ TxnInv(t)
    BY DEF TxInv
  <1>2. /\ HasLocks(t) /\ stmt.op # "select" /\ Return(t)
        /\ heap' = Written(t, stmt).heap /\ tx' = [tx EXCEPT ![t].undo = Written(t, stmt).undo]
        /\ UNCHANGED <<entries, pending, issued, seen>> /\ UNCHANGED locks
    BY DEF Write, locks
  <1>3. /\ tx[t].state = "Active" /\ InCall(t) /\ stmt \in Stmt
        /\ \A k \in Wanted(t) : k \in Key /\ entries[k].holders[t] = "Exclusive"
        /\ \A k \in Key : \A w \in LMP!Requests(entries[k]) : w.txn # t
    BY <1>2, HasLocksRight, Modes
  <1>4. /\ tab \in Table /\ stmt.op \in {"insert", "update", "delete"}
        /\ Backend = "Disk" => stmt.op = "update"
    BY <1>1, <1>2, <1>3, Contexts, Distinct DEF RowsStay
  <1>5. /\ Targets(stmt) \in SUBSET Slot
        /\ \A s \in Targets(stmt) : NewRow(t, stmt, s) \in AnyRow
        /\ stmt.op = "update" => \A s \in Targets(stmt) : NewRow(t, stmt, s).id = heap[tab][s].id
    BY <1>1, <1>2, <1>3, NewRows
  <1>6. \A s \in Targets(stmt) : entries[Place(tab, s)].holders[t] = "Exclusive"
    BY <1>2, TargetsLocked
  <1>7. /\ heap' \in Heaps
        /\ \A b \in Table, s \in Slot :
              heap'[b][s] = IF b = tab /\ s \in Targets(stmt) THEN NewRow(t, stmt, s)
                                                              ELSE heap[b][s]
    BY <1>1, <1>2, <1>3, WriteRight
  <1>8. PICK new \in Seq(Record) :
               /\ Written(t, stmt).undo = undo \o new
               /\ \A i \in 1..Len(new) : \E s \in Targets(stmt) : new[i] = UndoRecord(t, stmt, s)
               /\ \A s \in Targets(stmt) : \E i \in 1..Len(new) : new[i] = UndoRecord(t, stmt, s)
               /\ \A i, j \in 1..Len(new) : new[i].slot = new[j].slot => i = j
    BY <1>1, <1>2, <1>3, WriteRight
  <1> DEFINE all == undo \o new
             d == [tx[t] EXCEPT !.undo = all]
  <1>9. tx[t] \in Context /\ undo \in Seq(Record) /\ Len(undo) \in Nat
    BY <1>1, Contexts
  <1>10. /\ all \in Seq(Record)
         /\ \A i \in 1..Len(all) : \/ \E j \in 1..Len(undo) : all[i] = undo[j]
                                   \/ \E j \in 1..Len(new) : all[i] = new[j]
         /\ \A j \in 1..Len(undo) : \E i \in 1..Len(all) : all[i] = undo[j]
         /\ \A j \in 1..Len(new) : \E i \in 1..Len(all) : all[i] = new[j]
    <2> HIDE DEF undo
    <2>1. undo \in Seq(Record) /\ new \in Seq(Record)
      BY <1>9
    <2>2. Joins(Record, undo, new, all)
      BY <2>1, Appended
    <2>3. QED
      BY <2>2 DEF Joins
  <1> HIDE DEF all, undo
  <1>11. \A i \in 1..Len(all) : \/ \E j \in 1..Len(undo) : all[i] = undo[j]
                                \/ \E s \in Targets(stmt) : all[i] = UndoRecord(t, stmt, s)
    <2>1. \A j \in 1..Len(new) : \E s \in Targets(stmt) : new[j] = UndoRecord(t, stmt, s)
      BY <1>8
    <2>2. QED
      BY <1>10, <2>1
  <1>12. \A s \in Targets(stmt) : \E i \in 1..Len(all) : all[i] = UndoRecord(t, stmt, s)
    BY <1>8, <1>10
  <1>13. d \in Context /\ d.state = "Active" /\ d.level = tx[t].level /\ d.undo = all
    BY <1>3, <1>9, <1>10, ContextSet
  <1>14. tx' = [tx EXCEPT ![t] = d]
    BY <1>1, <1>2, <1>8 DEF all, undo, Typed
  <1> HIDE DEF d
  <1>15. tx' \in [Txn -> Context] /\ tx'[t] = d /\ \A u \in Txn \ {t} : tx'[u] = tx[u]
    BY <1>1, <1>13, <1>14 DEF Typed
  <1>16. /\ call' \in [Txn -> Stmt \cup {NoStmt}] /\ ~ InCall(t)'
         /\ \A u \in Txn \ {t} : call'[u] = call[u]
         /\ \A u \in Txn : InCall(u)' => \E w \in Work : w[2] = call'[u]
         /\ asleep' = {} /\ RunRight'
    BY <1>1, <1>2, Returned
  <1>17. Typed'
    BY <1>1, <1>2, <1>7, <1>15, <1>16 DEF Typed, Heaps
  <1>18. LocksRight' /\ \A u \in Txn : LMP!OthersCall(u)
    BY <1>1, <1>2, LocksStayRight, SameLocks
  <1>19. \A s \in Targets(stmt) : LET rec == UndoRecord(t, stmt, s)
                                  IN  /\ rec.op = stmt.op /\ rec.table = tab /\ rec.slot = s
                                      /\ rec.before = heap[tab][s] /\ rec.after = NewRow(t, stmt, s)
    BY DEF UndoRecord
  <1> HIDE DEF stmt, tab
  <1>20. HeapOf(t)
    <2>1. ASSUME Backend = "Disk", NEW b \in Table, NEW s \in Slot PROVE heap'[b][s].id = SeedId(s)
      <3>1. heap[b][s].id = SeedId(s)
        BY <1>1, <2>1 DEF RowsFixed
      <3>2. QED
        BY <1>4, <1>5, <1>7, <2>1, <3>1
    <2>2. QED
      BY <1>6, <1>7, <2>1 DEF HeapOf
  <1>21. RowsFixed'
    <2> SUFFICES ASSUME Backend = "Disk" PROVE RowsFixed'
      BY DEF RowsFixed
    <2>1. \A b \in Table, s \in Slot : heap'[b][s].id = SeedId(s) /\ heap[b][s].id = SeedId(s)
      BY <1>1, <1>20 DEF HeapOf, RowsFixed
    <2>2. \A i \in 1..Len(all) : all[i].op = "update" /\ all[i].before.id = SeedId(all[i].slot)
      <3> SUFFICES ASSUME NEW i \in 1..Len(all)
                   PROVE  all[i].op = "update" /\ all[i].before.id = SeedId(all[i].slot)
        OBVIOUS
      <3>1. CASE \E j \in 1..Len(undo) : all[i] = undo[j]
        BY <1>1, <3>1 DEF RowsFixed, undo
      <3>2. CASE \E s \in Targets(stmt) : all[i] = UndoRecord(t, stmt, s)
        BY <1>4, <1>5, <1>19, <2>1, <3>2
      <3>3. QED
        BY <1>11, <3>1, <3>2
    <2>3. \A u \in Txn : \A i \in 1..Len(tx'[u].undo) :
             tx'[u].undo[i].op = "update" /\ tx'[u].undo[i].before.id = SeedId(tx'[u].undo[i].slot)
      BY <1>1, <1>13, <1>15, <2>2 DEF RowsFixed
    <2>4. QED
      BY <2>1, <2>3 DEF RowsFixed, SeedId
  <1>22. \A u \in Txn \ {t} : Untouched(u)
    BY <1>2, <1>15, <1>16, <1>18, <1>20, LeftAlone
  <1>23. ChangesLocked(t)'
    <2>1. \A i \in 1..Len(all) : entries[Place(all[i].table, all[i].slot)].holders[t] = "Exclusive"
      <3> SUFFICES ASSUME NEW i \in 1..Len(all)
                   PROVE  entries[Place(all[i].table, all[i].slot)].holders[t] = "Exclusive"
        OBVIOUS
      <3>1. CASE \E j \in 1..Len(undo) : all[i] = undo[j]
        BY <1>1, <3>1, Modes DEF TxnInv, ChangesLocked, undo
      <3>2. CASE \E s \in Targets(stmt) : all[i] = UndoRecord(t, stmt, s)
        BY <1>6, <1>19, <3>2
      <3>3. QED
        BY <1>11, <3>1, <3>2
    <2>2. tx'[t].undo = all /\ entries' = entries
      BY <1>2, <1>13, <1>15
    <2>3. QED
      BY <2>1, <2>2, Modes DEF ChangesLocked, Place
  <1> DEFINE Is(rec, b, id) == rec.table = b /\ id \in {rec.before.id, rec.after.id}
             Wrote(b, id) == \E i \in 1..Len(all) : Is(all[i], b, id)
  <1>24. /\ \A b, id : WroteItself(t, b, id)' <=> Wrote(b, id)
         /\ \A b, id : WroteItself(t, b, id) => Wrote(b, id)
         /\ \A s \in Targets(stmt) : Wrote(tab, heap[tab][s].id) /\ Wrote(tab, NewRow(t, stmt, s).id)
    <2>1. \A b, id : WroteItself(t, b, id)' <=> Wrote(b, id)
      BY <1>13, <1>15 DEF WroteItself
    <2>2. \A b, id : WroteItself(t, b, id) <=> \E i \in 1..Len(undo) : Is(undo[i], b, id)
      BY DEF WroteItself, undo
    <2>3. \A s \in Targets(stmt) : /\ Is(UndoRecord(t, stmt, s), tab, heap[tab][s].id)
                                   /\ Is(UndoRecord(t, stmt, s), tab, NewRow(t, stmt, s).id)
      BY <1>19
    <2> HIDE DEF Is
    <2>4. QED
      BY <1>10, <1>12, <2>1, <2>2, <2>3
  <1> HIDE DEF Wrote
  <1>25. CallLive(t)' /\ RequestsWanted(t)' /\ BornClean(t)' /\ GrantsOfSelect(t)'
    <2>1. tx[t].level = "ReadCommitted" => pending'[t] = {}
      <3>1. pending[t] \in SUBSET Key
        BY <1>1 DEF LocksRight, LMP!LockInv, LMP!TypeOK
      <3>2. QED
        BY <1>1, <1>2, <1>3, <3>1 DEF TxnInv, GrantsOfSelect, stmt
    <2>2. QED
      BY <1>2, <1>3, <1>13, <1>15, <1>16, <2>1
         DEF CallLive, RequestsWanted, BornClean, GrantsOfSelect
  <1>26. Keeps(t, StableLevels)' <=> Keeps(t, StableLevels)
    BY <1>3, <1>13, <1>15 DEF Keeps, StableLevels
  <1>27. \A rd \in seen[t] : rd.table \in Table
    BY <1>1, Contexts
  <1>28. ReadsLocked(t)'
    <2>1. \A b \in Table : Backend = "Memory" \/ Occupied(heap', b) = Occupied(heap, b)
      BY <1>1, <1>17, <1>21, Places, RowsMeant
    <2>2. QED
      BY <1>1, <1>2, <1>26, <1>27, <2>1, Modes DEF TxnInv, ReadsLocked, Place
  <1>29. StillThere(t)'
    <2>1. ASSUME Keeps(t, StableLevels), NEW rd \in seen[t], NEW r \in rd.rows,
                 ~ Wrote(rd.table, r.id)
          PROVE  \E s \in Slot : heap'[rd.table][s] = r
      <3>1. PICK s \in Slot : heap[rd.table][s] = r
        BY <1>1, <1>24, <2>1 DEF TxnInv, StillThere
      <3>2. ~ (rd.table = tab /\ s \in Targets(stmt))
        BY <1>24, <2>1, <3>1
      <3>3. QED
        BY <1>7, <1>27, <3>1, <3>2
    <2>2. QED
      BY <1>2, <1>24, <1>26, <2>1 DEF StillThere
  <1>30. NothingNew(t)'
    <2>1. ASSUME Keeps(t, StableLevels), NEW rd \in seen[t], NEW s \in Matching(heap', rd),
                 ~ Wrote(rd.table, heap'[rd.table][s].id)
          PROVE  heap'[rd.table][s] \in rd.rows
      <3>1. s \in Slot /\ heap'[rd.table][s] # NoRow /\ heap'[rd.table][s].id \in rd.ids
        BY DEF Matching, Occupied
      <3>2. heap'[rd.table][s] = heap[rd.table][s]
        BY <1>7, <1>24, <1>27, <2>1, <3>1
      <3>3. s \in Matching(heap, rd)
        BY <3>1, <3>2 DEF Matching, Occupied
      <3>4. QED
        BY <1>1, <1>24, <2>1, <3>2, <3>3 DEF TxnInv, NothingNew
    <2>2. \A rd \in seen[t] : Matching(heap, rd)' = Matching(heap', rd)
      BY DEF Matching, Occupied
    <2>3. QED
      BY <1>2, <1>24, <1>26, <2>1, <2>2 DEF NothingNew
  <1>31. TxnInv(t)'
    BY <1>23, <1>25, <1>28, <1>29, <1>30 DEF TxnInv
  <1>32. QED
    BY <1>16, <1>17, <1>18, <1>21, <1>22, <1>31, StepKept


------------------------------------------------------------------------------
(* The invariant.                                                          *)

(* It holds at the start. *)
LEMMA TxInvInit ==
  Init => TxInv
  <1> SUFFICES ASSUME Init PROVE TxInv
    OBVIOUS
  <1> DEFINE born == [state |-> "Unborn", level |-> "RepeatableRead", undo |-> <<>>]
             row(s) == IF s <= Seeded THEN [id |-> s, by |-> 0] ELSE NoRow
  <1>1. /\ \A tab \in Table, s \in Slot : heap[tab][s] = row(s)
        /\ heap = [tab \in Table |-> [s \in Slot |-> row(s)]]
        /\ tx = [t \in Txn |-> born] /\ call = [t \in Txn |-> NoStmt] /\ asleep = {}
        /\ run = NoRun /\ issued = [t \in Txn |-> 0] /\ seen = [t \in Txn |-> {}]
    BY DEF Init
  <1>2. \A s \in Slot : row(s) \in AnyRow /\ row(s).id = SeedId(s)
    <2> SUFFICES ASSUME NEW s \in Slot PROVE row(s) \in AnyRow /\ row(s).id = SeedId(s)
      OBVIOUS
    <2>1. CASE s <= Seeded
      <3>1. s \in 1..Seeded /\ Seeded \in Nat /\ NTxn \in Nat
        BY <2>1, BoundsAssumption DEF Slot
      <3>2. s \in Id /\ 0 \in 0..NTxn
        BY <3>1, BoundsAssumption
      <3>3. QED
        BY <2>1, <3>2 DEF AnyRow, Row, SeedId
    <2>2. CASE ~ (s <= Seeded)
      BY <2>2 DEF AnyRow, NoRow, SeedId
    <2>3. QED
      BY <2>1, <2>2
  <1> HIDE DEF row
  <1>3. born \in Context /\ born.state = "Unborn" /\ born.undo = <<>>
    BY DEF Context, State, Level
  <1> HIDE DEF born
  <1>4. \A t \in Txn : ~ InCall(t) /\ tx[t] = born /\ seen[t] = {}
    BY <1>1 DEF InCall
  <1>5. Typed
    <2>1. heap \in [Table -> [Slot -> AnyRow]]
      BY <1>1, <1>2
    <2>2. issued \in [Txn -> 0..MaxStmts]
      BY <1>1, BoundsAssumption
    <2>3. QED
      BY <1>1, <1>3, <1>4, <2>1, <2>2 DEF Typed
  <1>6. LMP!Init
    BY DEF Init, LM!Init, LMP!Init, LM!EmptyEntry, LMP!EmptyEntry, LM!NoLock, LMP!NoLock
  <1>7. LocksRight
    BY <1>6, LMP!LockInvInit, LMP!PendingExactInit DEF LocksRight
  <1>8. RowsFixed
    BY <1>1, <1>2, <1>3, <1>4 DEF RowsFixed
  <1>9. RunRight
    BY <1>1 DEF RunRight
  <1>10. \A t \in Txn : TxnInv(t)
    <2> SUFFICES ASSUME NEW t \in Txn PROVE TxnInv(t)
      OBVIOUS
    <2>1. \A k \in Key : \A w \in LMP!Requests(entries[k]) : w.txn # t
      <3>1. \A k \in Key : entries[k] = LMP!EmptyEntry
        BY <1>6 DEF LMP!Init
      <3>2. LMP!Requests(LMP!EmptyEntry) = {}
        BY DEF LMP!EmptyEntry, LMP!Requests, Range
      <3>3. QED
        BY <3>1, <3>2
    <2>2. pending[t] = {}
      BY <1>6 DEF LMP!Init
    <2>3. QED
      BY <1>3, <1>4, <2>1, <2>2
         DEF TxnInv, CallLive, RequestsWanted, BornClean, GrantsOfSelect, ChangesLocked,
             ReadsLocked, StillThere, NothingNew
  <1>11. QED
    BY <1>5, <1>7, <1>8, <1>9, <1>10 DEF TxInv

(* Every step keeps it. *)
LEMMA TxInvNext ==
  ASSUME Blocking, RowsStay
  PROVE  TxInv /\ [Next]_vars => TxInv'
  <1> SUFFICES ASSUME TxInv, [Next]_vars PROVE TxInv'
    OBVIOUS
  <1>1. CASE UNCHANGED vars
    <2>1. UNCHANGED locks
      BY <1>1 DEF vars, locks
    <2>2. LocksRight'
      BY <2>1, LocksStayRight DEF TxInv
    <2>3. \A u \in Txn : Untouched(u)
      BY <1>1, <2>1, SameLocks DEF vars, Untouched
    <2>4. Typed' /\ RowsFixed' /\ RunRight'
      BY <1>1
         DEF TxInv, vars, Typed, InCall, RowsFixed, RunRight, Wanted, KeysOf, ReadKeys, InsertKeys,
             WriteKeys, Matching, Occupied
    <2>5. QED
      BY <2>2, <2>3, <2>4, UntouchedKept DEF TxInv
  <1>2. ASSUME NEW t \in Txn, NEW level \in Level, Begin(t, level) PROVE TxInv'
    BY <1>2, BeginKept
  <1>3. ASSUME NEW t \in Txn, NEW w \in Work, Issue(t, w[2]) PROVE TxInv'
    BY <1>3, IssueKept
  <1>4. ASSUME NEW t \in Txn, Retry(t) PROVE TxInv'
    BY <1>4, RetryKept
  <1>5. ASSUME NEW t \in Txn, Step(t) PROVE TxInv'
    BY <1>5, LockGrantedKept, LockRefusedKept, DeadlockFoundKept, AbortVictimKept, VictimUndone,
       SelectKept, WriteKept, StatementFailsKept DEF Step
  <1>6. ASSUME NEW t \in Txn, Commit(t) \/ CommitRefused(t) \/ Rollback(t) PROVE TxInv'
    BY <1>6, CommitKept, CommitRefusedKept, RollbackKept
  <1>7. CASE Finished
    BY <1>1, <1>7 DEF Finished
  <1>8. QED
    BY <1>1, <1>2, <1>3, <1>4, <1>5, <1>6, <1>7 DEF Next

(* The locks are in order, and each transaction's statements, changes and   *)
(* reads are covered by them, in every behaviour.                           *)
THEOREM TransactionsAreSound ==
  ASSUME Blocking, RowsStay
  PROVE  Spec => []TxInv
  <1>1. TxInv /\ [Next]_vars => TxInv'
    BY TxInvNext
  <1>2. QED
    BY <1>1, TxInvInit, PTL DEF Spec

------------------------------------------------------------------------------
(* The properties.                                                         *)

(* Strict two-phase locking: what a transaction has changed stays under its *)
(* exclusive lock until the change is final or undone.                      *)
THEOREM ChangesStayUnderLock ==
  ASSUME Blocking, RowsStay
  PROVE  Spec => []WritesLocked
  <1>1. TxInv => WritesLocked
    <2> SUFFICES ASSUME TxInv, NEW t \in Txn, NEW i \in 1..Len(tx[t].undo)
                 PROVE  HoldsExclusive(t, tx[t].undo[i].table, tx[t].undo[i].slot)
      BY DEF WritesLocked
    <2>1. entries[Place(tx[t].undo[i].table, tx[t].undo[i].slot)].holders[t] = LM!Exclusive
      BY DEF TxInv, TxnInv, ChangesLocked
    <2>2. QED
      BY <2>1 DEF HoldsExclusive, Place
  <1>2. QED
    BY <1>1, TransactionsAreSound, PTL

(* Reading again returns what was read before. *)
THEOREM ReadsAreRepeatable ==
  ASSUME Blocking, RowsStay
  PROVE  Spec => []RepeatableReads
  <1>1. TxInv => RepeatableReads
    BY DEF TxInv, TxnInv, StillThere, RepeatableReads, StableLevels
  <1>2. QED
    BY <1>1, TransactionsAreSound, PTL

(* Reading again returns nothing else. *)
THEOREM NoRowAppears ==
  ASSUME Blocking, RowsStay
  PROVE  Spec => []NoPhantoms
  <1>1. TxInv => NoPhantoms
    <2>1. \A t \in Txn : Keeps(t, PhantomFreeLevels) => Keeps(t, StableLevels)
      BY DEF Keeps, PhantomFreeLevels, StableLevels
    <2>2. QED
      BY <2>1 DEF TxInv, TxnInv, NothingNew, NoPhantoms
  <1>2. QED
    BY <1>1, TransactionsAreSound, PTL

(* READ COMMITTED holds no Shared lock between statements, not even one that *)
(* was granted while a statement slept.                                      *)
THEOREM ReadLocksEndWithTheRead ==
  ASSUME Blocking, RowsStay
  PROVE  Spec => []ReadLocksReleased
  <1>1. TxInv => ReadLocksReleased
    <2> SUFFICES ASSUME TxInv, NEW t \in Txn, tx[t].state = "Active",
                        tx[t].level = "ReadCommitted", ~ InCall(t), NEW k \in Key,
                        entries[k].holders[t] = LM!Shared
                 PROVE  FALSE
      BY DEF ReadLocksReleased
    <2>1. LocksRight /\ GrantsOfSelect(t)
      BY DEF TxInv, TxnInv
    <2>2. k \in pending[t]
      BY <2>1, LockTable, Modes
    <2>3. QED
      BY <2>1, <2>2 DEF GrantsOfSelect
  <1>2. QED
    BY <1>1, TransactionsAreSound, PTL

(* Transactions use the lock manager as its specification says: every step   *)
(* is one of its calls or leaves it alone, and release_keys only ever gets   *)
(* the keys of reads.                                                        *)
THEOREM TransactionsUseTheLockManager ==
  ASSUME Blocking, RowsStay
  PROVE  Spec => LockProtocol
  <1>1. Init => LM!Init
    BY DEF Init
  <1>2. TxInv /\ [Next]_vars => [LM!Next]_LM!vars
    <2> SUFFICES ASSUME TxInv, [Next]_vars PROVE LockStep \/ UNCHANGED locks
      BY StepIsLockStep DEF LM!vars, locks
    <2>1. LocksRight
      BY DEF TxInv
    <2>2. CASE UNCHANGED vars
      BY <2>2 DEF vars, locks
    <2>3. ASSUME NEW t \in Txn, \/ \E level \in Level : Begin(t, level)
                                \/ \E w \in Work : Issue(t, w[2])
                                \/ Retry(t) \/ CommitRefused(t)
          PROVE  UNCHANGED locks
      BY <2>3 DEF Begin, Issue, Retry, CommitRefused, locks
    <2>4. ASSUME NEW t \in Txn, LockGranted(t) \/ LockRefused(t) \/ DeadlockFound(t)
          PROVE  LockStep
      <3>1. AcquireNext(t)
        BY <2>4 DEF LockGranted, LockRefused, DeadlockFound
      <3>2. QED
        BY <3>1, AcquireRight
    <2>5. ASSUME NEW t \in Txn, AbortVictim(t) PROVE LockStep
      <3>1. run.txn = t /\ run.victim # 0 /\ ReleaseLocks(run.victim)
        BY <2>5 DEF AbortVictim
      <3>2. PICK v : v = run.victim
        OBVIOUS
      <3>3. v \in Txn
        BY <3>1, <3>2, BoundsAssumption DEF TxInv, RunRight, Attempt, NoRun, Txn
      <3>4. ReleaseLocks(v)
        BY <3>1, <3>2 DEF ReleaseLocks, LM!ReleaseAll, LM!Touches, LM!ReleaseEntry
      <3>5. QED
        BY <2>1, <3>3, <3>4, ReleasedAll
    <2>6. ASSUME NEW t \in Txn, AbortVictimFails(t) PROVE FALSE
      BY <2>6, VictimUndone
    <2>7. ASSUME NEW t \in Txn, Select(t) PROVE LockStep \/ UNCHANGED locks
      BY <2>7, ScanEnds DEF Select
    <2>8. ASSUME NEW t \in Txn, Write(t) PROVE UNCHANGED locks
      BY <2>8 DEF Write, locks
    <2>9. ASSUME NEW t \in Txn, StatementFails(t) PROVE LockStep \/ UNCHANGED locks
      BY <2>9, ScanEnds DEF StatementFails
    <2>10. ASSUME NEW t \in Txn, Commit(t) PROVE LockStep
      BY <2>1, <2>10, ReleasedAll DEF Commit
    <2>11. ASSUME NEW t \in Txn, Rollback(t) PROVE LockStep \/ UNCHANGED locks
      BY <2>1, <2>11, ReleasedAll DEF Rollback
    <2>12. CASE Finished
      BY <2>2, <2>12 DEF Finished
    <2>13. QED
      BY <2>2, <2>3, <2>4, <2>5, <2>6, <2>7, <2>8, <2>9, <2>10, <2>11, <2>12 DEF Next, Step
  <1>3. QED
    BY <1>1, <1>2, TransactionsAreSound, PTL DEF Spec, LockProtocol, LM!Spec

------------------------------------------------------------------------------
(* What undo and commit are worth.                                         *)

At(rec, tab, s) == rec.table = tab /\ rec.slot = s

\* The first and the last record that an undo log has for a slot.
FirstAt(undo, i) == \A j \in 1..(i - 1) : ~ At(undo[j], undo[i].table, undo[i].slot)
LastAt(undo, i)  == \A j \in (i + 1)..Len(undo) : ~ At(undo[j], undo[i].table, undo[i].slot)

Touched(t, tab, s) == \E i \in 1..Len(tx[t].undo) : At(tx[t].undo[i], tab, s)

\* What was in a slot when the log had m records: what the next record for the
\* slot found there, or what is there now.
Later(undo, m, tab, s) == {k \in (m + 1)..Len(undo) : At(undo[k], tab, s)}

Past(undo, h, m, tab, s) ==
    LET later == Later(undo, m, tab, s)
    IN  IF later = {} THEN h[tab][s]
        ELSE undo[CHOOSE k \in later : \A j \in later : k <= j].before

\* The writer of a row that is there for good.
Final(by) == by = 0 \/ tx[by].state = "Committed"

\* A record is about one key.
Shape(rec) ==
    \/ rec.op = "insert" /\ rec.before = NoRow /\ rec.after # NoRow
    \/ rec.op = "update" /\ rec.before # NoRow /\ rec.after # NoRow
                         /\ rec.after.id = rec.before.id
    \/ rec.op = "delete" /\ rec.before # NoRow /\ rec.after = NoRow

\* A log tells the history of its rows: each record left what the next one for
\* its slot found, the first one replaced a final row, and no table ever had a
\* key twice.
Recorded(t) ==
    LET undo == tx[t].undo
    IN  /\ \A i \in 1..Len(undo) :
              /\ Shape(undo[i])
              /\ undo[i].after = Past(undo, heap, i, undo[i].table, undo[i].slot)
              /\ FirstAt(undo, i) => Final(undo[i].before.by)
        /\ Backend = "Memory" =>
              \A m \in 0..Len(undo), tab \in Table : \A s, x \in Slot :
                 /\ Past(undo, heap, m, tab, s).id # 0
                 /\ Past(undo, heap, m, tab, s).id = Past(undo, heap, m, tab, x).id
                 => s = x

\* A row of a transaction that is not committed is in its undo log.
Known(by, tab, s) == Final(by) \/ (by \in Txn /\ Touched(by, tab, s))

WritersKnown ==
    \A tab \in Table, s \in Slot : \A r \in AnyRow :
        heap[tab][s] = r => Known(r.by, tab, s)

\* No key is twice in a table.
KeysUnique ==
    \A tab \in Table : \A s, x \in Slot :
        heap[tab][s].id # 0 /\ heap[tab][s].id = heap[tab][x].id => s = x

\* What was in a slot before a transaction changed it.
WasBefore(t, tab, s, r) ==
    \E i \in 1..Len(tx[t].undo) :
        At(tx[t].undo[i], tab, s) /\ FirstAt(tx[t].undo, i) /\ r = tx[t].undo[i].before

\* The row that would be there if every transaction were rolled back.
IsBase(tab, s, r) ==
    \/ \E t \in Txn : WasBefore(t, tab, s, r)
    \/ (\A t \in Txn : ~ Touched(t, tab, s)) /\ r = heap[tab][s]

\* Those rows are the committed ones.
CommittedRight ==
    \A tab \in Table : \A r :
        r \in committed[tab] <=> r # NoRow /\ \E s \in Slot : IsBase(tab, s, r)

ChangesInv ==
    /\ \A t \in Txn : Recorded(t)
    /\ WritersKnown
    /\ KeysUnique
    /\ CommittedRight

(* A set of positions has a first and a last one. *)
LEMMA Ends ==
  ASSUME NEW n \in Nat, NEW S \in SUBSET (1..n), S # {}
  PROVE  /\ \E m \in S : \A k \in S : m <= k
         /\ \E m \in S : \A k \in S : k <= m
  <1>1. \E m \in S : \A k \in S : m <= k
    <2>1. S \in SUBSET Nat
      OBVIOUS
    <2>2. QED
      BY <2>1, LMP!LeastNatural
  <1>2. \E m \in S : \A k \in S : k <= m
    <2> DEFINE T == {n - k : k \in S}
    <2>1. T \in SUBSET Nat /\ T # {}
      <3>1. \A k \in S : n - k \in Nat
        OBVIOUS
      <3>2. QED
        BY <3>1
    <2>2. PICK d \in T : \A k \in T : d <= k
      BY <2>1, LMP!LeastNatural
    <2>3. PICK m \in S : d = n - m
      OBVIOUS
    <2>4. \A k \in S : n - m <= n - k
      BY <2>2, <2>3
    <2>5. ASSUME NEW k \in S PROVE k <= m
      <3>1. k \in Nat /\ m \in Nat /\ n - m <= n - k
        BY <2>4
      <3>2. QED
        BY <3>1
    <2>6. QED
      BY <2>5
  <1>3. QED
    BY <1>1, <1>2

(* The first later record of a slot says what was there. *)
LEMMA PastIs ==
  ASSUME NEW undo, Len(undo) \in Nat, NEW m \in 0..Len(undo), NEW h, NEW tab, NEW s,
         NEW k \in Later(undo, m, tab, s), \A j \in Later(undo, m, tab, s) : k <= j
  PROVE  Past(undo, h, m, tab, s) = undo[k].before
  <1> DEFINE L == Later(undo, m, tab, s)
             c == CHOOSE i \in L : \A j \in L : i <= j
  <1>1. Past(undo, h, m, tab, s) = undo[c].before
    BY DEF Past
  <1>2. \A j \in L : j \in Nat
    BY DEF Later
  <1> HIDE DEF L
  <1>3. k \in L /\ \A j \in L : k <= j
    BY DEF L
  <1>4. c \in L /\ \A j \in L : c <= j
    BY <1>3
  <1> HIDE DEF c
  <1>5. c = k
    BY <1>2, <1>3, <1>4
  <1>6. QED
    BY <1>1, <1>5

(* There is such a record, or the row is the one that is there. *)
LEMMA PastCases ==
  ASSUME NEW undo, Len(undo) \in Nat, NEW m \in 0..Len(undo), NEW h, NEW tab, NEW s
  PROVE  \/ Later(undo, m, tab, s) = {} /\ Past(undo, h, m, tab, s) = h[tab][s]
         \/ \E k \in Later(undo, m, tab, s) : \A j \in Later(undo, m, tab, s) : k <= j
  <1> DEFINE L == Later(undo, m, tab, s)
  <1>1. L \in SUBSET (1..Len(undo))
    BY DEF Later
  <1>2. L = {} => Past(undo, h, m, tab, s) = h[tab][s]
    BY DEF Past
  <1> HIDE DEF L
  <1>3. L # {} => \E k \in L : \A j \in L : k <= j
    BY <1>1, Ends
  <1>4. QED
    BY <1>2, <1>3 DEF L

(* One record back. *)
LEMMA PastStep ==
  ASSUME NEW undo, Len(undo) \in Nat, NEW i \in 1..Len(undo), NEW h, NEW tab, NEW s
  PROVE  Past(undo, h, i - 1, tab, s) =
            IF At(undo[i], tab, s) THEN undo[i].before ELSE Past(undo, h, i, tab, s)
  <1> DEFINE L == Later(undo, i - 1, tab, s)
             M == Later(undo, i, tab, s)
  <1>1. i - 1 \in 0..Len(undo) /\ i \in 0..Len(undo)
    OBVIOUS
  <1>2. CASE At(undo[i], tab, s)
    <2>1. i \in L /\ \A j \in L : i <= j
      BY <1>2 DEF Later
    <2>2. QED
      BY <1>1, <1>2, <2>1, PastIs
  <1>3. CASE ~ At(undo[i], tab, s)
    <2>1. L = M
      <3>1. \A j \in ((i - 1) + 1)..Len(undo) : j = i \/ j \in (i + 1)..Len(undo)
        OBVIOUS
      <3>2. \A j \in (i + 1)..Len(undo) : j \in ((i - 1) + 1)..Len(undo)
        OBVIOUS
      <3>3. QED
        BY <1>3, <3>1, <3>2 DEF Later
    <2>2. Past(undo, h, i - 1, tab, s) = Past(undo, h, i, tab, s)
      <3> DEFINE F(S) == IF S = {} THEN h[tab][s]
                         ELSE undo[CHOOSE k \in S : \A j \in S : k <= j].before
      <3>1. Past(undo, h, i - 1, tab, s) = F(L) /\ Past(undo, h, i, tab, s) = F(M)
        BY DEF Past
      <3> HIDE DEF F, L, M
      <3>2. QED
        BY <2>1, <3>1
    <2>3. QED
      BY <1>3, <2>2
  <1>4. QED
    BY <1>2, <1>3

(* The history of a slot ends with what is there. *)
LEMMA PastLast ==
  ASSUME NEW undo, NEW m, NEW h, NEW tab, NEW s,
         \A i \in (m + 1)..Len(undo) : ~ At(undo[i], tab, s)
  PROVE  Past(undo, h, m, tab, s) = h[tab][s]
  <1>1. Later(undo, m, tab, s) = {}
    BY DEF Later
  <1>2. QED
    BY <1>1 DEF Past

(* It begins with what its first record found. *)
LEMMA PastFirst ==
  ASSUME NEW undo, Len(undo) \in Nat, NEW i \in 1..Len(undo), NEW h, NEW tab, NEW s,
         At(undo[i], tab, s), FirstAt(undo, i)
  PROVE  Past(undo, h, 0, tab, s) = undo[i].before
  <1> DEFINE L == Later(undo, 0, tab, s)
  <1>1. i \in L
    BY DEF Later
  <1>2. ASSUME NEW j \in L PROVE i <= j
    <2>1. j \in 1..Len(undo) /\ At(undo[j], tab, s)
      BY DEF Later
    <2>2. ~ j \in 1..(i - 1)
      BY <2>1 DEF FirstAt, At
    <2>3. QED
      BY <2>1, <2>2
  <1>3. 0 \in 0..Len(undo)
    OBVIOUS
  <1> HIDE DEF L
  <1>4. QED
    BY <1>1, <1>2, <1>3, PastIs DEF L

(* A row that is in an undo log has a first and a last record there, and is  *)
(* under the exclusive lock of the log's transaction alone.                  *)
LEMMA TouchedRows ==
  ASSUME TxInv, NEW t \in Txn, NEW tab \in Table, NEW s \in Slot, Touched(t, tab, s)
  PROVE  /\ \E i \in 1..Len(tx[t].undo) : At(tx[t].undo[i], tab, s) /\ FirstAt(tx[t].undo, i)
         /\ \E i \in 1..Len(tx[t].undo) : At(tx[t].undo[i], tab, s) /\ LastAt(tx[t].undo, i)
         /\ entries[Place(tab, s)].holders[t] = "Exclusive"
         /\ \A u \in Txn \ {t} : entries[Place(tab, s)].holders[u] = "None" /\ ~ Touched(u, tab, s)
  <1> DEFINE undo == tx[t].undo
             n == Len(undo)
             S == {i \in 1..n : At(undo[i], tab, s)}
  <1>1. Typed /\ LocksRight /\ n \in Nat
    BY Contexts DEF TxInv
  <1>2. S \in SUBSET (1..n) /\ S # {}
    BY DEF Touched
  <1>3. PICK f \in S, l \in S : \A k \in S : f <= k /\ k <= l
    BY <1>1, <1>2, Ends
  <1> HIDE DEF undo
  <1>4. f \in 1..n /\ l \in 1..n /\ At(undo[f], tab, s) /\ At(undo[l], tab, s)
    OBVIOUS
  <1>5. FirstAt(undo, f)
    <2> SUFFICES ASSUME NEW j \in 1..(f - 1), At(undo[j], tab, s) PROVE FALSE
      BY <1>4 DEF FirstAt, At
    <2>1. j \in 1..n /\ j < f
      BY <1>1, <1>4
    <2>2. QED
      BY <1>3, <2>1
  <1>6. LastAt(undo, l)
    <2> SUFFICES ASSUME NEW j \in (l + 1)..n, At(undo[j], tab, s) PROVE FALSE
      BY <1>4 DEF LastAt, At
    <2>1. j \in 1..n /\ l < j
      BY <1>1, <1>4
    <2>2. QED
      BY <1>3, <2>1
  <1>7. ASSUME NEW u \in Txn, Touched(u, tab, s)
        PROVE  entries[Place(tab, s)].holders[u] = "Exclusive"
    BY <1>7, Modes DEF TxInv, TxnInv, ChangesLocked, Touched, At
  <1>8. entries[Place(tab, s)].holders[t] = "Exclusive"
    BY <1>7
  <1>9. \A u \in Txn \ {t} : entries[Place(tab, s)].holders[u] = "None" /\ ~ Touched(u, tab, s)
    BY <1>1, <1>7, <1>8, ChangesApart
  <1>10. QED
    BY <1>4, <1>5, <1>6, <1>8, <1>9 DEF undo

(* The rows of the history; on disk a slot has always had its key. *)
LEMMA PastRows ==
  ASSUME TxInv, NEW t \in Txn, NEW m \in 0..Len(tx[t].undo), NEW tab \in Table, NEW s \in Slot
  PROVE  /\ Past(tx[t].undo, heap, m, tab, s) \in AnyRow
         /\ Backend = "Disk" => Past(tx[t].undo, heap, m, tab, s).id = SeedId(s)
  <1>1. PICK undo : undo = tx[t].undo
    OBVIOUS
  <1>2. /\ Len(undo) \in Nat
        /\ \A k \in 1..Len(undo) :
              /\ undo[k].before \in AnyRow
              /\ Backend = "Disk" => undo[k].before.id = SeedId(undo[k].slot)
    BY <1>1, Contexts DEF TxInv, RowsFixed
  <1>3. heap[tab][s] \in AnyRow /\ (Backend = "Disk" => heap[tab][s].id = SeedId(s))
    BY DEF TxInv, Typed, RowsFixed
  <1>4. CASE \E k \in Later(undo, m, tab, s) : \A j \in Later(undo, m, tab, s) : k <= j
    <2>1. PICK k \in Later(undo, m, tab, s) : \A j \in Later(undo, m, tab, s) : k <= j
      BY <1>4
    <2>2. Past(undo, heap, m, tab, s) = undo[k].before
      BY <1>1, <1>2, <2>1, PastIs
    <2>3. k \in 1..Len(undo) /\ undo[k].slot = s
      BY <1>1, <1>2 DEF Later, At
    <2>4. QED
      BY <1>1, <1>2, <2>2, <2>3
  <1>5. QED
    BY <1>1, <1>2, <1>3, <1>4, PastCases

(* At no time did a table have a key twice. *)
LEMMA PastUnique ==
  ASSUME TxInv, NEW t \in Txn, Recorded(t), NEW m \in 0..Len(tx[t].undo), NEW tab \in Table,
         NEW s \in Slot, NEW x \in Slot,
         Past(tx[t].undo, heap, m, tab, s).id # 0,
         Past(tx[t].undo, heap, m, tab, s).id = Past(tx[t].undo, heap, m, tab, x).id
  PROVE  s = x
  <1>1. CASE Backend = "Memory"
    BY <1>1 DEF Recorded
  <1>2. CASE Backend = "Disk"
    BY <1>2, PastRows DEF SeedId
  <1>3. QED
    BY <1>1, <1>2, BackendAssumption

(* Undo puts back what each row was before its transaction changed it, and   *)
(* leaves the other rows alone.                                              *)
LEMMA UndoRestores ==
  ASSUME TxInv, NEW v \in Txn, Recorded(v)
  PROVE  \A tab \in Table, s \in Slot :
            Undo(heap, tx[v].undo).heap[tab][s] = Past(tx[v].undo, heap, 0, tab, s)
  <1>1. PICK undo : undo = tx[v].undo
    OBVIOUS
  <1>2. /\ Len(undo) \in Nat
        /\ \A i \in 1..Len(undo) :
              /\ undo[i] \in Record /\ undo[i].table \in Table /\ undo[i].slot \in Slot
              /\ undo[i].after \in AnyRow
              /\ Shape(undo[i])
              /\ undo[i].after = Past(undo, heap, i, undo[i].table, undo[i].slot)
              /\ Backend = "Disk" => undo[i].op = "update"
    BY <1>1, Contexts DEF TxInv, Recorded, RowsFixed
  <1> DEFINE Back(i, h) == \A b \in Table, x \in Slot : h[b][x] = Past(undo, heap, i, b, x)
             G == [i \in 0..Len(undo) |-> {acc \in Undoing : Back(i, acc.heap)}]
  <1> HIDE DEF Back
  <1>3. [heap |-> heap, remap |-> InPlace, ok |-> TRUE] \in G[Len(undo)]
    <2>1. heap \in Heaps
      BY DEF TxInv, Typed, Heaps
    <2>2. Back(Len(undo), heap)
      <3>1. (Len(undo) + 1)..Len(undo) = {}
        BY <1>2
      <3>2. QED
        BY <3>1, PastLast DEF Back
    <2>3. QED
      BY <1>2, <2>1, <2>2 DEF Undoing
  <1>4. ASSUME NEW i \in 1..Len(undo), NEW acc \in G[i]
        PROVE  Undone(acc, undo[i]) \in G[i - 1]
    <2>1. i \in 0..Len(undo) /\ i - 1 \in 0..Len(undo)
      BY <1>2
    <2>2. acc \in Undoing /\ Back(i, acc.heap)
      BY <2>1
    <2>3. PICK rec \in Record : rec = undo[i]
      BY <1>2
    <2>4. PICK tab \in Table, s \in Slot : tab = rec.table /\ s = rec.slot
      BY <1>2, <2>3
    <2>5. acc.heap[tab][s] = rec.after /\ Shape(rec) /\ rec.after \in AnyRow
      BY <1>2, <2>2, <2>3, <2>4 DEF Back
    <2>6. acc.ok = TRUE /\ acc.remap = InPlace
      BY <2>2 DEF Undoing
    <2> HIDE DEF G
    <2>7. [acc EXCEPT !.heap[tab][s] = rec.before] = PutBack(acc, rec, s)
      BY <2>2, <2>4 DEF Undoing, PutBack
    <2>8. Undone(acc, rec) = PutBack(acc, rec, s)
      <3>1. CASE Backend = "Memory"
        <4> DEFINE found == {u \in Slot : acc.heap[tab][u] = rec.after}
        <4>1. Undone(acc, rec) = UndoneInMemory(acc, rec)
          BY <2>6, <3>1 DEF Undone
        <4>2. CASE rec.op = "delete"
          <5>1. acc.heap[tab][s] = NoRow
            BY <2>5, <4>2 DEF Shape
          <5>2. UndoneInMemory(acc, rec) = [acc EXCEPT !.heap[tab][s] = rec.before]
            BY <2>4, <4>2, <5>1 DEF UndoneInMemory
          <5>3. QED
            BY <2>7, <4>1, <5>2
        <4>3. CASE rec.op # "delete"
          <5>1. rec.after # NoRow /\ rec.after.id # 0
            BY <2>5, <4>3, Distinct DEF Shape
          <5>2. ASSUME NEW u \in found PROVE u = s
            <6>1. /\ u \in Slot
                  /\ Past(undo, heap, i, tab, u) = rec.after
                  /\ Past(undo, heap, i, tab, s) = rec.after
              BY <2>2, <2>5 DEF Back
            <6>2. QED
              BY <1>1, <2>1, <5>1, <6>1, PastUnique
          <5>3. found = {s}
            BY <2>5, <5>2
          <5>4. Min({s}) = s
            BY Places DEF Min
          <5>5. UndoneInMemory(acc, rec) = [acc EXCEPT !.heap[tab][Min(found)] = rec.before]
            <6>1. UndoneInMemory(acc, rec) =
                     CASE rec.op # "delete" /\ found # {} -> [acc EXCEPT !.heap[tab][Min(found)] = rec.before]
                       [] rec.op # "delete" /\ found = {} -> acc
              BY <2>4, <4>3 DEF UndoneInMemory
            <6> HIDE DEF found
            <6>2. QED
              BY <4>3, <5>3, <6>1
          <5> HIDE DEF found
          <5>6. QED
            BY <2>7, <4>1, <5>3, <5>4, <5>5
        <4>4. QED
          BY <4>2, <4>3
      <3>2. CASE Backend = "Disk"
        <4>1. rec.op = "update" /\ acc.heap[tab][s] # NoRow
          BY <1>2, <2>3, <2>5, <3>2 DEF Shape
        <4>2. Resolve(acc.remap[tab], s) = s
          <5>1. acc.remap[tab][s] = s
            BY <2>6 DEF InPlace
          <5>2. QED
            BY <5>1, Zenon DEF Resolve
        <4>3. Undone(acc, rec) = UndoneOnDisk(acc, rec)
          BY <2>6, <3>2 DEF Undone
        <4>4. UndoneOnDisk(acc, rec) =
                 IF acc.heap[tab][Resolve(acc.remap[tab], s)] = NoRow THEN acc
                 ELSE [acc EXCEPT !.heap[tab][Resolve(acc.remap[tab], s)] = rec.before]
          BY <2>4, <4>1 DEF UndoneOnDisk
        <4>5. QED
          BY <2>7, <4>1, <4>2, <4>3, <4>4
      <3>3. QED
        BY <3>1, <3>2, BackendAssumption
    <2>9. PICK next : next = PutBack(acc, rec, s)
      OBVIOUS
    <2>10. /\ next \in Undoing
           /\ \A b \in Table, x \in Slot : next.heap[b][x] =
                 IF b = tab /\ x = s THEN rec.before ELSE acc.heap[b][x]
      BY <2>2, <2>4, <2>9, PutBackRow
    <2>11. Back(i - 1, next.heap)
      <3> SUFFICES ASSUME NEW b \in Table, NEW x \in Slot
                   PROVE  next.heap[b][x] = Past(undo, heap, i - 1, b, x)
        BY DEF Back
      <3>1. Past(undo, heap, i - 1, b, x) =
               IF At(undo[i], b, x) THEN undo[i].before ELSE Past(undo, heap, i, b, x)
        <4>1. Len(undo) \in Nat /\ i \in 1..Len(undo)
          BY <1>2
        <4>2. QED
          BY <4>1, PastStep, Zenon
      <3>2. At(undo[i], b, x) <=> b = tab /\ x = s
        BY <2>3, <2>4 DEF At
      <3>3. acc.heap[b][x] = Past(undo, heap, i, b, x)
        BY <2>2 DEF Back
      <3>4. QED
        BY <2>3, <2>10, <3>1, <3>2, <3>3
    <2>12. QED
      BY <2>1, <2>3, <2>8, <2>9, <2>10, <2>11 DEF G
  <1>5. Undo(heap, undo) \in G[0]
    <2>1. [heap |-> heap, remap |-> [tab \in Table |-> [s \in Slot |-> s]], ok |-> TRUE] \in G[Len(undo)]
      BY <1>3 DEF InPlace
    <2> HIDE DEF G
    <2>2. QED
      BY <1>2, <1>4, <2>1, UndoSteps
  <1>6. Back(0, Undo(heap, undo).heap)
    BY <1>2, <1>5
  <1>7. QED
    BY <1>1, <1>6 DEF Back

(* Whoever has committed stays committed, and so its rows are final. *)
StaysFinal == \A u \in Txn : tx[u].state = "Committed" => tx'[u].state = "Committed"

LEMMA FinalStays ==
  StaysFinal => \A r \in AnyRow : Final(r.by) => Final(r.by)'
  <1>1. \A r \in AnyRow : r.by = 0 \/ r.by \in Txn
    BY BoundsAssumption DEF AnyRow, Row, NoRow, Txn
  <1>2. QED
    BY <1>1 DEF StaysFinal, Final

(* The history of a slot whose row stays. *)
LEMMA PastStays ==
  ASSUME NEW undo, NEW h, NEW g, NEW m, NEW tab, NEW s, g[tab][s] = h[tab][s]
  PROVE  Past(undo, g, m, tab, s) = Past(undo, h, m, tab, s)
  <1> DEFINE c == undo[CHOOSE k \in Later(undo, m, tab, s) : \A j \in Later(undo, m, tab, s) : k <= j].before
  <1>1. \A f : Past(undo, f, m, tab, s) = IF Later(undo, m, tab, s) = {} THEN f[tab][s] ELSE c
    BY DEF Past
  <1> HIDE DEF c
  <1>2. QED
    BY <1>1

(* A log stays right while its transaction's rows are left alone. *)
LEMMA LogStays ==
  ASSUME TxInv, NEW u \in Txn, Recorded(u), tx'[u].undo = tx[u].undo, StaysFinal, KeysUnique',
         \A tab \in Table, s \in Slot :
            entries[Place(tab, s)].holders[u] = "Exclusive" => heap'[tab][s] = heap[tab][s]
  PROVE  Recorded(u)'
  <1>1. PICK undo : tx[u].undo = undo /\ tx'[u].undo = undo
    OBVIOUS
  <1>2. /\ Len(undo) \in Nat
        /\ \A i \in 1..Len(undo) :
              /\ undo[i].before \in AnyRow
              /\ undo[i].table \in Table /\ undo[i].slot \in Slot
              /\ entries[Place(undo[i].table, undo[i].slot)].holders[u] = "Exclusive"
    BY <1>1, Contexts, Modes DEF TxInv, TxnInv, ChangesLocked
  <1>3. \A i \in 1..Len(undo) :
           /\ Shape(undo[i])
           /\ undo[i].after = Past(undo, heap, i, undo[i].table, undo[i].slot)
           /\ FirstAt(undo, i) => Final(undo[i].before.by)
    BY <1>1 DEF Recorded
  <1>4. \A i \in 1..Len(undo) :
           /\ Shape(undo[i])
           /\ undo[i].after = Past(undo, heap', i, undo[i].table, undo[i].slot)
           /\ FirstAt(undo, i) => Final(undo[i].before.by)'
    BY <1>2, <1>3, FinalStays, PastStays
  <1>5. ASSUME Backend = "Memory", NEW m \in 0..Len(undo), NEW tab \in Table,
               NEW s \in Slot, NEW x \in Slot,
               Past(undo, heap', m, tab, s).id # 0,
               Past(undo, heap', m, tab, s).id = Past(undo, heap', m, tab, x).id
        PROVE  s = x
    <2>1. CASE \E i \in 1..Len(undo) : undo[i].table = tab
      <3>1. \A y \in Slot : heap'[tab][y] = heap[tab][y]
        BY <1>2, <1>5, <2>1 DEF Place
      <3>2. \A y \in Slot : Past(undo, heap', m, tab, y) = Past(undo, heap, m, tab, y)
        BY <3>1, PastStays
      <3>3. QED
        BY <1>1, <1>5, <3>2, PastUnique
    <2>2. CASE ~ \E i \in 1..Len(undo) : undo[i].table = tab
      <3>1. \A y \in Slot : Past(undo, heap', m, tab, y) = heap'[tab][y]
        <4>1. \A i \in (m + 1)..Len(undo) : i \in 1..Len(undo)
          BY <1>2
        <4>2. \A y : \A i \in (m + 1)..Len(undo) : ~ At(undo[i], tab, y)
          BY <2>2, <4>1 DEF At
        <4>3. PICK g : g = heap'
          OBVIOUS
        <4>4. \A y \in Slot : Past(undo, g, m, tab, y) = g[tab][y]
          BY <4>2, PastLast
        <4>5. QED
          BY <4>3, <4>4
      <3>2. QED
        BY <1>5, <3>1 DEF KeysUnique
    <2>3. QED
      BY <2>1, <2>2
  <1>6. QED
    BY <1>1, <1>4, <1>5 DEF Recorded

(* A step that leaves rows and undo logs alone. *)
LEMMA ChangesStay ==
  TxInv /\ ChangesInv /\ heap' = heap /\ committed' = committed /\ StaysFinal
        /\ (\A u \in Txn : tx'[u].undo = tx[u].undo)
      => ChangesInv'
  <1> SUFFICES ASSUME TxInv, ChangesInv, heap' = heap, committed' = committed, StaysFinal,
                      \A u \in Txn : tx'[u].undo = tx[u].undo
               PROVE  ChangesInv'
    OBVIOUS
  <1>1. Typed
    BY DEF TxInv
  <1>2. \A r \in AnyRow : Final(r.by) => Final(r.by)'
    BY FinalStays
  <1>3. \A u \in Txn : Recorded(u)'
    <2>1. KeysUnique'
      BY DEF ChangesInv, KeysUnique
    <2>2. QED
      BY <2>1, LogStays DEF ChangesInv
  <1>4. \A u \in Txn : \A tab, s : Touched(u, tab, s)' <=> Touched(u, tab, s)
    BY DEF Touched
  <1>5. WritersKnown'
    <2>1. \A r \in AnyRow : \A tab, s : Known(r.by, tab, s) => Known(r.by, tab, s)'
      BY <1>2, <1>4 DEF Known
    <2>2. QED
      BY <2>1 DEF ChangesInv, WritersKnown
  <1>6. KeysUnique'
    BY DEF ChangesInv, KeysUnique
  <1>7. \A tab, s, r : IsBase(tab, s, r)' <=> IsBase(tab, s, r)
    BY <1>4 DEF IsBase, WasBefore
  <1>8. CommittedRight'
    BY <1>7 DEF ChangesInv, CommittedRight
  <1>9. QED
    BY <1>3, <1>5, <1>6, <1>8 DEF ChangesInv

(* v's undo log is emptied, nobody else's changes. *)
LogEmptied(v) ==
    /\ tx'[v].undo = <<>>
    /\ \A u \in Txn \ {v} : tx'[u].undo = tx[u].undo

LEMMA LogGone ==
  ASSUME NEW v \in Txn, LogEmptied(v)
  PROVE  /\ \A tab, s : ~ Touched(v, tab, s)'
         /\ \A u \in Txn \ {v} : \A tab, s : Touched(u, tab, s)' <=> Touched(u, tab, s)
         /\ \A tab, s, r : IsBase(tab, s, r)' <=>
               \/ \E t \in Txn \ {v} : WasBefore(t, tab, s, r)
               \/ (\A t \in Txn \ {v} : ~ Touched(t, tab, s)) /\ r = heap'[tab][s]
  <1>1. 1..Len(tx'[v].undo) = {}
    BY DEF LogEmptied
  <1>2. \A u \in Txn \ {v} : tx'[u].undo = tx[u].undo
    BY DEF LogEmptied
  <1>3. /\ \A tab, s : ~ Touched(v, tab, s)'
        /\ \A u \in Txn \ {v} : \A tab, s : Touched(u, tab, s)' <=> Touched(u, tab, s)
    BY <1>1, <1>2 DEF Touched
  <1>4. /\ \A tab, s, r : ~ WasBefore(v, tab, s, r)'
        /\ \A u \in Txn \ {v} : \A tab, s, r : WasBefore(u, tab, s, r)' <=> WasBefore(u, tab, s, r)
    BY <1>1, <1>2 DEF WasBefore
  <1>5. ASSUME NEW tab, NEW s, NEW r
        PROVE  IsBase(tab, s, r)' <=>
               \/ \E t \in Txn \ {v} : WasBefore(t, tab, s, r)
               \/ (\A t \in Txn \ {v} : ~ Touched(t, tab, s)) /\ r = heap'[tab][s]
    <2>1. (\A t \in Txn : ~ Touched(t, tab, s)') <=> (\A t \in Txn \ {v} : ~ Touched(t, tab, s))
      BY <1>3
    <2>2. QED
      BY <1>4, <2>1 DEF IsBase
  <1>6. QED
    BY <1>3, <1>5

(* The logs after one of them is emptied. *)
LEMMA OthersRecorded ==
  ASSUME TxInv, ChangesInv, NEW v \in Txn, StaysFinal, LogEmptied(v), KeysUnique',
         \A tab \in Table, s \in Slot :
            entries[Place(tab, s)].holders[v] = "Exclusive" \/ heap'[tab][s] = heap[tab][s]
  PROVE  \A u \in Txn : Recorded(u)'
  <1> SUFFICES ASSUME NEW u \in Txn PROVE Recorded(u)'
    OBVIOUS
  <1>1. CASE u = v
    <2>1. tx'[u].undo = <<>> /\ Len(<<>>) = 0
      BY <1>1 DEF LogEmptied
    <2>2. PICK undo, g : undo = tx'[u].undo /\ g = heap'
      OBVIOUS
    <2>3. Len(undo) = 0 /\ 1..Len(undo) = {} /\ \A m \in 0..Len(undo) : (m + 1)..Len(undo) = {}
      BY <2>1, <2>2
    <2>4. \A m \in 0..Len(undo) : \A tab, s : Past(undo, g, m, tab, s) = g[tab][s]
      BY <2>3, PastLast
    <2>5. QED
      BY <2>2, <2>3, <2>4 DEF Recorded, KeysUnique
  <1>2. CASE u # v
    <2>1. tx'[u].undo = tx[u].undo /\ Recorded(u) /\ LocksRight
      BY <1>2 DEF LogEmptied, ChangesInv, TxInv
    <2>2. ASSUME NEW tab \in Table, NEW s \in Slot, entries[Place(tab, s)].holders[u] = "Exclusive"
          PROVE  heap'[tab][s] = heap[tab][s]
      <3>1. entries[Place(tab, s)].holders[v] = "None"
        BY <1>2, <2>1, <2>2, ChangesApart
      <3>2. QED
        BY <3>1
    <2>3. QED
      BY <2>1, <2>2, LogStays
  <1>3. QED
    BY <1>1, <1>2

(* A rollback, or the abort of a deadlock's victim. *)
LEMMA UndoneChanges ==
  ASSUME NEW v \in Txn
  PROVE  TxInv /\ ChangesInv /\ LogEmptied(v) /\ heap' = Undo(heap, tx[v].undo).heap
               /\ committed' = committed /\ StaysFinal
      => ChangesInv'
  <1> SUFFICES ASSUME TxInv, ChangesInv, LogEmptied(v), heap' = Undo(heap, tx[v].undo).heap,
                      committed' = committed, StaysFinal
               PROVE  ChangesInv'
    OBVIOUS
  <1>1. Typed /\ Recorded(v)
    BY DEF TxInv, ChangesInv
  <1>2. PICK undo : undo = tx[v].undo
    OBVIOUS
  <1>3. \A i \in 1..Len(undo) : /\ undo[i].before \in AnyRow
                                /\ undo[i].table \in Table /\ undo[i].slot \in Slot
                                /\ FirstAt(undo, i) => Final(undo[i].before.by)
    BY <1>1, <1>2, Contexts DEF Recorded
  <1>4. \A tab \in Table, s \in Slot :
           /\ ~ Touched(v, tab, s) => heap'[tab][s] = heap[tab][s]
           /\ \A i \in 1..Len(undo) : At(undo[i], tab, s) /\ FirstAt(undo, i) =>
                 heap'[tab][s] = undo[i].before
    <2>1. Len(undo) \in Nat
      BY <1>1, <1>2, Contexts
    <2>2. \A tab \in Table, s \in Slot : heap'[tab][s] = Past(undo, heap, 0, tab, s)
      BY <1>1, <1>2, UndoRestores
    <2>3. \A tab \in Table, s \in Slot : ~ Touched(v, tab, s) => heap'[tab][s] = heap[tab][s]
      <3>1. \A tab, s : ~ Touched(v, tab, s) => \A i \in (0 + 1)..Len(undo) : ~ At(undo[i], tab, s)
        BY <1>2, <2>1 DEF Touched
      <3>2. QED
        BY <2>2, <3>1, PastLast
    <2>4. ASSUME NEW tab \in Table, NEW s \in Slot, NEW i \in 1..Len(undo),
                 At(undo[i], tab, s), FirstAt(undo, i)
          PROVE  heap'[tab][s] = undo[i].before
      BY <2>1, <2>2, <2>4, PastFirst
    <2>5. QED
      BY <2>3, <2>4
  <1>5. /\ \A tab, s : ~ Touched(v, tab, s)'
        /\ \A u \in Txn \ {v} : \A tab, s : Touched(u, tab, s)' <=> Touched(u, tab, s)
        /\ \A tab, s, r : IsBase(tab, s, r)' <=>
              \/ \E t \in Txn \ {v} : WasBefore(t, tab, s, r)
              \/ (\A t \in Txn \ {v} : ~ Touched(t, tab, s)) /\ r = heap'[tab][s]
    BY LogGone
  <1>6. ASSUME NEW tab \in Table, NEW s \in Slot, Touched(v, tab, s)
        PROVE  /\ \A u \in Txn \ {v} : ~ Touched(u, tab, s)
               /\ \E i \in 1..Len(undo) :
                     /\ At(undo[i], tab, s) /\ FirstAt(undo, i) /\ heap'[tab][s] = undo[i].before
               /\ \A r : r = heap'[tab][s] => Final(r.by)'
    <2>1. PICK i \in 1..Len(undo) : At(undo[i], tab, s) /\ FirstAt(undo, i)
      BY <1>2, <1>6, TouchedRows
    <2>2. heap'[tab][s] = undo[i].before
      BY <1>4, <2>1
    <2>3. PICK r \in AnyRow : r = undo[i].before
      BY <1>3
    <2>4. Final(r.by)'
      BY <1>3, <2>1, <2>3, FinalStays
    <2>5. \A x : x = heap'[tab][s] => Final(x.by)'
      BY <2>2, <2>3, <2>4
    <2>6. QED
      BY <1>6, <2>1, <2>2, <2>5, TouchedRows
  <1>7. KeysUnique'
    <2>1. Len(undo) \in Nat /\ 0 \in 0..Len(undo)
      BY <1>1, <1>2, Contexts
    <2>2. \A tab \in Table, s \in Slot : heap'[tab][s] = Past(undo, heap, 0, tab, s)
      BY <1>1, <1>2, UndoRestores
    <2>3. QED
      BY <1>1, <1>2, <2>1, <2>2, PastUnique DEF KeysUnique
  <1>8. WritersKnown'
    <2> SUFFICES ASSUME NEW tab \in Table, NEW s \in Slot, NEW r \in AnyRow, heap'[tab][s] = r
                 PROVE  Known(r.by, tab, s)'
      BY DEF WritersKnown
    <2>1. CASE Touched(v, tab, s)
      BY <1>6, <2>1 DEF Known
    <2>2. CASE ~ Touched(v, tab, s)
      <3>1. heap[tab][s] = r
        BY <1>4, <2>2
      <3>2. Final(r.by) \/ (r.by \in Txn /\ Touched(r.by, tab, s))
        BY <3>1 DEF ChangesInv, WritersKnown, Known
      <3>3. Final(r.by) => Final(r.by)'
        BY FinalStays
      <3>4. r.by \in Txn /\ Touched(r.by, tab, s) => Touched(r.by, tab, s)'
        BY <1>5, <2>2
      <3>5. QED
        BY <3>2, <3>3, <3>4 DEF Known
    <2>3. QED
      BY <2>1, <2>2
  <1>9. \A u \in Txn : Recorded(u)'
    <2>1. \A tab \in Table, s \in Slot :
             entries[Place(tab, s)].holders[v] = "Exclusive" \/ heap'[tab][s] = heap[tab][s]
      BY UndoRight
    <2>2. QED
      BY <1>7, <2>1, OthersRecorded
  <1>10. ASSUME NEW tab \in Table, NEW s \in Slot, NEW r
         PROVE  IsBase(tab, s, r)' <=> IsBase(tab, s, r)
    <2>1. CASE Touched(v, tab, s)
      <3>1. /\ \A u \in Txn \ {v} : ~ Touched(u, tab, s) /\ ~ WasBefore(u, tab, s, r)
        BY <1>6, <2>1 DEF Touched, WasBefore
      <3>2. /\ IsBase(tab, s, r)' <=> r = heap'[tab][s]
            /\ IsBase(tab, s, r) <=> WasBefore(v, tab, s, r)
        BY <1>5, <2>1, <3>1 DEF IsBase
      <3>3. QED
        BY <1>2, <1>4, <1>6, <2>1, <3>2 DEF WasBefore
    <2>2. CASE ~ Touched(v, tab, s)
      <3>1. heap'[tab][s] = heap[tab][s]
        BY <1>4, <2>2
      <3>2. ~ WasBefore(v, tab, s, r)
        BY <2>2 DEF Touched, WasBefore
      <3>3. QED
        BY <1>5, <2>2, <3>1, <3>2 DEF IsBase
    <2>3. QED
      BY <2>1, <2>2
  <1>11. CommittedRight'
    BY <1>10 DEF ChangesInv, CommittedRight
  <1>12. QED
    BY <1>7, <1>8, <1>9, <1>11 DEF ChangesInv

(* A record is about one key, which is in its slot before it or after it. *)
LEMMA OneKey ==
  ASSUME TxInv, NEW t \in Txn, Recorded(t), NEW i \in 1..Len(tx[t].undo)
  PROVE  LET undo == tx[t].undo
             rec == undo[i]
         IN  \E m \in {i - 1, i} :
                /\ m \in 0..Len(undo)
                /\ Past(undo, heap, m, rec.table, rec.slot).id # 0
                /\ IdsOf(rec) = {Past(undo, heap, m, rec.table, rec.slot).id}
  <1>1. PICK undo, rec : undo = tx[t].undo /\ rec = undo[i]
    OBVIOUS
  <1>2. /\ Len(undo) \in Nat /\ i \in 1..Len(undo)
        /\ rec.before \in AnyRow /\ rec.after \in AnyRow
        /\ Shape(rec) /\ rec.after = Past(undo, heap, i, rec.table, rec.slot)
    BY <1>1, Contexts DEF TxInv, Recorded
  <1>3. At(undo[i], rec.table, rec.slot)
    BY <1>1 DEF At
  <1>4. Past(undo, heap, i - 1, rec.table, rec.slot) = rec.before
    BY <1>1, <1>2, <1>3, PastStep
  <1>5. i - 1 \in 0..Len(undo) /\ i \in 0..Len(undo)
    BY <1>2
  <1>6. /\ rec.before.id = 0 <=> rec.before = NoRow
        /\ rec.after.id = 0 <=> rec.after = NoRow
    BY <1>2, Distinct
  <1>7. \/ rec.before.id # 0 /\ IdsOf(rec) = {rec.before.id}
        \/ rec.after.id # 0 /\ IdsOf(rec) = {rec.after.id}
    BY <1>2, <1>6 DEF Shape, IdsOf
  <1>8. QED
    BY <1>1, <1>2, <1>4, <1>5, <1>7

(* A row that was never changed, or not any more, keeps its key to itself. *)
LEMMA OthersKeys ==
  ASSUME TxInv, NEW t \in Txn, Recorded(t), NEW tab \in Table, NEW s \in Slot, NEW key, key # 0,
         NEW i \in 1..Len(tx[t].undo), tx[t].undo[i].table = tab, key \in IdsOf(tx[t].undo[i]),
         \A m \in {i - 1, i} : Past(tx[t].undo, heap, m, tab, s).id = key
  PROVE  tx[t].undo[i].slot = s
  <1>1. PICK undo : undo = tx[t].undo
    OBVIOUS
  <1>2. undo[i].slot \in Slot
    BY <1>1, Contexts DEF TxInv
  <1>3. PICK m \in {i - 1, i} :
           /\ m \in 0..Len(undo)
           /\ IdsOf(undo[i]) = {Past(undo, heap, m, tab, undo[i].slot).id}
    BY <1>1, OneKey
  <1>4. Past(undo, heap, m, tab, s).id = key /\ Past(undo, heap, m, tab, undo[i].slot).id = key
    BY <1>1, <1>3
  <1>5. QED
    BY <1>1, <1>2, <1>3, <1>4, PastUnique

(* What a commit makes of the committed rows: for each slot that is in the   *)
(* undo log the row as it is, for the others the one that was there.         *)
LEMMA CommittedRows ==
  ASSUME TxInv, ChangesInv, NEW t \in Txn, NEW tab \in Table, NEW r
  PROVE  r \in WithChanges(committed[tab], tab, tx[t].undo) <=>
            /\ r # NoRow
            /\ \E s \in Slot : IF Touched(t, tab, s) THEN r = heap[tab][s] ELSE IsBase(tab, s, r)
  <1>1. PICK undo : undo = tx[t].undo
    OBVIOUS
  <1> DEFINE n == Len(undo)
             mine == {i \in 1..n : undo[i].table = tab}
             last == {i \in mine : \A j \in mine : j > i => IdsOf(undo[i]) \cap IdsOf(undo[j]) = {}}
             old == {x \in committed[tab] : \A i \in mine : x.id \notin IdsOf(undo[i])}
  <1>2. Typed /\ RowsFixed /\ Recorded(t) /\ CommittedRight
    BY DEF TxInv, ChangesInv
  <1>3. /\ n \in Nat
        /\ \A i \in mine : /\ i \in 1..n /\ undo[i].table = tab /\ undo[i].slot \in Slot
                           /\ undo[i].before \in AnyRow /\ undo[i].after \in AnyRow
                           /\ Touched(t, tab, undo[i].slot)
                           /\ Shape(undo[i])
                           /\ undo[i].after = Past(undo, heap, i, tab, undo[i].slot)
    BY <1>1, <1>2, Contexts DEF Recorded, At, Touched
  <1>4. \A s \in Slot : heap[tab][s] \in AnyRow
    BY <1>2 DEF Typed
  <1>5. r \in WithChanges(committed[tab], tab, tx[t].undo) <=>
           \/ r \in old
           \/ r # NoRow /\ \E i \in last : r = undo[i].after
    BY <1>1 DEF WithChanges
  <1>6. \A i \in last : i \in mine
    OBVIOUS
  <1>7. \A i \in mine : \A k \in IdsOf(undo[i]) : k # 0
    BY DEF IdsOf
  <1>8. ASSUME NEW i \in mine PROVE  /\ undo[i].after # NoRow => undo[i].after.id \in IdsOf(undo[i])
                                     /\ undo[i].before # NoRow => undo[i].before.id \in IdsOf(undo[i])
    BY <1>3, Distinct DEF IdsOf
  <1> HIDE DEF mine
  <1>9. ASSUME r # NoRow, NEW i \in last, r = undo[i].after
        PROVE  Touched(t, tab, undo[i].slot) /\ r = heap[tab][undo[i].slot]
    <2>1. i \in mine /\ i \in 0..n /\ undo[i].slot \in Slot
      BY <1>3, <1>6
    <2>2. ASSUME NEW k \in Later(undo, i, tab, undo[i].slot),
                 \A j \in Later(undo, i, tab, undo[i].slot) : k <= j
          PROVE  FALSE
      <3>1. Past(undo, heap, i, tab, undo[i].slot) = undo[k].before
        BY <1>3, <2>1, <2>2, PastIs
      <3>2. k \in mine /\ k > i
        BY <1>3, <2>1 DEF Later, At, mine
      <3>3. undo[k].before = r /\ undo[i].after = r
        BY <1>3, <1>9, <2>1, <3>1
      <3>4. r.id \in IdsOf(undo[k]) /\ r.id \in IdsOf(undo[i])
        BY <1>8, <1>9, <2>1, <3>2, <3>3
      <3>5. QED
        BY <3>2, <3>4
    <2> HIDE DEF last
    <2>3. Past(undo, heap, i, tab, undo[i].slot) = heap[tab][undo[i].slot]
      BY <1>3, <2>1, <2>2, PastCases
    <2>4. QED
      BY <1>3, <1>9, <2>1, <2>3
  <1>10. ASSUME r \in old
         PROVE  r # NoRow /\ \E s \in Slot : ~ Touched(t, tab, s) /\ IsBase(tab, s, r)
    <2>1. PICK s \in Slot : r # NoRow /\ IsBase(tab, s, r)
      BY <1>2, <1>10 DEF CommittedRight
    <2>2. ASSUME Touched(t, tab, s) PROVE FALSE
      <3>1. \A u \in Txn \ {t} : ~ WasBefore(u, tab, s, r)
        BY <2>2, TouchedRows DEF Touched, WasBefore
      <3>2. WasBefore(t, tab, s, r)
        BY <2>1, <2>2, <3>1 DEF IsBase
      <3>3. PICK i \in 1..n : At(undo[i], tab, s) /\ r = undo[i].before
        BY <1>1, <3>2 DEF WasBefore
      <3>4. i \in mine
        BY <3>3 DEF mine, At
      <3>5. r.id \in IdsOf(undo[i])
        BY <1>8, <2>1, <3>3, <3>4
      <3>6. QED
        BY <1>10, <3>4, <3>5
    <2>3. QED
      BY <2>1, <2>2
  <1>11. ASSUME r # NoRow, NEW s \in Slot, Touched(t, tab, s), r = heap[tab][s]
         PROVE  \E i \in last : r = undo[i].after
    <2>1. PICK i \in 1..n : At(undo[i], tab, s) /\ LastAt(undo, i)
      BY <1>1, <1>11, TouchedRows
    <2>2. i \in mine /\ undo[i].slot = s /\ undo[i].table = tab
      BY <2>1 DEF mine, At
    <2>3. ASSUME NEW m \in Nat, m >= i PROVE Past(undo, heap, m, tab, s) = r
      <3>1. \A j \in (m + 1)..n : j \in (i + 1)..n
        BY <1>3, <2>3
      <3>2. \A j \in (m + 1)..n : ~ At(undo[j], tab, s)
        BY <2>1, <2>2, <3>1 DEF LastAt
      <3>3. QED
        BY <1>11, <3>2, PastLast
    <2>4. undo[i].after = r
      BY <1>3, <2>2, <2>3
    <2>5. ASSUME NEW j \in mine, j > i, IdsOf(undo[i]) \cap IdsOf(undo[j]) # {} PROVE FALSE
      <3>1. j \in 1..n /\ undo[j].table = tab /\ i \in 1..n /\ r.id # 0
        BY <1>3, <1>4, <1>11, <2>2, Distinct
      <3>2. IdsOf(undo[i]) = {r.id}
        <4>1. \E k : IdsOf(undo[i]) = {k}
          BY <1>1, <1>2, OneKey
        <4>2. r.id \in IdsOf(undo[i])
          BY <1>8, <1>11, <2>2, <2>4
        <4>3. QED
          BY <4>1, <4>2
      <3>3. r.id \in IdsOf(undo[j])
        BY <2>5, <3>2
      <3>4. \A m \in {j - 1, j} : Past(undo, heap, m, tab, s) = r
        BY <2>3, <2>5, <3>1
      <3>5. undo[j].slot = s
        BY <1>1, <1>2, <3>1, <3>3, <3>4, OthersKeys
      <3>6. j \in (i + 1)..n /\ At(undo[j], undo[i].table, undo[i].slot)
        BY <1>3, <2>2, <2>5, <3>1, <3>5 DEF At
      <3>7. QED
        BY <2>1, <3>6 DEF LastAt
    <2>6. i \in last
      BY <2>2, <2>5
    <2>7. QED
      BY <2>4, <2>6
  <1>12. ASSUME r # NoRow, NEW s \in Slot, ~ Touched(t, tab, s), IsBase(tab, s, r)
         PROVE  r \in old
    <2>1. r \in committed[tab]
      BY <1>2, <1>12 DEF CommittedRight
    <2>2. ASSUME NEW i \in mine, r.id \in IdsOf(undo[i]) PROVE FALSE
      <3>1. \A m \in Nat : Past(undo, heap, m, tab, s) = heap[tab][s]
        <4>1. \A m \in Nat : \A j \in (m + 1)..n : j \in 1..n
          BY <1>3
        <4>2. \A j \in 1..n : ~ At(undo[j], tab, s)
          BY <1>1, <1>12 DEF Touched
        <4>3. QED
          BY <4>1, <4>2, PastLast
      <3>2. heap[tab][s].id = r.id
        <4>1. CASE r = heap[tab][s]
          BY <4>1
        <4>2. CASE \E u \in Txn : WasBefore(u, tab, s, r)
          <5>1. PICK u \in Txn : WasBefore(u, tab, s, r)
            BY <4>2
          <5>2. PICK j \in 1..Len(tx[u].undo) : At(tx[u].undo[j], tab, s) /\ r = tx[u].undo[j].before
            BY <5>1 DEF WasBefore
          <5>3. Touched(u, tab, s) /\ u # t
            BY <1>12, <5>2 DEF Touched
          <5>4. Backend = "Disk"
            <6>1. SUFFICES ASSUME Backend = "Memory" PROVE FALSE
              BY BackendAssumption
            <6>2. Place(tab, undo[i].slot) = Place(tab, s)
              BY <6>1 DEF Place
            <6>3. entries[Place(tab, s)].holders[u] = "Exclusive"
              BY <5>3, TouchedRows
            <6>4. entries[Place(tab, undo[i].slot)].holders[u] = "None"
              BY <1>3, <2>2, <5>3, TouchedRows
            <6>5. QED
              BY <6>2, <6>3, <6>4
          <5>5. tx[u].undo[j].before.id = SeedId(s) /\ heap[tab][s].id = SeedId(s)
            BY <1>2, <5>2, <5>4 DEF RowsFixed, At
          <5>6. QED
            BY <5>2, <5>5
        <4>3. QED
          BY <1>12, <4>1, <4>2 DEF IsBase
      <3>3. undo[i].slot = s
        <4>1. i \in 1..n /\ undo[i].table = tab /\ r.id # 0
          BY <1>3, <1>7, <2>2
        <4>2. \A m \in {i - 1, i} : Past(undo, heap, m, tab, s).id = r.id
          BY <3>1, <3>2, <4>1
        <4>3. QED
          BY <1>1, <1>2, <2>2, <4>1, <4>2, OthersKeys
      <3>4. QED
        BY <1>3, <1>12, <2>2, <3>3
    <2>3. QED
      BY <2>1, <2>2
  <1> HIDE DEF last, old
  <1>13. QED
    BY <1>3, <1>5, <1>6, <1>9, <1>10, <1>11, <1>12

(* commit_tx makes t's changes part of the committed rows. *)
LEMMA CommitChanges ==
  ASSUME NEW t \in Txn
  PROVE  TxInv /\ ChangesInv /\ LogEmptied(t) /\ heap' = heap /\ StaysFinal
               /\ tx'[t].state = "Committed"
               /\ committed' = [tab \in Table |-> WithChanges(committed[tab], tab, tx[t].undo)]
      => ChangesInv'
  <1> SUFFICES ASSUME TxInv, ChangesInv, LogEmptied(t), heap' = heap, StaysFinal,
                      tx'[t].state = "Committed",
                      committed' = [tab \in Table |-> WithChanges(committed[tab], tab, tx[t].undo)]
               PROVE  ChangesInv'
    OBVIOUS
  <1>1. /\ \A tab, s : ~ Touched(t, tab, s)'
        /\ \A u \in Txn \ {t} : \A tab, s : Touched(u, tab, s)' <=> Touched(u, tab, s)
        /\ \A tab, s, r : IsBase(tab, s, r)' <=>
              \/ \E u \in Txn \ {t} : WasBefore(u, tab, s, r)
              \/ (\A u \in Txn \ {t} : ~ Touched(u, tab, s)) /\ r = heap[tab][s]
    BY LogGone
  <1>2. KeysUnique'
    BY DEF ChangesInv, KeysUnique
  <1>3. WritersKnown'
    <2> SUFFICES ASSUME NEW tab \in Table, NEW s \in Slot, NEW r \in AnyRow, heap[tab][s] = r
                 PROVE  Known(r.by, tab, s)'
      BY DEF WritersKnown
    <2>1. Final(r.by) \/ (r.by \in Txn /\ Touched(r.by, tab, s))
      BY DEF ChangesInv, WritersKnown, Known
    <2>2. Final(r.by) => Final(r.by)'
      BY FinalStays
    <2>3. r.by = t => Final(r.by)'
      BY DEF Final
    <2>4. r.by \in Txn /\ r.by # t /\ Touched(r.by, tab, s) => Touched(r.by, tab, s)'
      BY <1>1
    <2>5. QED
      BY <2>1, <2>2, <2>3, <2>4 DEF Known
  <1>4. \A u \in Txn : Recorded(u)'
    BY <1>2, OthersRecorded
  <1>5. ASSUME NEW tab \in Table, NEW s \in Slot, NEW r
        PROVE  IsBase(tab, s, r)' <=> IF Touched(t, tab, s) THEN r = heap[tab][s] ELSE IsBase(tab, s, r)
    <2>1. CASE Touched(t, tab, s)
      <3>1. \A u \in Txn \ {t} : ~ Touched(u, tab, s) /\ ~ WasBefore(u, tab, s, r)
        BY <2>1, TouchedRows DEF Touched, WasBefore
      <3>2. QED
        BY <1>1, <2>1, <3>1
    <2>2. CASE ~ Touched(t, tab, s)
      <3>1. ~ WasBefore(t, tab, s, r)
        BY <2>2 DEF Touched, WasBefore
      <3>2. QED
        BY <1>1, <2>2, <3>1 DEF IsBase
    <2>3. QED
      BY <2>1, <2>2
  <1>6. CommittedRight'
    <2> SUFFICES ASSUME NEW tab \in Table, NEW r
                 PROVE  r \in committed'[tab] <=> r # NoRow /\ \E s \in Slot : IsBase(tab, s, r)'
      BY DEF CommittedRight
    <2>1. committed'[tab] = WithChanges(committed[tab], tab, tx[t].undo)
      OBVIOUS
    <2>2. QED
      BY <1>5, <2>1, CommittedRows
  <1>7. QED
    BY <1>2, <1>3, <1>4, <1>6 DEF ChangesInv

\* The records of a list are about slots that differ.
Differ(new) == \A i, j \in 1..Len(new) : new[i].slot = new[j].slot => i = j

\* The log all is undo and then new: the earlier records stay the first of their
\* slots; a new record is the first of a slot that no earlier one is about.
Grown(undo, new, all) ==
    /\ Len(undo) \in Nat /\ Len(new) \in Nat /\ Len(all) = Len(undo) + Len(new)
    /\ \A i \in 1..Len(all) : i \in 1..Len(undo) \/ \E j \in 1..Len(new) : i = Len(undo) + j
    /\ \A i \in 1..Len(undo) :
          /\ i \in 1..Len(all) /\ all[i] = undo[i]
          /\ FirstAt(all, i) <=> FirstAt(undo, i)
    /\ \A j \in 1..Len(new) :
          /\ Len(undo) + j \in 1..Len(all) /\ all[Len(undo) + j] = new[j]
          /\ FirstAt(all, Len(undo) + j) <=>
                \A i \in 1..Len(undo) : ~ At(undo[i], new[j].table, new[j].slot)

(* A log grows by records of slots that differ. *)
LEMMA LogGrows ==
  ASSUME NEW undo \in Seq(Record), NEW new \in Seq(Record), NEW all, all = undo \o new,
         Differ(new)
  PROVE  Grown(undo, new, all)
  <1> DEFINE m == Len(undo)
             k == Len(new)
  <1>1. /\ m \in Nat /\ k \in Nat /\ Len(all) = m + k
        /\ \A i \in 1..m : all[i] = undo[i]
        /\ \A j \in 1..k : all[m + j] = new[j]
    <2>1. all \in Seq(Record) /\ Len(all) = m + k /\ m \in Nat /\ k \in Nat
      OBVIOUS
    <2>2. \A i \in 1..(m + k) : all[i] = IF i <= m THEN undo[i] ELSE new[i - m]
      OBVIOUS
    <2>3. \A j \in 1..k : m + j \in 1..(m + k) /\ ~ (m + j <= m) /\ (m + j) - m = j
      BY <2>1
    <2>4. QED
      BY <2>1, <2>2, <2>3
  <1> HIDE DEF m, k
  <1>2. \A i \in 1..Len(all) : i \in 1..m \/ \E j \in 1..k : i = m + j
    <2> SUFFICES ASSUME NEW i \in 1..Len(all), i \notin 1..m PROVE \E j \in 1..k : i = m + j
      OBVIOUS
    <2>1. i - m \in 1..k /\ i = m + (i - m)
      BY <1>1
    <2>2. QED
      BY <2>1
  <1>3. ASSUME NEW i \in 1..m
        PROVE  /\ i \in 1..Len(all) /\ all[i] = undo[i]
               /\ FirstAt(all, i) <=> FirstAt(undo, i)
    <2>1. i \in 1..Len(all) /\ all[i] = undo[i]
      BY <1>1
    <2>2. \A j \in 1..(i - 1) : j \in 1..m /\ all[j] = undo[j]
      BY <1>1
    <2>3. FirstAt(all, i) <=> FirstAt(undo, i)
      BY <2>1, <2>2 DEF FirstAt
    <2>4. QED
      BY <2>1, <2>3
  <1>4. ASSUME NEW j \in 1..k
        PROVE  /\ m + j \in 1..Len(all) /\ all[m + j] = new[j]
               /\ FirstAt(all, m + j) <=> \A i \in 1..m : ~ At(undo[i], new[j].table, new[j].slot)
    <2>1. m + j \in 1..Len(all) /\ all[m + j] = new[j]
      BY <1>1
    <2>2. \A i \in 1..m : i \in 1..((m + j) - 1) /\ all[i] = undo[i]
      BY <1>1
    <2>3. ASSUME NEW i \in 1..((m + j) - 1), i \notin 1..m
          PROVE  ~ At(all[i], new[j].table, new[j].slot)
      <3>1. i - m \in 1..k /\ i - m # j /\ all[m + (i - m)] = new[i - m] /\ m + (i - m) = i
        BY <1>1, <2>3
      <3>2. new[i - m].slot # new[j].slot
        BY <3>1 DEF k, Differ
      <3>3. QED
        BY <3>1, <3>2 DEF At
    <2>4. QED
      BY <2>1, <2>2, <2>3 DEF FirstAt
  <1>5. QED
    BY <1>1, <1>2, <1>3, <1>4 DEF m, k, Grown

(* Its history goes on where it ended. *)
LEMMA PastGrows ==
  ASSUME NEW undo, NEW new, NEW all, Grown(undo, new, all), NEW h, NEW g, NEW tab, NEW s,
         \A j \in 1..Len(new) : At(new[j], tab, s) => new[j].before = h[tab][s],
         (\A j \in 1..Len(new) : ~ At(new[j], tab, s)) => g[tab][s] = h[tab][s]
  PROVE  /\ \A m \in 0..Len(undo) : Past(all, g, m, tab, s) = Past(undo, h, m, tab, s)
         /\ \A j \in 1..Len(new) :
               Past(all, g, Len(undo) + j, tab, s) \in {h[tab][s], g[tab][s]}
  <1> DEFINE n == Len(undo)
             k == Len(new)
  <1>1. /\ n \in Nat /\ k \in Nat /\ Len(all) = n + k
        /\ \A i \in 1..Len(all) : i \in 1..n \/ \E j \in 1..k : i = n + j
        /\ \A i \in 1..n : all[i] = undo[i]
        /\ \A j \in 1..k : all[n + j] = new[j]
    BY DEF Grown
  <1> HIDE DEF n, k
  <1>2. \A m \in 0..n : \A i : i \in Later(undo, m, tab, s) => i \in Later(all, m, tab, s) /\ i \in 1..n
    <2> SUFFICES ASSUME NEW m \in 0..n, NEW i \in (m + 1)..n, At(undo[i], tab, s)
                 PROVE  i \in (m + 1)..Len(all) /\ At(all[i], tab, s) /\ i \in 1..n
      BY DEF Later, n
    <2>1. i \in 1..n /\ i \in (m + 1)..Len(all)
      BY <1>1
    <2>2. QED
      BY <1>1, <2>1
  <1>3. ASSUME NEW m \in 0..Len(all), NEW i \in Later(all, m, tab, s)
        PROVE  \/ i \in 1..n /\ (m \in 0..n => i \in Later(undo, m, tab, s))
               \/ i > n /\ all[i].before = h[tab][s]
    <2>1. i \in 1..Len(all) /\ i > m /\ At(all[i], tab, s)
      BY <1>1 DEF Later
    <2>2. CASE i \in 1..n
      <3>1. m \in 0..n => i \in (m + 1)..n
        BY <2>1, <2>2, <1>1
      <3>2. At(undo[i], tab, s)
        BY <1>1, <2>1, <2>2
      <3>3. QED
        BY <2>2, <3>1, <3>2 DEF Later, n
    <2>3. CASE i \notin 1..n
      <3>1. PICK j \in 1..k : i = n + j
        BY <1>1, <2>1, <2>3
      <3>2. all[i] = new[j] /\ j \in 1..Len(new)
        BY <1>1, <3>1 DEF k
      <3>3. i > n
        BY <1>1, <2>1, <2>3
      <3>4. QED
        BY <2>1, <3>2, <3>3
    <2>4. QED
      BY <2>2, <2>3
  <1>4. Len(all) \in Nat /\ \A m \in 0..n : m \in 0..Len(all)
    BY <1>1
  <1>5. ASSUME NEW m \in 0..n
        PROVE  Past(all, g, m, tab, s) = Past(undo, h, m, tab, s)
    <2>1. CASE Later(all, m, tab, s) = {} /\ Past(all, g, m, tab, s) = g[tab][s]
      <3>1. Later(undo, m, tab, s) = {}
        BY <1>2, <2>1
      <3>2. Past(undo, h, m, tab, s) = h[tab][s]
        BY <3>1 DEF Past
      <3>3. ASSUME NEW j \in 1..Len(new) PROVE ~ At(new[j], tab, s)
        <4>1. n + j \in (m + 1)..Len(all) /\ all[n + j] = new[j]
          BY <1>1 DEF k
        <4>2. QED
          BY <2>1, <4>1 DEF Later
      <3>4. QED
        BY <2>1, <3>2, <3>3
    <2>2. CASE \E i \in Later(all, m, tab, s) : \A j \in Later(all, m, tab, s) : i <= j
      <3>1. PICK i \in Later(all, m, tab, s) : \A j \in Later(all, m, tab, s) : i <= j
        BY <2>2
      <3>2. Past(all, g, m, tab, s) = all[i].before
        BY <1>4, <3>1, PastIs
      <3>3. CASE i \in 1..n /\ i \in Later(undo, m, tab, s)
        <4>1. \A j \in Later(undo, m, tab, s) : i <= j
          BY <1>2, <3>1
        <4>2. Past(undo, h, m, tab, s) = undo[i].before
          BY <1>1, <3>3, <4>1, PastIs DEF n
        <4>3. QED
          BY <1>1, <3>2, <3>3, <4>2
      <3>4. CASE i > n /\ all[i].before = h[tab][s]
        <4>1. Later(undo, m, tab, s) = {}
          <5> SUFFICES ASSUME NEW j \in Later(undo, m, tab, s) PROVE FALSE
            OBVIOUS
          <5>1. i <= j /\ j \in 1..n
            BY <1>2, <3>1
          <5>2. i \in Nat
            BY <1>1, <3>1 DEF Later
          <5>3. QED
            BY <1>1, <3>4, <5>1, <5>2
        <4>2. Past(undo, h, m, tab, s) = h[tab][s]
          BY <4>1 DEF Past
        <4>3. QED
          BY <3>2, <3>4, <4>2
      <3>5. QED
        BY <1>3, <1>4, <3>3, <3>4
    <2>3. QED
      BY <1>4, <2>1, <2>2, PastCases
  <1>6. ASSUME NEW j \in 1..k
        PROVE  Past(all, g, n + j, tab, s) \in {h[tab][s], g[tab][s]}
    <2>1. PICK m \in 0..Len(all) : m = n + j
      BY <1>1
    <2>2. ASSUME NEW i \in Later(all, m, tab, s), \A l \in Later(all, m, tab, s) : i <= l
          PROVE  Past(all, g, m, tab, s) = h[tab][s]
      <3>1. Past(all, g, m, tab, s) = all[i].before
        BY <1>4, <2>2, PastIs
      <3>2. i \notin 1..n
        BY <1>1, <2>1 DEF Later
      <3>3. QED
        BY <1>3, <3>1, <3>2
    <2>3. QED
      BY <1>4, <2>1, <2>2, PastCases
  <1>7. QED
    BY <1>5, <1>6 DEF n, k

(* A write changes rows that are t's alone, and records what was there. *)
LEMMA WriteChanges ==
  ASSUME NEW t \in Txn, RowsStay
  PROVE  TxInv /\ ChangesInv /\ Write(t) => ChangesInv'
  <1> SUFFICES ASSUME TxInv, ChangesInv, Write(t) PROVE ChangesInv'
    OBVIOUS
  <1>1. Typed /\ LocksRight
    BY DEF TxInv
  <1>2. PICK stmt : stmt = call[t]
    OBVIOUS
  <1>3. /\ HasLocks(t) /\ stmt.op # "select" /\ ~ ViolatesUnique(stmt)
        /\ heap' = Written(t, stmt).heap /\ tx' = [tx EXCEPT ![t].undo = Written(t, stmt).undo]
        /\ committed' = committed
    BY <1>2 DEF Write
  <1>4. /\ InCall(t) /\ stmt \in Stmt /\ stmt.table \in Table
        /\ stmt.op \in {"insert", "update", "delete"}
        /\ stmt.op = "insert" => Matching(heap, stmt) = {}
    <2>1. InCall(t) /\ stmt \in Stmt
      BY <1>2, <1>3, HasLocksRight
    <2>2. QED
      BY <1>3, <2>1, Distinct DEF ViolatesUnique
  <1>5. PICK tab \in Table : tab = stmt.table
    BY <1>4
  <1>6. PICK T : T = Targets(stmt)
    OBVIOUS
  <1>7. /\ T \in SUBSET Slot
        /\ \A s \in T : entries[Place(tab, s)].holders[t] = "Exclusive"
        /\ \A s \in T : /\ NewRow(t, stmt, s) \in AnyRow
                        /\ NewRow(t, stmt, s).by = t \/ NewRow(t, stmt, s) = NoRow
        /\ stmt.op = "update" => \A s \in T : /\ heap[tab][s] # NoRow
                                              /\ NewRow(t, stmt, s).id = heap[tab][s].id
        /\ stmt.op = "insert" => \A s \in T :
              /\ heap[tab][s] = NoRow /\ NewRow(t, stmt, s).id \in stmt.ids
              /\ \A x \in T : NewRow(t, stmt, x).id = NewRow(t, stmt, s).id => x = s
        /\ stmt.op = "delete" => \A s \in T : heap[tab][s] # NoRow /\ NewRow(t, stmt, s) = NoRow
    BY <1>1, <1>2, <1>3, <1>4, <1>5, <1>6, NewRows, TargetsLocked
  <1>8. PICK undo \in Seq(Record), new \in Seq(Record) :
           /\ undo = tx[t].undo /\ Written(t, stmt).undo = undo \o new
           /\ \A i \in 1..Len(new) : \E s \in T : new[i] = UndoRecord(t, stmt, s)
           /\ \A s \in T : \E i \in 1..Len(new) : new[i] = UndoRecord(t, stmt, s)
           /\ Differ(new)
    <2>1. PICK undo \in Seq(Record) : undo = tx[t].undo
      BY <1>1, Contexts
    <2>2. \E new \in Seq(Record) :
             /\ Written(t, stmt).undo = tx[t].undo \o new
             /\ \A i \in 1..Len(new) : \E s \in Targets(stmt) : new[i] = UndoRecord(t, stmt, s)
             /\ \A s \in Targets(stmt) : \E i \in 1..Len(new) : new[i] = UndoRecord(t, stmt, s)
             /\ \A i, j \in 1..Len(new) : new[i].slot = new[j].slot => i = j
      BY <1>1, <1>3, <1>4, WriteRight
    <2>3. PICK new \in Seq(Record) :
             /\ Written(t, stmt).undo = undo \o new
             /\ \A i \in 1..Len(new) : \E s \in T : new[i] = UndoRecord(t, stmt, s)
             /\ \A s \in T : \E i \in 1..Len(new) : new[i] = UndoRecord(t, stmt, s)
             /\ Differ(new)
      BY <1>6, <2>1, <2>2 DEF Differ
    <2>4. QED
      BY <2>1, <2>3
  <1>9. PICK all : all = undo \o new
    OBVIOUS
  <1>10. /\ tx'[t].undo = all /\ tx[t].undo = undo
         /\ \A u \in Txn \ {t} : tx'[u].undo = tx[u].undo
         /\ StaysFinal
    <2>1. tx \in [Txn -> Context] /\ tx[t] \in Context
      BY <1>1 DEF Typed
    <2>2. all \in Seq(Record)
      BY <1>9
    <2>3. PICK d : d = [tx[t] EXCEPT !.undo = all]
      OBVIOUS
    <2>4. d.undo = all /\ d.state = tx[t].state
      BY <2>1, <2>2, <2>3, ContextSet
    <2>5. tx' = [tx EXCEPT ![t] = d]
      BY <1>3, <1>8, <1>9, <2>3
    <2>6. tx'[t] = d /\ \A u \in Txn \ {t} : tx'[u] = tx[u]
      BY <2>1, <2>5
    <2>7. QED
      BY <1>8, <2>4, <2>6 DEF StaysFinal
  <1>11. /\ heap' \in Heaps
         /\ \A b \in Table, s \in Slot :
               heap'[b][s] = IF b = tab /\ s \in T THEN NewRow(t, stmt, s) ELSE heap[b][s]
    BY <1>1, <1>3, <1>4, <1>5, <1>6, WriteRight
  <1>12. /\ stmt.op # "delete" => \A s \in T : NewRow(t, stmt, s) # NoRow
         /\ stmt.op = "insert" => \A s \in T : NewRow(t, stmt, s).id # 0
    <2>1. stmt.op # "delete" => \A s \in T : NewRow(t, stmt, s).id # 0
      <3>1. stmt.ids \in SUBSET Id /\ 0 \notin Id
        BY <1>4, Distinct, BoundsAssumption
      <3>2. \A s \in T : heap[tab][s] \in AnyRow
        BY <1>1, <1>7 DEF Typed
      <3>3. QED
        BY <1>4, <1>7, <3>1, <3>2, Distinct
    <2>2. QED
      BY <2>1 DEF NoRow
  <1>13. /\ Len(undo) \in Nat /\ Len(new) \in Nat /\ Len(all) = Len(undo) + Len(new)
         /\ \A i \in 1..Len(all) : i \in 1..Len(undo) \/ \E j \in 1..Len(new) : i = Len(undo) + j
         /\ \A i \in 1..Len(undo) :
               /\ i \in 1..Len(all) /\ all[i] = undo[i]
               /\ FirstAt(all, i) <=> FirstAt(undo, i)
         /\ \A j \in 1..Len(new) :
               /\ Len(undo) + j \in 1..Len(all) /\ all[Len(undo) + j] = new[j]
               /\ FirstAt(all, Len(undo) + j) <=>
                     \A i \in 1..Len(undo) : ~ At(undo[i], new[j].table, new[j].slot)
    <2>1. Grown(undo, new, all)
      BY <1>8, <1>9, LogGrows
    <2>2. QED
      BY <2>1 DEF Grown
  <1>14. /\ \A j \in 1..Len(new) : \E s \in T :
               /\ new[j].op = stmt.op /\ new[j].table = tab /\ new[j].slot = s /\ At(new[j], tab, s)
               /\ new[j].before = heap[tab][s] /\ new[j].after = NewRow(t, stmt, s)
         /\ \A s \in T : \E j \in 1..Len(new) : At(new[j], tab, s)
    <2>1. \A s : LET rec == UndoRecord(t, stmt, s)
                 IN  /\ rec.op = stmt.op /\ rec.table = tab /\ rec.slot = s /\ At(rec, tab, s)
                     /\ rec.before = heap[tab][s] /\ rec.after = NewRow(t, stmt, s)
      BY <1>5 DEF UndoRecord, At
    <2>2. \A j \in 1..Len(new) : \E s \in T : new[j] = UndoRecord(t, stmt, s)
      BY <1>8
    <2>3. \A s \in T : \E j \in 1..Len(new) : new[j] = UndoRecord(t, stmt, s)
      BY <1>8
    <2>4. QED
      BY <2>1, <2>2, <2>3
  <1>15. ASSUME NEW b, NEW x
         PROVE  Touched(t, b, x)' <=> Touched(t, b, x) \/ (b = tab /\ x \in T)
    <2>1. (\E i \in 1..Len(all) : At(all[i], b, x))
             <=> \/ \E i \in 1..Len(undo) : At(undo[i], b, x)
                 \/ \E j \in 1..Len(new) : At(new[j], b, x)
      <3> DEFINE P(i) == At(all[i], b, x)
      <3>1. (\E i \in 1..Len(all) : P(i)) <=> \/ \E i \in 1..Len(undo) : P(i)
                                              \/ \E j \in 1..Len(new) : P(Len(undo) + j)
        <4> HIDE DEF P
        <4>1. QED
          BY <1>13
      <3>2. QED
        BY <1>13, <3>1
    <2>2. (\E j \in 1..Len(new) : At(new[j], b, x)) <=> b = tab /\ x \in T
      BY <1>14 DEF At
    <2>3. QED
      BY <1>10, <2>1, <2>2 DEF Touched
  <1>16. \A u \in Txn \ {t} : \A b, x : Touched(u, b, x)' <=> Touched(u, b, x)
    BY <1>10 DEF Touched
  <1>17. \A s \in T : \A u \in Txn \ {t} : ~ Touched(u, tab, s)
    <2>1. \A s \in T : \A u \in Txn \ {t} : entries[Place(tab, s)].holders[u] = "None"
      BY <1>1, <1>7, ChangesApart
    <2>2. QED
      BY <1>7, <2>1, TouchedRows
  <1>18. ASSUME NEW b \in Table, NEW s \in Slot, NEW x \in Slot,
                NEW p \in {heap[b][s], heap'[b][s]}, NEW q \in {heap[b][x], heap'[b][x]},
                p.id # 0, p.id = q.id
         PROVE  s = x
    <2>1. heap[b][s].id # 0 /\ heap[b][s].id = heap[b][x].id => s = x
      BY DEF ChangesInv, KeysUnique
    <2>2. NoRow.id = 0
      BY DEF NoRow
    <2>3. CASE stmt.op = "update"
      BY <1>7, <1>11, <1>18, <2>1, <2>3
    <2>4. CASE stmt.op = "delete"
      BY <1>7, <1>11, <1>18, <2>1, <2>2, <2>4
    <2>5. CASE stmt.op = "insert"
      <3>1. \A y \in Slot : heap[tab][y] # NoRow => heap[tab][y].id \notin stmt.ids
        BY <1>4, <1>5, <2>5 DEF Matching, Occupied
      <3>2. \A y \in Slot : heap[tab][y] # NoRow <=> heap[tab][y].id # 0
        BY <1>1, Distinct DEF Typed
      <3>3. ASSUME NEW y \in T, NEW r \in {heap[tab][y], heap'[tab][y]}, r.id # 0
            PROVE  r = NewRow(t, stmt, y) /\ r.id \in stmt.ids
        BY <1>7, <1>11, <2>2, <2>5, <3>3
      <3>4. ASSUME NEW y \in Slot, ~ (b = tab /\ y \in T), NEW r \in {heap[b][y], heap'[b][y]}
            PROVE  r = heap[b][y]
        BY <1>11, <3>4
      <3>5. CASE b = tab /\ s \in T /\ x \in T
        <4>1. p = NewRow(t, stmt, s) /\ q = NewRow(t, stmt, x)
          BY <1>18, <3>3, <3>5
        <4>2. QED
          BY <1>7, <1>18, <2>5, <3>5, <4>1
      <3>6. CASE b = tab /\ s \in T /\ x \notin T
        <4>1. p.id \in stmt.ids /\ q = heap[tab][x]
          BY <1>18, <3>3, <3>4, <3>6
        <4>2. QED
          BY <1>18, <3>1, <3>2, <4>1
      <3>7. CASE b = tab /\ s \notin T /\ x \in T
        <4>1. q.id \in stmt.ids /\ p = heap[tab][s]
          BY <1>18, <3>3, <3>4, <3>7
        <4>2. QED
          BY <1>18, <3>1, <3>2, <4>1
      <3>8. CASE b # tab \/ (s \notin T /\ x \notin T)
        <4>1. p = heap[b][s] /\ q = heap[b][x]
          BY <3>4, <3>8
        <4>2. QED
          BY <1>18, <2>1, <4>1
      <3>9. QED
        BY <3>5, <3>6, <3>7, <3>8
    <2>6. QED
      BY <1>4, <2>3, <2>4, <2>5
  <1>19. KeysUnique'
    BY <1>18 DEF KeysUnique
  <1>20. \A u \in Txn \ {t} : Recorded(u)'
    <2> SUFFICES ASSUME NEW u \in Txn \ {t} PROVE Recorded(u)'
      OBVIOUS
    <2>1. \A s \in T : entries[Place(tab, s)].holders[u] = "None"
      BY <1>1, <1>7, ChangesApart
    <2>2. "None" # "Exclusive"
      OBVIOUS
    <2>3. \A b \in Table, s \in Slot :
             entries[Place(b, s)].holders[u] = "Exclusive" => heap'[b][s] = heap[b][s]
      BY <1>11, <2>1, <2>2
    <2>4. Recorded(u) /\ tx'[u].undo = tx[u].undo
      BY <1>10 DEF ChangesInv
    <2>5. QED
      BY <1>10, <1>19, <2>3, <2>4, LogStays
  <1>21. ASSUME NEW b \in Table, NEW s \in Slot
         PROVE  /\ \A m \in 0..Len(undo) :
                      Past(all, heap', m, b, s) = Past(undo, heap, m, b, s)
                /\ \A j \in 1..Len(new) :
                      Past(all, heap', Len(undo) + j, b, s) \in {heap[b][s], heap'[b][s]}
    <2>1. PICK h, g : h = heap /\ g = heap'
      OBVIOUS
    <2>2. \A j \in 1..Len(new) : At(new[j], b, s) => new[j].before = h[b][s]
      BY <1>14, <2>1 DEF At
    <2>3. (\A j \in 1..Len(new) : ~ At(new[j], b, s)) => g[b][s] = h[b][s]
      BY <1>11, <1>14, <2>1
    <2>4. Grown(undo, new, all)
      BY <1>8, <1>9, LogGrows
    <2>5. /\ \A m \in 0..Len(undo) : Past(all, g, m, b, s) = Past(undo, h, m, b, s)
          /\ \A j \in 1..Len(new) : Past(all, g, Len(undo) + j, b, s) \in {h[b][s], g[b][s]}
      BY <2>2, <2>3, <2>4, PastGrows, Zenon
    <2>6. QED
      BY <2>1, <2>5
  <1>22. ASSUME NEW i \in 1..Len(undo)
         PROVE  /\ Shape(all[i])
                /\ all[i].after = Past(all, heap', i, all[i].table, all[i].slot)
                /\ FirstAt(all, i) => Final(all[i].before.by)'
    <2>1. /\ undo[i].table \in Table /\ undo[i].slot \in Slot /\ undo[i].before \in AnyRow
          /\ Shape(undo[i])
          /\ undo[i].after = Past(undo, heap, i, undo[i].table, undo[i].slot)
          /\ FirstAt(undo, i) => Final(undo[i].before.by)
      BY <1>1, <1>10, Contexts DEF ChangesInv, Recorded
    <2>2. all[i] = undo[i] /\ (FirstAt(all, i) <=> FirstAt(undo, i)) /\ i \in 0..Len(undo)
      BY <1>13
    <2>3. all[i].after = Past(all, heap', i, all[i].table, all[i].slot)
      BY <1>21, <2>1, <2>2
    <2>4. FirstAt(all, i) => Final(all[i].before.by)'
      <3>1. PICK r \in AnyRow : r = undo[i].before
        BY <2>1
      <3>2. FirstAt(all, i) => Final(r.by)'
        BY <1>10, <2>1, <2>2, <3>1, FinalStays
      <3>3. QED
        BY <2>2, <3>1, <3>2
    <2>5. QED
      BY <2>1, <2>2, <2>3, <2>4
  <1>23. ASSUME NEW j \in 1..Len(new)
         PROVE  LET i == Len(undo) + j
                IN  /\ Shape(all[i])
                    /\ all[i].after = Past(all, heap', i, all[i].table, all[i].slot)
                    /\ FirstAt(all, i) => Final(all[i].before.by)'
    <2>1. PICK i : i = Len(undo) + j
      OBVIOUS
    <2>2. PICK s \in T : /\ new[j].op = stmt.op /\ new[j].table = tab /\ new[j].slot = s
                         /\ new[j].before = heap[tab][s] /\ new[j].after = NewRow(t, stmt, s)
      BY <1>14
    <2>3. /\ all[i] = new[j] /\ s \in Slot /\ heap[tab][s] \in AnyRow
          /\ FirstAt(all, i) <=> \A k \in 1..Len(undo) : ~ At(undo[k], tab, s)
      BY <1>1, <1>7, <1>13, <2>1, <2>2 DEF Typed
    <2>4. heap'[tab][s] = NewRow(t, stmt, s)
      BY <1>11, <2>3
    <2>5. FirstAt(all, i) <=> ~ Touched(t, tab, s)
      BY <1>10, <2>3 DEF Touched
    <2>6. Shape(new[j])
      BY <1>4, <1>7, <1>12, <2>2 DEF Shape
    <2>7. all[i].after = Past(all, heap', i, tab, s)
      <3>1. ASSUME NEW k \in (i + 1)..Len(all) PROVE ~ At(all[k], tab, s)
        <4>1. k \notin 1..Len(undo) /\ k \in 1..Len(all)
          BY <1>13, <2>1
        <4>2. PICK l \in 1..Len(new) : k = Len(undo) + l
          BY <1>13, <4>1
        <4>3. l # j
          BY <1>13, <2>1, <4>2
        <4>4. all[k] = new[l] /\ new[l].slot # new[j].slot
          BY <1>8, <1>13, <4>2, <4>3 DEF Differ
        <4>5. QED
          BY <2>2, <4>4 DEF At
      <3>2. PICK g : g = heap'
        OBVIOUS
      <3>3. Past(all, g, i, tab, s) = g[tab][s]
        BY <3>1, PastLast
      <3>4. QED
        BY <2>2, <2>3, <2>4, <3>2, <3>3
    <2>8. FirstAt(all, i) => Final(all[i].before.by)'
      <3> SUFFICES ASSUME FirstAt(all, i) PROVE Final(all[i].before.by)'
        OBVIOUS
      <3>1. PICK r \in AnyRow : r = heap[tab][s]
        BY <2>3
      <3>2. Final(r.by) \/ (r.by \in Txn /\ Touched(r.by, tab, s))
        BY <2>3, <3>1 DEF ChangesInv, WritersKnown, Known
      <3>3. \A u \in Txn : ~ Touched(u, tab, s)
        BY <1>17, <2>5
      <3>4. Final(r.by)'
        BY <1>10, <3>2, <3>3, FinalStays
      <3>5. QED
        BY <2>2, <2>3, <3>1, <3>4
    <2>9. QED
      BY <2>1, <2>2, <2>3, <2>6, <2>7, <2>8
  <1>24. Recorded(t)'
    <2>1. ASSUME NEW i \in 1..Len(all)
          PROVE  /\ Shape(all[i])
                 /\ all[i].after = Past(all, heap', i, all[i].table, all[i].slot)
                 /\ FirstAt(all, i) => Final(all[i].before.by)'
      <3>1. CASE i \in 1..Len(undo)
        BY <1>22, <3>1
      <3>2. CASE i \notin 1..Len(undo)
        <4>1. PICK j \in 1..Len(new) : i = Len(undo) + j
          BY <1>13, <3>2
        <4>2. QED
          BY <1>23, <4>1
      <3>3. QED
        BY <3>1, <3>2
    <2>2. ASSUME NEW m \in 0..Len(all), NEW b \in Table, NEW s \in Slot, NEW x \in Slot,
                 Past(all, heap', m, b, s).id # 0,
                 Past(all, heap', m, b, s).id = Past(all, heap', m, b, x).id
          PROVE  s = x
      <3>1. CASE m \in 0..Len(undo)
        <4>1. /\ Past(all, heap', m, b, s) = Past(undo, heap, m, b, s)
              /\ Past(all, heap', m, b, x) = Past(undo, heap, m, b, x)
          BY <1>21, <3>1
        <4>2. Recorded(t)
          BY DEF ChangesInv
        <4>3. QED
          BY <1>10, <2>2, <3>1, <4>1, <4>2, PastUnique
      <3>2. CASE m \notin 0..Len(undo)
        <4>1. PICK j \in 1..Len(new) : m = Len(undo) + j
          <5>1. m \in 1..Len(all) /\ m \notin 1..Len(undo)
            BY <1>13, <3>2
          <5>2. QED
            BY <1>13, <5>1
        <4>2. /\ Past(all, heap', m, b, s) \in {heap[b][s], heap'[b][s]}
              /\ Past(all, heap', m, b, x) \in {heap[b][x], heap'[b][x]}
          BY <1>21, <4>1
        <4>3. QED
          BY <1>18, <2>2, <4>2
      <3>3. QED
        BY <3>1, <3>2
    <2>3. QED
      BY <1>10, <2>1, <2>2 DEF Recorded
  <1>25. WritersKnown'
    <2> SUFFICES ASSUME NEW b \in Table, NEW s \in Slot, NEW r \in AnyRow, heap'[b][s] = r
                 PROVE  Known(r.by, b, s)'
      BY DEF WritersKnown
    <2>1. CASE b = tab /\ s \in T
      <3>1. r.by = t \/ r = NoRow
        BY <1>7, <1>11, <2>1
      <3>2. NoRow.by = 0
        BY DEF NoRow
      <3>3. QED
        BY <1>15, <2>1, <3>1, <3>2 DEF Known, Final
    <2>2. CASE ~ (b = tab /\ s \in T)
      <3>1. heap[b][s] = r
        BY <1>11, <2>2
      <3>2. Final(r.by) \/ (r.by \in Txn /\ Touched(r.by, b, s))
        BY <3>1 DEF ChangesInv, WritersKnown, Known
      <3>3. Final(r.by) => Final(r.by)'
        BY <1>10, FinalStays
      <3>4. r.by \in Txn /\ Touched(r.by, b, s) => Touched(r.by, b, s)'
        BY <1>15, <1>16
      <3>5. QED
        BY <3>2, <3>3, <3>4 DEF Known
    <2>3. QED
      BY <2>1, <2>2
  <1>26. ASSUME NEW b \in Table, NEW s \in Slot, NEW r
         PROVE  IsBase(b, s, r)' <=> IsBase(b, s, r)
    <2>1. \A u \in Txn \ {t} : WasBefore(u, b, s, r)' <=> WasBefore(u, b, s, r)
      BY <1>10 DEF WasBefore
    <2>2. WasBefore(t, b, s, r)' <=> \/ WasBefore(t, b, s, r)
                                     \/ \E j \in 1..Len(new) : /\ At(new[j], b, s)
                                                               /\ FirstAt(all, Len(undo) + j)
                                                               /\ r = new[j].before
      <3> DEFINE P(i) == At(all[i], b, s) /\ FirstAt(all, i) /\ r = all[i].before
      <3>1. WasBefore(t, b, s, r)' <=> \E i \in 1..Len(all) : P(i)
        BY <1>10 DEF WasBefore
      <3>2. WasBefore(t, b, s, r) <=> \E i \in 1..Len(undo) : P(i)
        BY <1>10, <1>13 DEF WasBefore
      <3>3. \A j \in 1..Len(new) :
               P(Len(undo) + j) <=> /\ At(new[j], b, s)
                                    /\ FirstAt(all, Len(undo) + j)
                                    /\ r = new[j].before
        BY <1>13
      <3>4. /\ \A i \in 1..Len(all) : i \in 1..Len(undo) \/ \E j \in 1..Len(new) : i = Len(undo) + j
            /\ \A i \in 1..Len(undo) : i \in 1..Len(all)
            /\ \A j \in 1..Len(new) : Len(undo) + j \in 1..Len(all)
        BY <1>13
      <3> HIDE DEF P
      <3>5. (\E i \in 1..Len(all) : P(i)) <=> \/ \E i \in 1..Len(undo) : P(i)
                                              \/ \E j \in 1..Len(new) : P(Len(undo) + j)
        BY <3>4
      <3>6. QED
        BY <3>1, <3>2, <3>3, <3>5
    <2>3. \A j \in 1..Len(new) : At(new[j], b, s) =>
             /\ b = tab /\ s \in T /\ new[j].before = heap[tab][s]
             /\ FirstAt(all, Len(undo) + j) <=> ~ Touched(t, b, s)
      <3> SUFFICES ASSUME NEW j \in 1..Len(new), At(new[j], b, s)
                   PROVE  /\ b = tab /\ s \in T /\ new[j].before = heap[tab][s]
                          /\ FirstAt(all, Len(undo) + j) <=> ~ Touched(t, b, s)
        OBVIOUS
      <3>1. b = tab /\ s \in T /\ new[j].before = heap[tab][s]
        BY <1>14 DEF At
      <3>2. new[j].table = b /\ new[j].slot = s
        BY DEF At
      <3>3. FirstAt(all, Len(undo) + j) <=> \A i \in 1..Len(undo) : ~ At(undo[i], b, s)
        BY <1>13, <3>2
      <3>4. QED
        BY <1>10, <3>1, <3>3 DEF Touched
    <2>4. CASE Touched(t, b, s) \/ ~ (b = tab /\ s \in T)
      <3>1. WasBefore(t, b, s, r)' <=> WasBefore(t, b, s, r)
        BY <2>2, <2>3, <2>4
      <3>2. (\A u \in Txn : ~ Touched(u, b, s)') <=> (\A u \in Txn : ~ Touched(u, b, s))
        <4>1. Touched(t, b, s)' <=> Touched(t, b, s)
          BY <1>15, <2>4
        <4>2. QED
          BY <1>16, <4>1
      <3>3. (\A u \in Txn : ~ Touched(u, b, s)) => heap'[b][s] = heap[b][s]
        BY <1>11, <2>4
      <3>4. QED
        BY <2>1, <3>1, <3>2, <3>3 DEF IsBase
    <2>5. CASE ~ Touched(t, b, s) /\ b = tab /\ s \in T
      <3>1. \A u \in Txn : ~ Touched(u, b, s) /\ ~ WasBefore(u, b, s, r)
        BY <1>17, <2>5 DEF Touched, WasBefore
      <3>2. IsBase(b, s, r) <=> r = heap[tab][s]
        BY <2>5, <3>1 DEF IsBase
      <3>3. \E j \in 1..Len(new) : At(new[j], b, s)
        BY <1>14, <2>5
      <3>4. WasBefore(t, b, s, r)' <=> r = heap[tab][s]
        BY <2>2, <2>3, <2>5, <3>1, <3>3
      <3>5. Touched(t, b, s)'
        BY <1>15, <2>5
      <3>6. QED
        BY <2>1, <3>1, <3>2, <3>4, <3>5 DEF IsBase
    <2>6. QED
      BY <2>4, <2>5
  <1>27. CommittedRight'
    BY <1>3, <1>26 DEF ChangesInv, CommittedRight
  <1>28. QED
    BY <1>19, <1>20, <1>24, <1>25, <1>27 DEF ChangesInv

(* At the start nothing has been changed. *)
LEMMA ChangesInvInit ==
  Init => ChangesInv
  <1> SUFFICES ASSUME Init PROVE ChangesInv
    OBVIOUS
  <1> DEFINE row(s) == IF s <= Seeded THEN [id |-> s, by |-> 0] ELSE NoRow
  <1>1. \A tab \in Table, s \in Slot : heap[tab][s] = row(s)
    BY DEF Init
  <1>2. \A t \in Txn : tx[t].undo = <<>>
    BY DEF Init
  <1>3. \A t \in Txn : \A i \in 1..Len(tx[t].undo) : FALSE
    BY <1>2
  <1>4. \A t \in Txn : \A tab, s, r : ~ Touched(t, tab, s) /\ ~ WasBefore(t, tab, s, r)
    BY <1>3 DEF Touched, WasBefore
  <1>5. \A s \in Slot : /\ row(s).by = 0 /\ (row(s).id # 0 <=> s \in 1..Seeded)
                        /\ (row(s).id # 0 => row(s) = [id |-> s, by |-> 0] /\ row(s).id = s)
                        /\ (row(s) # NoRow <=> s \in 1..Seeded)
    <2> SUFFICES ASSUME NEW s \in Slot
                 PROVE  /\ row(s).by = 0 /\ (row(s).id # 0 <=> s \in 1..Seeded)
                        /\ (row(s).id # 0 => row(s) = [id |-> s, by |-> 0] /\ row(s).id = s)
                        /\ (row(s) # NoRow <=> s \in 1..Seeded)
      OBVIOUS
    <2>1. s \in Nat /\ s # 0 /\ Seeded \in Nat /\ (s \in 1..Seeded <=> s <= Seeded)
      BY BoundsAssumption DEF Slot
    <2>2. QED
      BY <2>1 DEF NoRow
  <1> HIDE DEF row
  <1>6. WritersKnown
    BY <1>1, <1>5 DEF WritersKnown, Known, Final
  <1>7. KeysUnique
    BY <1>1, <1>5 DEF KeysUnique
  <1>8. CommittedRight
    <2> SUFFICES ASSUME NEW tab \in Table, NEW r
                 PROVE  r \in committed[tab] <=> r # NoRow /\ \E s \in Slot : IsBase(tab, s, r)
      BY DEF CommittedRight
    <2>1. \A s \in Slot : IsBase(tab, s, r) <=> r = row(s)
      BY <1>1, <1>4 DEF IsBase
    <2>2. 1..Seeded \subseteq Slot
      BY BoundsAssumption DEF Slot
    <2>3. r \in committed[tab] <=> \E i \in 1..Seeded : r = [id |-> i, by |-> 0]
      BY DEF Init
    <2>4. \A i \in 1..Seeded : row(i) = [id |-> i, by |-> 0]
      BY <1>5, <2>2
    <2>5. QED
      BY <1>5, <2>1, <2>2, <2>3, <2>4
  <1>9. \A t \in Txn : Recorded(t)
    <2> SUFFICES ASSUME NEW t \in Txn PROVE Recorded(t)
      OBVIOUS
    <2>1. PICK undo : undo = tx[t].undo
      OBVIOUS
    <2>2. Len(undo) = 0 /\ \A m \in 0..Len(undo) : (m + 1)..Len(undo) = {}
      BY <1>2, <2>1
    <2>3. \A m \in 0..Len(undo) : \A tab, s : Past(undo, heap, m, tab, s) = heap[tab][s]
      BY <2>2, PastLast
    <2>4. QED
      BY <1>3, <1>7, <2>1, <2>3 DEF Recorded, KeysUnique
  <1>10. QED
    BY <1>6, <1>7, <1>8, <1>9 DEF ChangesInv

(* A deadlock's victim is active, until it is aborted. *)
VictimActive == run.victim # 0 => tx[run.victim].state = "Active"

LEMMA VictimActiveNext ==
  ASSUME Blocking, RowsStay
  PROVE  TxInv /\ VictimActive /\ [Next]_vars => VictimActive'
  <1> SUFFICES ASSUME TxInv, VictimActive, [Next]_vars PROVE VictimActive'
    OBVIOUS
  <1>1. NoRun.victim = 0 /\ NoRun.txn = 0
    BY DEF NoRun
  <1>2. ASSUME run' = NoRun \/ (Idle /\ run' = run) PROVE VictimActive'
    BY <1>1, <1>2 DEF VictimActive, Idle
  <1>3. ASSUME NEW t \in Txn, run.txn = t PROVE run \in Attempt
    BY <1>1, <1>3, BoundsAssumption DEF TxInv, RunRight, Txn
  <1>4. CASE UNCHANGED vars
    BY <1>4 DEF vars, VictimActive
  <1>5. CASE Finished
    BY <1>4, <1>5 DEF Finished
  <1>6. ASSUME NEW t \in Txn, \/ \E level \in Level : Begin(t, level)
                              \/ Commit(t) \/ CommitRefused(t) \/ Rollback(t)
        PROVE  VictimActive'
    BY <1>2, <1>6 DEF Begin, Commit, CommitRefused, Rollback
  <1>7. ASSUME NEW t \in Txn, NEW stmt, StartAttempt(t, stmt) PROVE VictimActive'
    BY <1>7 DEF StartAttempt, VictimActive
  <1>8. ASSUME NEW t \in Txn, (\E w \in Work : Issue(t, w[2])) \/ Retry(t) PROVE VictimActive'
    BY <1>2, <1>7, <1>8 DEF Issue, Retry, Return
  <1>9. ASSUME NEW t \in Txn, LockRefused(t) \/ Select(t) \/ Write(t) \/ StatementFails(t)
        PROVE  VictimActive'
    BY <1>2, <1>9 DEF LockRefused, WouldBlock, Return, Select, Write, StatementFails
  <1>10. ASSUME NEW t \in Txn, LockGranted(t) PROVE VictimActive'
    <2>1. run \in Attempt /\ run.victim = 0 /\ run' = [run EXCEPT !.keys = Tail(run.keys), !.again = FALSE]
      BY <1>3, <1>10 DEF LockGranted, AcquireNext
    <2>2. run'.victim = 0
      BY <2>1 DEF Attempt
    <2>3. QED
      BY <2>2 DEF VictimActive
  <1>11. ASSUME NEW t \in Txn, AbortVictim(t) \/ AbortVictimFails(t) PROVE VictimActive'
    <2>1. AbortVictim(t) /\ run \in Attempt
      BY <1>3, <1>11, VictimUndone DEF AbortVictim
    <2>2. run' = NoRun \/ run' = [run EXCEPT !.victim = 0, !.again = TRUE]
      BY <2>1 DEF AbortVictim, Return
    <2>3. run'.victim = 0
      BY <1>1, <2>1, <2>2 DEF Attempt
    <2>4. QED
      BY <2>3 DEF VictimActive
  <1>12. ASSUME NEW t \in Txn, DeadlockFound(t) PROVE VictimActive'
    <2>1. PICK v \in Victims(t) : run' = [run EXCEPT !.victim = v]
      BY <1>12 DEF DeadlockFound
    <2>2. run'.victim = v /\ v \in Txn
      BY <1>3, <1>12, <2>1 DEF DeadlockFound, AcquireNext, Attempt, Victims
    <2>3. PICK p \in Cycles(t) : v \in Range(p)
      BY <2>1 DEF Victims, CyclesFound
    <2>4. \E u : <<v, u>> \in LM!WaitForEdges(entries')
      <3>1. PICK n \in 2..NTxn : p \in [1..n -> Txn]
        BY <2>3 DEF Cycles
      <3>2. n \in Nat /\ Len(p) = n /\ DOMAIN p = 1..n
        BY <3>1, BoundsAssumption
      <3>3. PICK i \in 1..n : v = p[i] /\ (i = Len(p) \/ i \in 1..(Len(p) - 1))
        BY <2>3, <3>2 DEF Range
      <3>4. /\ \A j \in 1..(Len(p) - 1) : <<p[j], p[j + 1]>> \in LM!WaitForEdges(entries')
            /\ <<p[Len(p)], t>> \in LM!WaitForEdges(entries')
        BY <2>3 DEF Cycles
      <3>5. QED
        BY <3>3, <3>4
    <2>5. TxInv'
      BY <1>12, DeadlockFoundKept
    <2>6. PICK k \in Key : \E w \in LMP!Requests(entries'[k]) : w.txn = v
      <3>1. PICK u : \E k \in Key : <<v, u>> \in LM!ConflictEdges(entries'[k]) \cup LM!QueueEdges(entries'[k])
        BY <2>4 DEF LM!WaitForEdges
      <3>2. PICK k \in Key : <<v, u>> \in LM!ConflictEdges(entries'[k]) \cup LM!QueueEdges(entries'[k])
        BY <3>1
      <3>3. PICK q : q = entries'[k].waiters
        OBVIOUS
      <3>4. Len(q) \in Nat
        <4>1. LMP!EntryInv(entries[k])'
          BY <2>5, LockTable DEF TxInv, LocksRight, LMP!LockInv
        <4>2. QED
          BY <3>3, <4>1 DEF LMP!EntryInv, LMP!Entry
      <3>5. \E i \in 1..Len(q) : q[i].txn = v
        BY <3>2, <3>3, <3>4 DEF LM!ConflictEdges, LM!QueueEdges
      <3>6. QED
        BY <3>3, <3>5 DEF LMP!Requests
    <2>7. tx'[v].state = "Active"
      BY <2>2, <2>5, <2>6 DEF TxInv, TxnInv, RequestsWanted
    <2>8. QED
      BY <2>2, <2>7 DEF VictimActive
  <1>13. QED
    BY <1>4, <1>5, <1>6, <1>8, <1>9, <1>10, <1>11, <1>12 DEF Next, Step

(* A step that replaces one context. *)
LEMMA OneContext ==
  ASSUME TxInv, NEW v \in Txn, NEW c, tx' = [tx EXCEPT ![v] = c],
         tx[v].state = "Committed" => c.state = "Committed"
  PROVE  /\ StaysFinal /\ tx'[v] = c
         /\ c.undo = tx[v].undo => \A u \in Txn : tx'[u].undo = tx[u].undo
         /\ c.undo = <<>> => LogEmptied(v)
  <1>1. tx \in [Txn -> Context]
    BY DEF TxInv, Typed
  <1>2. tx'[v] = c /\ \A u \in Txn \ {v} : tx'[u] = tx[u]
    BY <1>1
  <1>3. QED
    BY <1>2 DEF StaysFinal, LogEmptied

(* Every step keeps what the undo logs and the commits are worth. *)
LEMMA ChangesInvNext ==
  ASSUME Blocking, RowsStay
  PROVE  TxInv /\ VictimActive /\ ChangesInv /\ [Next]_vars => ChangesInv'
  <1> SUFFICES ASSUME TxInv, VictimActive, ChangesInv, [Next]_vars PROVE ChangesInv'
    OBVIOUS
  <1>1. tx \in [Txn -> Context] /\ \A t \in Txn : tx[t] \in Context
    BY DEF TxInv, Typed
  <1>2. ASSUME heap' = heap, committed' = committed, tx' = tx PROVE ChangesInv'
    BY <1>2, ChangesStay DEF StaysFinal
  <1>3. ASSUME NEW t \in Txn, NEW st \in State, tx[t].state # "Committed",
               tx' = [tx EXCEPT ![t] = [tx[t] EXCEPT !.state = st]],
               heap' = heap, committed' = committed
        PROVE  ChangesInv'
    <2>1. PICK c : c = [tx[t] EXCEPT !.state = st]
      OBVIOUS
    <2>2. c.undo = tx[t].undo
      BY <1>1, <2>1, ContextSet
    <2>3. QED
      BY <1>3, <2>1, <2>2, OneContext, ChangesStay
  <1>4. ASSUME NEW v \in Txn, NEW c, tx[v].state # "Committed", tx' = [tx EXCEPT ![v] = c],
               c.undo = <<>>, heap' = Undo(heap, tx[v].undo).heap, committed' = committed
        PROVE  ChangesInv'
    BY <1>4, OneContext, UndoneChanges
  <1>5. ASSUME NEW t \in Txn, NEW level \in Level, Begin(t, level) PROVE ChangesInv'
    <2>1. PICK c : c = [tx[t] EXCEPT !.state = "Active", !.level = level]
      OBVIOUS
    <2>2. c.undo = tx[t].undo
      BY <1>1, <2>1 DEF Context
    <2>3. /\ tx[t].state = "Unborn" /\ tx' = [tx EXCEPT ![t] = c]
          /\ heap' = heap /\ committed' = committed
      BY <1>1, <1>5, <2>1 DEF Begin
    <2>4. QED
      BY <2>2, <2>3, OneContext, ChangesStay
  <1>6. ASSUME NEW t \in Txn, \/ \E w \in Work : Issue(t, w[2])
                              \/ Retry(t) \/ LockGranted(t) \/ LockRefused(t)
                              \/ DeadlockFound(t) \/ Select(t)
        PROVE  ChangesInv'
    BY <1>2, <1>6 DEF Issue, Retry, LockGranted, LockRefused, DeadlockFound, AcquireNext, Select
  <1>7. CASE UNCHANGED vars \/ Finished
    BY <1>2, <1>7 DEF Finished, vars
  <1>8. ASSUME NEW t \in Txn, AbortVictim(t) PROVE ChangesInv'
    <2>1. PICK v : v = run.victim
      OBVIOUS
    <2>2. /\ v \in Txn /\ tx' = [tx EXCEPT ![v] = AbortedContext(tx[v])]
          /\ heap' = Undo(heap, tx[v].undo).heap /\ committed' = committed /\ tx[v].state = "Active"
      BY <1>8, <2>1, BoundsAssumption
         DEF AbortVictim, VictimActive, TxInv, RunRight, Attempt, NoRun, Txn
    <2>3. AbortedContext(tx[v]).undo = <<>>
      BY <1>1, <2>2 DEF AbortedContext, Context
    <2>4. QED
      BY <1>4, <2>2, <2>3
  <1>9. ASSUME NEW t \in Txn, AbortVictimFails(t) PROVE ChangesInv'
    BY <1>9, VictimUndone
  <1>10. ASSUME NEW t \in Txn, Write(t) PROVE ChangesInv'
    BY <1>10, WriteChanges
  <1>11. ASSUME NEW t \in Txn, StatementFails(t) PROVE ChangesInv'
    <2>1. tx[t].state = "Active" /\ "Aborted" \in State
      BY <1>11, HasLocksRight DEF StatementFails, State
    <2>2. QED
      BY <1>1, <1>3, <1>11, <2>1 DEF StatementFails
  <1>12. ASSUME NEW t \in Txn, CommitRefused(t) PROVE ChangesInv'
    <2>1. "Lost" \in State
      BY DEF State, Ended
    <2>2. QED
      BY <1>1, <1>3, <1>12, <2>1 DEF CommitRefused
  <1>13. ASSUME NEW t \in Txn, Commit(t) PROVE ChangesInv'
    <2>1. PICK c : c = [state |-> "Committed", level |-> "RepeatableRead", undo |-> <<>>]
      OBVIOUS
    <2>2. /\ c.state = "Committed" /\ c.undo = <<>> /\ tx' = [tx EXCEPT ![t] = c]
          /\ heap' = heap
          /\ committed' = [tab \in Table |-> WithChanges(committed[tab], tab, tx[t].undo)]
      BY <1>1, <1>13, <2>1 DEF Commit, EndTx
    <2>3. QED
      BY <2>2, OneContext, CommitChanges
  <1>14. ASSUME NEW t \in Txn, Rollback(t) PROVE ChangesInv'
    <2>1. Undo(heap, tx[t].undo).ok
      BY UndoRight
    <2>2. PICK c : c = [state |-> "RolledBack", level |-> "RepeatableRead", undo |-> <<>>]
      OBVIOUS
    <2>3. /\ c.undo = <<>> /\ tx' = [tx EXCEPT ![t] = c] /\ tx[t].state # "Committed"
          /\ heap' = Undo(heap, tx[t].undo).heap /\ committed' = committed
      BY <1>1, <1>14, <2>1, <2>2 DEF Rollback, EndTx
    <2>4. QED
      BY <1>4, <2>3
  <1>15. QED
    BY <1>5, <1>6, <1>7, <1>8, <1>9, <1>10, <1>11, <1>12, <1>13, <1>14 DEF Next, Step

(* Undo logs and commits are right, in every behaviour. *)
THEOREM ChangesAreSound ==
  ASSUME Blocking, RowsStay
  PROVE  Spec => [](TxInv /\ VictimActive /\ ChangesInv)
  <1>1. Init => TxInv /\ VictimActive /\ ChangesInv
    <2>1. Init => VictimActive
      BY DEF Init, VictimActive, NoRun
    <2>2. QED
      BY <2>1, TxInvInit, ChangesInvInit
  <1>2. (TxInv /\ VictimActive /\ ChangesInv) /\ [Next]_vars
           => (TxInv /\ VictimActive /\ ChangesInv)'
    BY TxInvNext, VictimActiveNext, ChangesInvNext
  <1>3. QED
    BY <1>1, <1>2, PTL DEF Spec

(* Whenever there is nothing to undo, the heap holds what the committed      *)
(* transactions left, each row once: undo put back the rest.                 *)
THEOREM HeapIsCommitted ==
  ASSUME Blocking, RowsStay
  PROVE  Spec => []AtRest
  <1>1. TxInv /\ ChangesInv => AtRest
    <2> SUFFICES ASSUME TxInv, ChangesInv, \A t \in Txn : tx[t].undo = <<>>, NEW tab \in Table
                 PROVE  /\ {heap[tab][s] : s \in Occupied(heap, tab)} = committed[tab]
                        /\ Cardinality(Occupied(heap, tab)) = Cardinality(committed[tab])
      BY DEF AtRest
    <2> DEFINE O == Occupied(heap, tab)
               f == [s \in O |-> heap[tab][s]]
    <2>1. \A t \in Txn : \A i \in 1..Len(tx[t].undo) : FALSE
      OBVIOUS
    <2>2. \A s, r : IsBase(tab, s, r) <=> r = heap[tab][s]
      BY <2>1 DEF IsBase, Touched, WasBefore
    <2>3. \A r : r \in committed[tab] <=> r # NoRow /\ \E s \in Slot : r = heap[tab][s]
      BY <2>2 DEF ChangesInv, CommittedRight
    <2>4. O \in SUBSET Slot /\ \A s \in Slot : s \in O <=> heap[tab][s] # NoRow
      BY DEF Occupied
    <2> HIDE DEF O
    <2>5. {heap[tab][s] : s \in O} = committed[tab]
      BY <2>3, <2>4
    <2>6. IsFiniteSet(O)
      BY <2>4, Places, FS_Subset
    <2>7. f \in Surjection(O, committed[tab])
      <3>1. f \in [O -> committed[tab]]
        BY <2>5
      <3>2. \A r \in committed[tab] : \E s \in O : f[s] = r
        BY <2>5
      <3>3. QED
        BY <3>1, <3>2 DEF Surjection
    <2>8. \A s, x \in O : f[s] = f[x] => s = x
      <3>1. \A s \in Slot : heap[tab][s] # NoRow <=> heap[tab][s].id # 0
        BY Distinct DEF TxInv, Typed
      <3>2. QED
        BY <2>4, <3>1 DEF ChangesInv, KeysUnique
    <2>9. f \in Injection(O, committed[tab])
      BY <2>5, <2>8 DEF Injection, IsInjective
    <2>10. Cardinality(O) = Cardinality(committed[tab])
      BY <2>6, <2>7, <2>9, FS_Surjection
    <2>11. QED
      BY <2>5, <2>10 DEF O
  <1>2. QED
    BY <1>1, ChangesAreSound, PTL

(* From READ COMMITTED up, a SELECT returns only rows of committed           *)
(* transactions and of its own: it holds a lock on every row that it reads.  *)
THEOREM ReadsAreClean ==
  ASSUME Blocking, RowsStay
  PROVE  Spec => NoDirtyReads
  <1> DEFINE Clean == \A t \in Txn : tx[t].level # "ReadUncommitted" =>
                         \A rd \in seen'[t] \ seen[t] : \A r \in rd.rows : ReadsClean(t, r)
  <1>1. ASSUME TxInv, NEW t \in Txn, Select(t), tx[t].level # "ReadUncommitted",
               WritersKnown, NEW s \in Slot, s \in Matching(heap, call[t])
        PROVE  ReadsClean(t, heap[call[t].table][s])
    <2>1. PICK stmt : stmt = call[t]
      OBVIOUS
    <2>2. HasLocks(t) /\ stmt.op = "select"
      BY <1>1, <2>1 DEF Select
    <2>3. /\ InCall(t) /\ stmt \in Stmt /\ stmt.table \in Table
          /\ \A k \in Wanted(t) : entries[k].holders[t] \in {"Exclusive", "Shared"}
      BY <1>1, <2>1, <2>2, HasLocksRight, Modes, Distinct
    <2>4. PICK tab \in Table, r \in AnyRow : tab = stmt.table /\ r = heap[tab][s]
      BY <1>1, <2>3 DEF TxInv, Typed
    <2>5. s \in Occupied(heap, tab)
      BY <1>1, <2>1, <2>4 DEF Matching
    <2>6. Place(tab, s) \in Wanted(t)
      BY <1>1, <2>1, <2>2, <2>3, <2>4, <2>5, KeysRight DEF TxInv, Wanted
    <2>7. entries[Place(tab, s)].holders[t] # "None"
      BY <2>3, <2>6
    <2>8. Final(r.by) \/ (r.by \in Txn /\ Touched(r.by, tab, s))
      BY <1>1, <2>4 DEF WritersKnown, Known
    <2>9. r.by \in Txn /\ Touched(r.by, tab, s) => r.by = t
      BY <1>1, <2>7, TouchedRows
    <2>10. QED
      BY <2>1, <2>4, <2>8, <2>9 DEF ReadsClean, Final
  <1>2. TxInv /\ ChangesInv /\ [Next]_vars => Clean
    <2> SUFFICES ASSUME TxInv, ChangesInv, [Next]_vars, NEW u \in Txn,
                        tx[u].level # "ReadUncommitted", NEW rd \in seen'[u] \ seen[u],
                        NEW r \in rd.rows
                 PROVE  ReadsClean(u, r)
      OBVIOUS
    <2>1. seen \in [Txn -> SUBSET Reading]
      BY DEF TxInv, Typed
    <2>2. ASSUME NEW t \in Txn, Select(t) PROVE ReadsClean(u, r)
      <3>1. PICK new : /\ new.rows = {heap[call[t].table][s] : s \in Matching(heap, call[t])}
                       /\ \E old \in SUBSET seen[t] : seen' = [seen EXCEPT ![t] = old \cup {new}]
        <4> DEFINE rows == {heap[call[t].table][s] : s \in Matching(heap, call[t])}
                   new  == [table |-> call[t].table, ids |-> call[t].ids, rows |-> rows]
        <4>1. seen' = [seen EXCEPT ![t] =
                          (IF ReleasesReads(t) THEN {} ELSE seen[t]) \cup {new}]
          BY <2>2 DEF Select
        <4>2. new.rows = rows
          OBVIOUS
        <4> HIDE DEF new
        <4>3. QED
          BY <4>1, <4>2
      <3>2. u = t /\ rd = new
        BY <2>1, <3>1
      <3>3. PICK s \in Matching(heap, call[t]) : r = heap[call[t].table][s]
        BY <3>1, <3>2
      <3>4. s \in Slot
        BY DEF Matching, Occupied
      <3>5. QED
        BY <1>1, <2>2, <3>2, <3>3, <3>4 DEF ChangesInv
    <2>3. ASSUME seen' = seen \/ \E t \in Txn : seen' = [seen EXCEPT ![t] = {}] PROVE FALSE
      BY <2>1, <2>3
    <2>4. ASSUME NEW t \in Txn,
                 \/ \E level \in Level : Begin(t, level)
                 \/ \E w \in Work : Issue(t, w[2])
                 \/ Retry(t) \/ LockGranted(t) \/ LockRefused(t) \/ DeadlockFound(t)
                 \/ AbortVictim(t) \/ AbortVictimFails(t) \/ Write(t) \/ StatementFails(t)
                 \/ CommitRefused(t)
          PROVE  seen' = seen
      BY <2>4 DEF Begin, Issue, Retry, LockGranted, LockRefused, DeadlockFound, AcquireNext,
                  AbortVictim, AbortVictimFails, Write, StatementFails, CommitRefused
    <2>5. ASSUME NEW t \in Txn, Commit(t) \/ Rollback(t)
          PROVE  seen' = [seen EXCEPT ![t] = {}]
      BY <2>5 DEF Commit, Rollback, EndTx
    <2>6. UNCHANGED vars \/ Finished => seen' = seen
      BY DEF vars, Finished
    <2>7. QED
      BY <2>2, <2>3, <2>4, <2>5, <2>6 DEF Next, Step
  <1>3. QED
    BY <1>2, ChangesAreSound, PTL DEF Spec, NoDirtyReads
=============================================================================
