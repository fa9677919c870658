--------------------------------- MODULE Tables ---------------------------------
(***************************************************************************)
(* What a session sees of a database on disk: tables that are bags of      *)
(* rows, names of indexes, and a transaction that goes back to what was    *)
(* there when it began.  Pages, positions and index files do not show.     *)
(*                                                                         *)
(* The abstract specification of module Storage.  A statement that fails   *)
(* must have a reason, and what it may leave behind is said here: the      *)
(* rows that it had changed before, and nothing of a CREATE or DROP.       *)
(***************************************************************************)
EXTENDS Integers, Sequences, FiniteSets, Bags, TLC

CONSTANTS
    Inputs,      \* statements clients send
    Reserved,    \* the names of the indexes of primary keys, for each table
    MaxRowLen,   \* the longest row
    MaxKeyLen    \* the longest key of an indexed column

VARIABLES
    tables,  \* name -> its primary key, its rows, and the rows ROLLBACK goes back to
    indexes, \* name -> the table and whether it is unique
    open,    \* whether a transaction is open
    full,    \* whether the catalog may have no room for what a statement adds
    asked    \* the last statement and whether it succeeded

vars == <<tables, indexes, open, full, asked>>

Null == 0

IndexesOn(n) == {i \in DOMAIN indexes : indexes[i].table = n}
Indexed(n)   == tables[n].pk \/ IndexesOn(n) # {}
Unique(n)    == tables[n].pk \/ \E i \in IndexesOn(n) : indexes[i].unique
Taken        == DOMAIN indexes \cup {Reserved[n] : n \in {m \in DOMAIN tables : tables[m].pk}}

Table(s)  == tables[s.table]
Rows(s)   == tables[s.table].rows
BagOf(sq) == [r \in {sq[k] : k \in DOMAIN sq} |-> Cardinality({k \in DOMAIN sq : sq[k] = r})]

\* No key twice.
KeysDiffer(rows) ==
    \A r, q \in DOMAIN rows : r.key = q.key /\ r.key # Null => r = q /\ rows[r] = 1

ShortKeys(rows) == \A r \in DOMAIN rows : r.key # Null => r.len <= MaxKeyLen

\* Rows that the table and its indexes accept.
Valid(n, rows) ==
    /\ \A r \in DOMAIN rows : r.len <= MaxRowLen
    /\ Indexed(n) => ShortKeys(rows)
    /\ tables[n].pk => \A r \in DOMAIN rows : r.key # Null
    /\ Unique(n) => KeysDiffer(rows)

Answer(s, ok) == asked' = s @@ [ok |-> ok] /\ full' \in BOOLEAN

\* Outside a transaction there is nothing to go back to.
Becomes(s, rows) ==
    tables' = [tables EXCEPT ![s.table].rows = rows,
                             ![s.table].stable = IF open THEN @ ELSE rows]

------------------------------------------------------------------------------
(* Rows.                                                                   *)

Inserted(s, k) == Rows(s) (+) BagOf(SubSeq(s.rows, 1, k))

InsertSucceeds(s) ==
    /\ Valid(s.table, Inserted(s, Len(s.rows)))
    /\ Becomes(s, Inserted(s, Len(s.rows)))

\* Rows before the one that failed stay.
InsertFails(s) ==
    /\ full \/ ~ Valid(s.table, Inserted(s, Len(s.rows)))
    /\ \E k \in 0..Len(s.rows) - 1 :
          Valid(s.table, Inserted(s, k)) /\ Becomes(s, Inserted(s, k))

Matched(s) ==
    LET rows == Rows(s) IN [r \in {q \in DOMAIN rows : q.key \in s.keys} |-> rows[r]]

\* Some of the rows, changed.
Updated(s, some) ==
    LET image(r) == s.to[r] IN (Rows(s) (-) some) (+) BagOfAll(image, some)

UpdateSucceeds(s) ==
    /\ Valid(s.table, Updated(s, Matched(s)))
    /\ Becomes(s, Updated(s, Matched(s)))

\* Rows change one after the other: a row's new key may be the key of a row
\* that has yet to change.
Clashes(s) ==
    /\ Unique(s.table)
    /\ \E r \in DOMAIN Matched(s) : \E q \in DOMAIN Rows(s) :
          s.to[r].key # r.key /\ s.to[r].key = q.key

UpdateFails(s) ==
    /\ full \/ Clashes(s) \/ ~ Valid(s.table, Updated(s, Matched(s)))
    /\ \E some \in SubBag(Matched(s)) \ {Matched(s)} :
          Valid(s.table, Updated(s, some)) /\ Becomes(s, Updated(s, some))

Insert(s) ==
    \/ s.table \in DOMAIN tables /\ Answer(s, TRUE) /\ InsertSucceeds(s)
    \/ s.table \in DOMAIN tables /\ Answer(s, FALSE) /\ InsertFails(s)

Update(s) ==
    \/ s.table \in DOMAIN tables /\ Answer(s, TRUE) /\ UpdateSucceeds(s)
    \/ s.table \in DOMAIN tables /\ Answer(s, FALSE) /\ UpdateFails(s)

\* A DELETE always succeeds.
Delete(s) ==
    s.table \in DOMAIN tables /\ Answer(s, TRUE) /\ Becomes(s, Rows(s) (-) Matched(s))

------------------------------------------------------------------------------
(* Tables and indexes.                                                     *)

CreateTable(s) ==
    \/ /\ Answer(s, TRUE)
       /\ s.table \notin DOMAIN tables
       /\ s.pk => Reserved[s.table] \notin Taken
       /\ tables' = tables @@ (s.table :> [pk |-> s.pk, rows |-> EmptyBag, stable |-> EmptyBag])
       /\ UNCHANGED indexes
    \/ /\ Answer(s, FALSE)
       /\ full \/ s.table \in DOMAIN tables \/ Reserved[s.table] \in Taken
       /\ UNCHANGED <<tables, indexes>>

\* What is dropped makes room.
DropTable(s) ==
    /\ Answer(s, TRUE)
    /\ s.table \in DOMAIN tables
    /\ tables' = [n \in DOMAIN tables \ {s.table} |-> tables[n]]
    /\ indexes' = [i \in DOMAIN indexes \ IndexesOn(s.table) |-> indexes[i]]

CreateIndex(s) ==
    /\ s.table \in DOMAIN tables
    /\ \/ /\ Answer(s, TRUE)
          /\ s.index \notin Taken
          /\ ShortKeys(Rows(s)) /\ (s.unique => KeysDiffer(Rows(s)))
          /\ indexes' = indexes @@ (s.index :> [table |-> s.table, unique |-> s.unique])
       \/ /\ Answer(s, FALSE)
          /\ \/ full \/ s.index \in Taken
             \/ ~ ShortKeys(Rows(s)) \/ (s.unique /\ ~ KeysDiffer(Rows(s)))
          /\ UNCHANGED indexes
    /\ UNCHANGED tables

DropIndex(s) ==
    /\ \/ /\ Answer(s, TRUE)
          /\ s.index \in DOMAIN indexes
          /\ indexes' = [i \in DOMAIN indexes \ {s.index} |-> indexes[i]]
       \/ Answer(s, FALSE) /\ s.index \notin DOMAIN indexes /\ UNCHANGED indexes
    /\ UNCHANGED tables

\* VACUUM and ANALYZE change nothing that a session sees.
Maintain(s) ==
    /\ s.table \in DOMAIN tables
    /\ Answer(s, TRUE) \/ (Answer(s, FALSE) /\ s.op = "analyze" /\ full)
    /\ UNCHANGED <<tables, indexes>>

NoTable(s) ==
    /\ s.op \notin {"create_table", "drop_index"} /\ s.table \notin DOMAIN tables
    /\ Answer(s, FALSE)
    /\ UNCHANGED <<tables, indexes>>

------------------------------------------------------------------------------
(* Transactions.                                                           *)

BackTo(field) == tables' = [n \in DOMAIN tables |->
    [tables[n] EXCEPT !.rows = tables[n][field], !.stable = tables[n][field]]]

Begin == ~ open /\ open' /\ Answer([op |-> "begin"], TRUE) /\ UNCHANGED <<tables, indexes>>

Commit ==
    open /\ ~ open' /\ Answer([op |-> "commit"], TRUE) /\ BackTo("rows") /\ UNCHANGED indexes

\* ROLLBACK and a restart always succeed, and bring back every row.
Rollback ==
    open /\ ~ open' /\ Answer([op |-> "rollback"], TRUE) /\ BackTo("stable") /\ UNCHANGED indexes

Restart == ~ open' /\ Answer([op |-> "open"], TRUE) /\ BackTo("stable") /\ UNCHANGED indexes

------------------------------------------------------------------------------
Statement(s) ==
    \/ s.op = "insert" /\ Insert(s) /\ UNCHANGED indexes
    \/ s.op = "update" /\ Update(s) /\ UNCHANGED indexes
    \/ s.op = "delete" /\ Delete(s) /\ UNCHANGED indexes
    \/ s.op = "create_table" /\ CreateTable(s)
    \/ s.op = "drop_table" /\ DropTable(s)
    \/ s.op = "create_index" /\ CreateIndex(s)
    \/ s.op = "drop_index" /\ DropIndex(s)
    \/ s.op \in {"vacuum", "analyze"} /\ Maintain(s)
    \/ NoTable(s)

\* Any valid contents to begin with.
Init ==
    /\ \A n \in DOMAIN tables : tables[n].stable = tables[n].rows /\ Valid(n, tables[n].rows)
    /\ ~ open
    /\ full \in BOOLEAN
    /\ asked = [op |-> "open", ok |-> TRUE]

Next ==
    \/ \E s \in Inputs : Statement(s) /\ UNCHANGED open
    \/ Begin \/ Commit \/ Rollback \/ Restart

Spec == Init /\ [][Next]_vars
=============================================================================
