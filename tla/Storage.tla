-------------------------------- MODULE Storage --------------------------------
(***************************************************************************)
(* The storage of a database on disk, as one session uses it: storage.rs,  *)
(* free_space_map.rs, heap_file.rs, index.rs, constraints.rs, and the      *)
(* statements of database.rs and executor.rs that change it (directory     *)
(* src/src).  It keeps the catalog, the pages of the tables and the list   *)
(* of free pages, the free space map, and an index file for every index.   *)
(*                                                                         *)
(* A table has one indexed column.  A row is the key in it, or Null, and   *)
(* its length, which is also the length of the key.  A B+Tree is the set   *)
(* of its entries (module BTree has the tree).  Page 1 is the catalog; it  *)
(* holds so many entries and no more.                                      *)
(*                                                                         *)
(* Statements are not interrupted: &mut Storage is behind one mutex.       *)
(* Closing writes every page; crashes are in module WalRecovery.           *)
(***************************************************************************)
EXTENDS SlottedPages, Bags

CONSTANTS
    Names,         \* names of tables
    Tuples,        \* rows that statements may write
    Preludes,      \* statements run before the behaviour begins
    Inputs,        \* statements clients send
    MaxStatements, \* statements in a behaviour
    MaxKeyLen,     \* the longest key an index page takes
    Capacity,      \* what the catalog page holds
    Risks          \* weak spots of the code that a behaviour may meet:
                   \* "ddl" after writes in a transaction, "lengths" that change in
                   \* rows that a unique index may refuse, "full" catalogs at
                   \* ROLLBACK, "chains" of rows that undo puts where others were

ASSUME StorageAssumption ==
    /\ {MaxStatements, MaxKeyLen, Capacity} \subseteq Nat
    /\ Tuples \subseteq [key : Nat, len : Nat \ {0}]
    /\ Risks \subseteq {"ddl", "lengths", "full", "chains"}

\* What the Binder makes of SQL; to is what SET makes of a row.
Statements ==
    [op : {"create_table"}, table : Names, pk : BOOLEAN]
    \cup [op : {"drop_table", "vacuum", "analyze"}, table : Names]
    \cup [op : {"create_index"}, index : STRING, table : Names, unique : BOOLEAN]
    \cup [op : {"drop_index"}, index : STRING]
    \cup [op : {"insert"}, table : Names, rows : Seq(Tuples)]
    \cup [op : {"update"}, table : Names, keys : SUBSET Nat, to : [Tuples -> Tuples]]
    \cup [op : {"delete"}, table : Names, keys : SUBSET Nat]

ASSUME StatementsAssumption ==
    Inputs \subseteq Statements /\ \A prelude \in Preludes : prelude \in Seq(Statements)

VARIABLES
    db,     \* struct Storage with the pages and files it has written
    tx,     \* the session's transaction: its records in the log
    asked,  \* the last statement and whether it succeeded
    left    \* statements still to come (a bound)

vars == <<db, tx, asked, left>>

Null        == 0
NoRid       == <<0, 0>>
CatalogPage == 1
Constraint  == [n \in Names |-> n \o "_key_idx"]

\* What an entry takes of the catalog page.
TableCost == 2
IndexCost == 2
StatsCost == 1

------------------------------------------------------------------------------
(* A statement at work: the storage, whether all went well so far, the     *)
(* position of the last row written, the records for the log, and, while   *)
(* records are undone, where rows have moved and whether one is now where  *)
(* another one was.                                                        *)

Begin(d) == [db |-> d, ok |-> TRUE, rid |-> NoRid, log |-> <<>>,
             moves |-> <<>>, crossed |-> FALSE]
Fail(w)  == [w EXCEPT !.ok = FALSE]

Without(f, S) == [x \in DOMAIN f \ S |-> f[x]]
With(f, x, v) == [y \in DOMAIN f \cup {x} |-> IF y = x THEN v ELSE f[y]]

\* What of a sequence is in a set.
Among(s, S) ==
    LET kept[k \in 0..Len(s)] ==
            IF k = 0 THEN <<>> ELSE IF s[k] \in S THEN Append(kept[k - 1], s[k]) ELSE kept[k - 1]
    IN  kept[Len(s)]

------------------------------------------------------------------------------
(* The catalog.                                                            *)

PagesOf(d)  == UNION {ToSet(d.tables[t].pages) : t \in DOMAIN d.tables}
TableIds(d, n) == {t \in DOMAIN d.tables : d.tables[t].name = n}
TableId(d, n)  == CHOOSE t \in TableIds(d, n) : TRUE
IndexesOf(d, t) == {i \in DOMAIN d.indexes : d.indexes[i].table = t}

\* encode_catalog: the length of what is to be written.
CatalogSize(d) ==
    TableCost * Cardinality(DOMAIN d.tables) + Cardinality(PagesOf(d)) + Len(d.free)
    + IndexCost * Cardinality(DOMAIN d.indexes) + StatsCost * Cardinality(d.stats)

CatalogImage(d) ==
    [next |-> d.next, tables |-> d.tables, free |-> d.free,
     indexes |-> d.indexes, stats |-> d.stats]

\* persist_catalog; a caller that gets CatalogTooLarge undoes its change.
Persist(w, undone) ==
    IF CatalogSize(w.db) <= Capacity
    THEN [w EXCEPT !.db.catalog = CatalogImage(w.db)]
    ELSE Fail(undone)

------------------------------------------------------------------------------
(* Rows and pages.                                                         *)

\* A page written, and its entry of the free space map with it.
Rewrite(w, p, page) ==
    [w EXCEPT !.db.pages = With(@, p, page), !.db.fsm = With(@, p, FreeSpace(page))]

\* attach_page_to_table
Attach(w, t, p, undone) ==
    Persist([w EXCEPT !.db.tables[t].pages = Append(@, p)], undone)

\* try_insert_into_fresh_page: the page is initialised, whatever it held.
FillFresh(w, p, row) == [Rewrite(w, p, Write(EmptyPage, 1, row)) EXCEPT !.rid = <<p, 1>>]

\* The last page of the free list, or a page at the end of the file.
OnFreshPage(w, t, row) ==
    IF w.db.free # <<>>
    THEN LET p      == Last(w.db.free)
             filled == FillFresh([w EXCEPT !.db.free = Front(@)], p, row)
         IN  Attach(filled, t, p, [filled EXCEPT !.db.free = w.db.free])
    ELSE LET p      == CatalogPage + 1 + Cardinality(DOMAIN w.db.pages)
             filled == FillFresh(w, p, row)
         IN  Attach(filled, t, p, filled)

\* try_insert_into_open_page; a page the free space map was wrong about is
\* left compacted.
OnOpenPage(w, t, row, p, tried) ==
    IF tried.slot # NoSlot
    THEN [Rewrite(w, p, tried.page) EXCEPT !.rid = <<p, tried.slot>>]
    ELSE OnFreshPage([w EXCEPT !.db.pages[p] = tried.page], t, row)

\* FreeSpaceMap::find_candidate looks for the first of these in the table's list.
Candidates(d, t, row) ==
    LET pages == d.tables[t].pages
    IN  {k \in DOMAIN pages : pages[k] \in DOMAIN d.fsm /\ d.fsm[pages[k]] >= row.len}

InsertOn(w, t, row, p) == OnOpenPage(w, t, row, p, InsertInto(w.db.pages[p], row))

\* Storage::insert
InsertRow(w, t, row) ==
    LET candidates == Candidates(w.db, t, row)
    IN  CASE row.len > MaxLenForFreshPage -> Fail(w)
          [] row.len <= MaxLenForFreshPage /\ candidates = {} -> OnFreshPage(w, t, row)
          [] OTHER -> InsertOn(w, t, row, w.db.tables[t].pages[Min(candidates)])

\* validate_rid, and whether there is a row.
Owned(d, t, rid)  == rid[1] \in ToSet(d.tables[t].pages)
Filled(d, rid)    == rid[2] \in Occupied(d.pages[rid[1]])

\* Storage::delete
DeleteRow(w, t, rid) ==
    CASE ~ Owned(w.db, t, rid) -> Fail(w)
      [] Owned(w.db, t, rid) /\ ~ Filled(w.db, rid) -> w
      [] OTHER -> Rewrite(w, rid[1], DeleteFrom(w.db.pages[rid[1]], rid[2]))

\* Fault: the row stays where it was as well.
KeptToo(w, t, old) == w

\* Storage::update: in its page, or deleted there once it is on another one.
Moved(w, t, old) ==
    IF w.ok THEN DeleteRow(w, t, old) ELSE w

\* Fault: the free space map does not hear of a row that grew.
GrownQuietly(w, t, rid, row, tried) ==
    IF tried.slot # NoSlot
    THEN [w EXCEPT !.db.pages[rid[1]] = tried.page, !.rid = rid]
    ELSE Moved(InsertRow([w EXCEPT !.db.pages[rid[1]] = tried.page], t, row), t, rid)

InPlaceOrMoved(w, t, rid, row, tried) ==
    IF tried.slot # NoSlot
    THEN [Rewrite(w, rid[1], tried.page) EXCEPT !.rid = rid]
    ELSE Moved(InsertRow([w EXCEPT !.db.pages[rid[1]] = tried.page], t, row), t, rid)

UpdateRow(w, t, rid, row) ==
    CASE ~ Owned(w.db, t, rid) -> Fail(w)
      [] Owned(w.db, t, rid) /\ ~ Filled(w.db, rid) -> [w EXCEPT !.rid = rid]
      [] Owned(w.db, t, rid) /\ Filled(w.db, rid) /\ row.len > MaxLenForFreshPage -> Fail(w)
      [] OTHER -> InPlaceOrMoved(w, t, rid, row, UpdateIn(w.db.pages[rid[1]], rid[2], row))

\* Scan: the pages in the order of the table, the slots in the order of the page.
RidsOn(page, p) == [i \in 1..Len(page.slots) |-> <<p, i>>]
Slots(d, t) ==
    LET pages == d.tables[t].pages
        rids[k \in 0..Len(pages)] ==
            IF k = 0 THEN <<>> ELSE rids[k - 1] \o RidsOn(d.pages[pages[k]], pages[k])
    IN  rids[Len(pages)]

Scan(d, t) == SelectSeq(Slots(d, t), LAMBDA rid : Filled(d, rid))

Positions(d, t) == UNION {{p} \X Occupied(d.pages[p]) : p \in ToSet(d.tables[t].pages)}

RowOf(d, rid) == RowAt(d.pages[rid[1]], rid[2])
RowsOf(d, t) ==
    LET rids == Scan(d, t)
    IN  [k \in DOMAIN rids |-> RowOf(d, rids[k])]

------------------------------------------------------------------------------
(* Indexes.                                                                *)

\* The entries that a scan of the heap gives; NULL is in no index.
HeapEntries(d, t) ==
    {<<RowOf(d, rid).key, rid>> : rid \in {r \in Positions(d, t) : RowOf(d, r).key # Null}}

KeyIn(tree, key) == \E e \in tree : e[1] = key

\* check_key_fits
KeyFits(row) == row.key # Null => row.len <= MaxKeyLen

\* BTree::insert
TreeTakes(d, i, row) == KeyFits(row) /\ ~ (d.indexes[i].unique /\ KeyIn(d.trees[i], row.key))

EnteredIn(w, is, entry) ==
    [w EXCEPT !.db.trees = [i \in DOMAIN @ |-> IF i \in is THEN @[i] \cup {entry} ELSE @[i]]]

TakenFrom(w, is, entry) ==
    [w EXCEPT !.db.trees = [i \in DOMAIN @ |-> IF i \in is THEN @[i] \ {entry} ELSE @[i]]]

\* index_insert_row: tree after tree takes the key; when one refuses it, those
\* that took it before delete it again.  The names decide which come before:
\* here all that take it do.
IndexInsert(w, t, row, rid) ==
    LET taking  == {i \in IndexesOf(w.db, t) : TreeTakes(w.db, i, row)}
        entered == EnteredIn(w, taking, <<row.key, rid>>)
    IN  CASE row.key = Null -> w
          [] row.key # Null /\ taking = IndexesOf(w.db, t) -> entered
          [] OTHER -> Fail(TakenFrom(entered, taking, <<row.key, rid>>))

\* index_delete_row
IndexDelete(w, t, row, rid) == TakenFrom(w, IndexesOf(w.db, t), <<row.key, rid>>)

\* BTree::insert of every entry of the heap.
Buildable(d, t, unique) ==
    /\ \A rid \in Positions(d, t) : KeyFits(RowOf(d, rid))
    /\ unique => \A e, f \in HeapEntries(d, t) : e[1] = f[1] => e = f

\* rebuild_one_index_after_recovery, for the indexes of the tables in ts.
Rebuilt(w, ts) ==
    LET of == {i \in DOMAIN w.db.indexes : w.db.indexes[i].table \in ts}
    IN  IF \A i \in of : Buildable(w.db, w.db.indexes[i].table, w.db.indexes[i].unique)
        THEN [w EXCEPT !.db.trees = [i \in DOMAIN @ |->
                IF i \in of THEN HeapEntries(w.db, w.db.indexes[i].table) ELSE @[i]]]
        ELSE Fail(w)

------------------------------------------------------------------------------
(* INSERT, UPDATE, DELETE: all rows are checked, then written one by one.   *)

PrimaryKey(d, t) == d.tables[t].pk

\* Tuple::new, check_uniqueness_with_index, check_uniqueness and
\* check_indexes_accept_row; exclude are the rows about to change.
Refused(d, t, rows, exclude) ==
    \/ /\ PrimaryKey(d, t)
       /\ \E k \in DOMAIN rows :
            \/ rows[k].key = Null
            \/ \E e \in d.trees[Constraint[d.tables[t].name]] :
                  e[1] = rows[k].key /\ e[2] \notin exclude
            \/ \E j \in DOMAIN rows : j # k /\ rows[j].key = rows[k].key
    \/ IndexesOf(d, t) # {} /\ \E k \in DOMAIN rows : ~ KeyFits(rows[k])

Record(kind, t, old, rid, before, after) ==
    [kind |-> kind, table |-> t, old |-> old, rid |-> rid, before |-> before, after |-> after]

NoRow == Tombstone.row

Logged(w, r) == IF w.ok THEN [w EXCEPT !.log = Append(@, r)] ELSE w

\* A row that an index refuses is taken out of the heap again.
IndexedOrDropped(w, t, row, rid) ==
    IF w.ok THEN Logged(w, Record("insert", t, NoRid, rid, NoRow, row))
    ELSE Fail(DeleteRow(w, t, rid))

IndexedIfIn(w, t, row) ==
    IF w.ok THEN IndexedOrDropped(IndexInsert(w, t, row, w.rid), t, row, w.rid) ELSE w

InsertOne(w, t, row) == IF w.ok THEN IndexedIfIn(InsertRow(w, t, row), t, row) ELSE w

\* storage_insert
InsertRows(w, t, rows) ==
    LET after[k \in 0..Len(rows)] == IF k = 0 THEN w ELSE InsertOne(after[k - 1], t, rows[k])
    IN  IF Refused(w.db, t, rows, {}) THEN Fail(w) ELSE after[Len(rows)]

\* After the heap: the old entries go, the new ones come; else the old entries
\* and the old row are put back where the row is now.
Reindexed(w, t, old, rid, before, after) ==
    IF w.ok THEN Logged(w, Record("update", t, old, rid, before, after))
    ELSE Fail(UpdateRow([IndexInsert(w, t, before, rid) EXCEPT !.ok = TRUE], t, rid, before))

ReindexedIfIn(w, t, old, before, after) ==
    IF w.ok
    THEN Reindexed(IndexInsert(IndexDelete(w, t, before, old), t, after, w.rid),
                   t, old, w.rid, before, after)
    ELSE w

UpdateOne(w, t, rid, before, after) ==
    IF w.ok THEN ReindexedIfIn(UpdateRow(w, t, rid, after), t, rid, before, after) ELSE w

\* A statement's rows: those whose key its predicate is true of.
Matching(d, t, keys) ==
    Among(Slots(d, t), {rid \in Positions(d, t) : RowOf(d, rid).key \in keys})

\* storage_update: new rows are computed from the rows as they were.
UpdateThese(w, t, rids, to) ==
    LET before == [k \in DOMAIN rids |-> RowOf(w.db, rids[k])]
        new    == [k \in DOMAIN rids |-> to[before[k]]]
        after[k \in 0..Len(rids)] ==
            IF k = 0 THEN w ELSE UpdateOne(after[k - 1], t, rids[k], before[k], new[k])
    IN  IF Refused(w.db, t, new, ToSet(rids)) THEN Fail(w) ELSE after[Len(rids)]

UpdateRows(w, t, keys, to) == UpdateThese(w, t, Matching(w.db, t, keys), to)

DeleteOne(w, t, rid, row) ==
    Logged(IndexDelete(DeleteRow(w, t, rid), t, row, rid),
           Record("delete", t, NoRid, rid, row, NoRow))

\* storage_delete
DeleteThese(w, t, rids) ==
    LET after[k \in 0..Len(rids)] ==
            IF k = 0 THEN w ELSE DeleteOne(after[k - 1], t, rids[k], RowOf(w.db, rids[k]))
    IN  after[Len(rids)]

DeleteRows(w, t, keys) == DeleteThese(w, t, Matching(w.db, t, keys))

------------------------------------------------------------------------------
(* Undo of a transaction, its last record first (apply_wal_undo_disk).     *)

\* resolve follows a row that undo has put elsewhere.
Resolve(moves, rid) ==
    LET hop[n \in 0..Cardinality(DOMAIN moves)] ==
            IF n = 0 THEN rid
            ELSE IF hop[n - 1] \in DOMAIN moves THEN moves[hop[n - 1]] ELSE hop[n - 1]
    IN  hop[Cardinality(DOMAIN moves)]

Follow(w, from, to) ==
    [w EXCEPT !.moves = IF from = to THEN @ ELSE With(@, from, to),
              !.crossed = @ \/ to \in DOMAIN w.moves \/ from \in Range(w.moves)]

\* Fault: the entry names the position that the row had.
IndexedWhereItWas(w, t, row, from) ==
    IF w.ok THEN Follow(IndexInsert(w, t, row, from), from, w.rid) ELSE w

IndexedIfOk(w, t, row, from) ==
    IF w.ok THEN Follow(IndexInsert(w, t, row, w.rid), from, w.rid) ELSE w

UndoInsert(w, r, rid) == IndexDelete(DeleteRow(w, r.table, rid), r.table, r.after, rid)

UndoDelete(w, r) == IndexedIfOk(InsertRow(w, r.table, r.before), r.table, r.before, r.rid)

UndoUpdate(w, r, rid) ==
    IndexedIfOk(IndexDelete(UpdateRow(w, r.table, rid, r.before), r.table, r.after, rid),
                r.table, r.before, r.old)

\* The table of a record must still be there.
UndoOne(w, r) ==
    CASE ~ w.ok -> w
      [] w.ok /\ r.table \notin DOMAIN w.db.tables -> Fail(w)
      [] w.ok /\ r.table \in DOMAIN w.db.tables /\ r.kind = "delete" -> UndoDelete(w, r)
      [] w.ok /\ r.table \in DOMAIN w.db.tables /\ r.kind = "insert" ->
            UndoInsert(w, r, Resolve(w.moves, r.rid))
      [] OTHER -> UndoUpdate(w, r, Resolve(w.moves, r.rid))

Undo(w, log) ==
    LET n == Len(log)
        after[k \in 0..n] == IF k = 0 THEN w ELSE UndoOne(after[k - 1], log[n + 1 - k])
    IN  after[n]

------------------------------------------------------------------------------
(* CREATE, DROP, VACUUM, ANALYZE.                                          *)

IndexInfo(t, unique, constraint) == [table |-> t, unique |-> unique, constraint |-> constraint]

\* build_index gives an index its file and its entries.
WithIndex(w, i, info) ==
    [w EXCEPT !.db.indexes = With(@, i, info), !.db.files = @ \cup {i},
              !.db.trees = With(@, i, HeapEntries(w.db, info.table))]

\* create_index; on failure the file goes again.
CreateIndexOn(w, i, t, unique) ==
    IF i \in DOMAIN w.db.indexes \/ ~ Buildable(w.db, t, unique) THEN Fail(w)
    ELSE Persist(WithIndex(w, i, IndexInfo(t, unique, FALSE)), w)

WithTable(w, n, pk) ==
    [w EXCEPT !.db.next = @ + 1,
              !.db.tables = With(@, w.db.next, [name |-> n, pk |-> pk, pages |-> <<>>])]

\* create_table_with_constraint_indexes; on failure the table, its index and
\* the id go again (rollback_table_creation).
CreateTableNamed(w, n, pk) ==
    IF TableIds(w.db, n) # {} \/ (pk /\ Constraint[n] \in DOMAIN w.db.indexes) THEN Fail(w)
    ELSE Persist(IF pk THEN WithIndex(WithTable(w, n, pk), Constraint[n],
                                      IndexInfo(w.db.next, TRUE, TRUE))
                 ELSE WithTable(w, n, pk), w)

\* drop_index_impl, for some indexes
WithoutIndexes(w, S) ==
    [w EXCEPT !.db.indexes = Without(@, S), !.db.trees = Without(@, S), !.db.files = @ \ S]

\* drop_index refuses the index of a constraint.
DropIndexNamed(w, i) ==
    IF i \notin DOMAIN w.db.indexes \/ (i \in DOMAIN w.db.indexes /\ w.db.indexes[i].constraint)
    THEN Fail(w)
    ELSE Persist(WithoutIndexes(w, {i}), w)

\* drop_table: the pages go to the free list, the statistics and indexes away.
DropTableId(w, t) ==
    Persist(WithoutIndexes([w EXCEPT !.db.tables = Without(@, {t}), !.db.stats = @ \ {t},
                                     !.db.free = @ \o w.db.tables[t].pages,
                                     !.db.fsm = Without(@, ToSet(w.db.tables[t].pages))],
                           IndexesOf(w.db, t)), w)

Emptied(d, t) == {p \in ToSet(d.tables[t].pages) : Occupied(d.pages[p]) = {}}

\* Fault: a page on the free list stays with its table.
Listed(pages, emptied) == pages

Remaining(pages, emptied) == Among(pages, ToSet(pages) \ emptied)

\* The pages of a table are compacted; the empty ones go to the free list.
Vacuumed(w, t) ==
    LET pages     == w.db.tables[t].pages
        emptied   == Emptied(w.db, t)
        compacted == [p \in DOMAIN w.db.pages |->
                        IF p \in ToSet(pages) THEN Compact(w.db.pages[p]) ELSE w.db.pages[p]]
    IN  [w EXCEPT !.db.pages = compacted,
                  !.db.fsm   = [p \in (DOMAIN @ \cup ToSet(pages)) \ emptied |->
                                  IF p \in ToSet(pages) THEN FreeSpace(compacted[p]) ELSE @[p]],
                  !.db.free  = @ \o Among(pages, emptied),
                  !.db.tables[t].pages = Remaining(@, emptied)]

\* vacuum_table rebuilds the table's indexes as well.
VacuumTable(w, t) ==
    LET v == Rebuilt(Vacuumed(w, t), {t})
    IN  IF v.ok THEN Persist(v, v) ELSE v

\* set_table_stats
AnalyzeTable(w, t) == Persist([w EXCEPT !.db.stats = @ \cup {t}], w)

------------------------------------------------------------------------------
(* Closing and opening.                                                    *)

\* validate_table_metadata, claim_page, validate_stats_metadata, and the files.
Opens(d, c) ==
    /\ \A t \in DOMAIN c.tables : t < c.next
    /\ \A t, u \in DOMAIN c.tables : c.tables[t].name = c.tables[u].name => t = u
    /\ \A t, u \in DOMAIN c.tables : \A j \in DOMAIN c.tables[t].pages :
          /\ c.tables[t].pages[j] \in DOMAIN d.pages
          /\ c.tables[t].pages[j] \notin ToSet(c.free)
          /\ \A k \in DOMAIN c.tables[u].pages :
                c.tables[t].pages[j] = c.tables[u].pages[k] => t = u /\ j = k
    /\ ToSet(c.free) \subseteq DOMAIN d.pages /\ IsInjective(c.free)
    /\ \A p \in UNION {ToSet(c.tables[t].pages) : t \in DOMAIN c.tables} : WellFormed(d.pages[p])
    /\ c.stats \subseteq DOMAIN c.tables
    /\ DOMAIN c.indexes \subseteq d.files

\* Storage::open and recover: the free space map and the indexes are made from
\* the pages, then what a transaction left behind is undone.
OpenWith(w, c) ==
    [w EXCEPT !.db.next = c.next, !.db.tables = c.tables, !.db.free = c.free,
              !.db.indexes = c.indexes, !.db.stats = c.stats,
              !.db.trees = [i \in DOMAIN c.indexes |-> {}],
              !.db.fsm = [p \in UNION {ToSet(c.tables[t].pages) : t \in DOMAIN c.tables} |->
                            FreeSpace(w.db.pages[p])]]

OpenAgain(w, log) ==
    IF Opens(w.db, w.db.catalog)
    THEN LET opened == OpenWith(w, w.db.catalog)
         IN  Undo(Rebuilt(opened, DOMAIN opened.db.tables), log)
    ELSE Fail(w)

------------------------------------------------------------------------------
(* Statements.                                                             *)

\* Storage::create
Empty ==
    [next |-> 0, tables |-> <<>>, free |-> <<>>, fsm |-> <<>>, indexes |-> <<>>,
     trees |-> <<>>, stats |-> {}, pages |-> <<>>, files |-> {},
     catalog |-> [next |-> 0, tables |-> <<>>, free |-> <<>>, indexes |-> <<>>, stats |-> {}]]

\* The Binder looks the table up before anything else.
Found(d, s) == s.op \in {"create_table", "drop_index"} \/ TableIds(d, s.table) # {}

\* run_bound_statement
Perform(d, s) ==
    LET w == Begin(d)
        t == TableId(d, s.table)
    IN  CASE ~ Found(d, s)            -> Fail(w)
          [] s.op = "create_table"    -> CreateTableNamed(w, s.table, s.pk)
          [] s.op = "drop_index"      -> DropIndexNamed(w, s.index)
          [] Found(d, s) /\ s.op = "drop_table"   -> DropTableId(w, t)
          [] Found(d, s) /\ s.op = "create_index" -> CreateIndexOn(w, s.index, t, s.unique)
          [] Found(d, s) /\ s.op = "insert"       -> InsertRows(w, t, s.rows)
          [] Found(d, s) /\ s.op = "update"       -> UpdateRows(w, t, s.keys, s.to)
          [] Found(d, s) /\ s.op = "delete"       -> DeleteRows(w, t, s.keys)
          [] Found(d, s) /\ s.op = "vacuum"       -> VacuumTable(w, t)
          [] Found(d, s) /\ s.op = "analyze"      -> AnalyzeTable(w, t)

NoTx == [open |-> FALSE, aborted |-> FALSE, log |-> <<>>]

Prepared(prelude) ==
    LET after[k \in 0..Len(prelude)] ==
            IF k = 0 THEN Empty ELSE Perform(after[k - 1], prelude[k]).db
    IN  after[Len(prelude)]

Init ==
    /\ \E prelude \in Preludes : db = Prepared(prelude)
    /\ tx = NoTx
    /\ asked = [op |-> "open", ok |-> TRUE]
    /\ left = MaxStatements

Answered(s, ok) == asked' = s @@ [ok |-> ok] /\ left' = left - 1

\* DDL is not undone by ROLLBACK and takes no locks; an UPDATE that fails may
\* leave the old row elsewhere than the index says.
Ddl == {"create_table", "create_index", "drop_table", "drop_index"}

KeepsLengths(d, s) ==
    (\E t \in TableIds(d, s.table) : \E i \in IndexesOf(d, t) : d.indexes[i].unique)
    => \A row \in DOMAIN s.to : row.key \in s.keys => s.to[row].len = row.len

Allowed(s) ==
    /\ s.op \in Ddl /\ tx.log # <<>> => "ddl" \in Risks
    /\ s.op = "update" /\ ~ KeepsLengths(db, s) => "lengths" \in Risks

\* A statement of an aborted transaction is refused.
Run(s) ==
    LET w == Perform(db, s)
    IN  /\ left > 0 /\ ~ tx.aborted /\ Allowed(s)
        /\ db' = w.db
        /\ tx' = IF tx.open THEN [tx EXCEPT !.log = @ \o w.log, !.aborted = ~ w.ok] ELSE tx
        /\ Answered(s, w.ok)

Sent(op) == {s \in Inputs : s.op = op}

CreateTable == \E s \in Sent("create_table") : Run(s)
DropTable   == \E s \in Sent("drop_table") : Run(s)
CreateIndex == \E s \in Sent("create_index") : Run(s)
DropIndex   == \E s \in Sent("drop_index") : Run(s)
Insert      == \E s \in Sent("insert") : Run(s)
Update      == \E s \in Sent("update") : Run(s)
Delete      == \E s \in Sent("delete") : Run(s)
Vacuum      == \E s \in Sent("vacuum") : Run(s)
Analyze     == \E s \in Sent("analyze") : Run(s)

BeginTx ==
    /\ left > 0 /\ ~ tx.open
    /\ tx' = [NoTx EXCEPT !.open = TRUE]
    /\ Answered([op |-> "begin"], TRUE)
    /\ UNCHANGED db

Commit ==
    /\ left > 0 /\ tx.open /\ ~ tx.aborted
    /\ tx' = NoTx
    /\ Answered([op |-> "commit"], TRUE)
    /\ UNCHANGED db

\* What a statement may add to the catalog at most: an UPDATE, and its undo,
\* can move every row to a page of its own.
MostAdded == Max({TableCost + IndexCost} \cup {Len(RowsOf(db, t)) : t \in DOMAIN db.tables})

\* Undo needs room for pages, and follows a row by the positions it had: it
\* must not meet another row's position on the way.
Undoable(w) ==
    /\ "full" \in Risks \/ CatalogSize(db) + MostAdded <= Capacity
    /\ "chains" \in Risks \/ ~ w.crossed

\* The transaction is over even if its undo fails.
Rollback ==
    LET w == Undo(Begin(db), tx.log)
    IN  /\ left > 0 /\ tx.open
        /\ Undoable(w)
        /\ db' = w.db
        /\ tx' = NoTx
        /\ Answered([op |-> "rollback"], w.ok)

\* The process ends after a flush and starts again.
Reopen ==
    LET w == OpenAgain(Begin(db), tx.log)
    IN  /\ left > 0
        /\ Undoable(w)
        /\ db' = w.db
        /\ tx' = NoTx
        /\ Answered([op |-> "open"], w.ok)

Next ==
    \/ CreateTable \/ DropTable \/ CreateIndex \/ DropIndex
    \/ Insert \/ Update \/ Delete \/ Vacuum \/ Analyze
    \/ BeginTx \/ Commit \/ Rollback \/ Reopen

Spec == Init /\ [][Next]_vars

------------------------------------------------------------------------------
(* Properties.                                                             *)

Rid == {<<p, i>> : p \in DOMAIN db.pages, i \in 1..PayloadSize}

\* The types of storage.rs: pages 2 and up without a gap, ids that were given
\* out, one tree for every index, entries that name a position in the file.
TypeOK ==
    /\ DOMAIN db.pages = {p + CatalogPage : p \in 1..Cardinality(DOMAIN db.pages)}
    /\ \A t \in DOMAIN db.tables : t < db.next /\ db.tables[t].name \in Names
    /\ DOMAIN db.fsm \subseteq DOMAIN db.pages
    /\ DOMAIN db.trees = DOMAIN db.indexes
    /\ \A i \in DOMAIN db.trees : \A e \in db.trees[i] : e[2] \in Rid
    /\ left \in 0..MaxStatements

\* Open accepts what is on disk: ids below next_table_id, names and pages with
\* one owner each (claim_page), pages whose rows do not overlap
\* (validate_header), statistics of tables only, a file for every index; and no
\* file is left over.
Reopens == Opens(db, db.catalog) /\ db.files = DOMAIN db.indexes

\* Every index has exactly the entries of its table's rows, at the positions
\* the rows are at, after statements that failed half way, too (executor.rs).
IndexesAgree ==
    \A i \in DOMAIN db.indexes :
        /\ db.indexes[i].table \in DOMAIN db.tables
        /\ db.trees[i] = HeapEntries(db, db.indexes[i].table)

\* What is kept twice agrees: the catalog in memory and the one that a clean
\* restart reads, which statements persist unless they undo their changes
\* (storage.rs), and the rows in the heap and in the indexes.
Persisted   == db.catalog = CatalogImage(db)
CopiesAgree == Persisted /\ IndexesAgree

\* The free space map knows every page of every table, so that no room is lost
\* for good, and never promises room that a page does not have, or had before
\* it was freed (free_space_map.rs); a new slot may still be more than there is.
SpaceHonest ==
    /\ PagesOf(db) \subseteq DOMAIN db.fsm
    /\ \A p \in DOMAIN db.fsm : db.fsm[p] <= FreeSpace(db.pages[p])

\* The rows of a table as a bag, and the bag ROLLBACK goes back to: without
\* what the log says was written, with what it says was there before.
BagOf(rows) == [r \in ToSet(rows) |-> Cardinality({k \in DOMAIN rows : rows[k] = r})]

TableRecords(t) == SelectSeq(tx.log, LAMBDA r : r.table = t)
Befores(log) == SelectSeq([k \in DOMAIN log |-> log[k].before], LAMBDA r : r # NoRow)
Afters(log)  == SelectSeq([k \in DOMAIN log |-> log[k].after], LAMBDA r : r # NoRow)

Seen(t, rows) ==
    [pk     |-> db.tables[t].pk,
     rows   |-> BagOf(rows),
     stable |-> (BagOf(rows) (+) BagOf(Befores(TableRecords(t)))) (-) BagOf(Afters(TableRecords(t)))]

SessionView == INSTANCE Tables WITH
    Reserved  <- Constraint,
    MaxRowLen <- MaxLenForFreshPage,
    tables    <- [n \in {db.tables[t].name : t \in DOMAIN db.tables} |->
                    Seen(TableId(db, n), RowsOf(db, TableId(db, n)))],
    indexes   <- [i \in {j \in DOMAIN db.indexes : ~ db.indexes[j].constraint} |->
                    [table |-> db.tables[db.indexes[i].table].name, unique |-> db.indexes[i].unique]],
    open      <- tx.open,
    full      <- CatalogSize(db) + MostAdded > Capacity

\* Storage, executor and undo do what the statements say: every row where it
\* should be, once; failures for a reason only, leaving rows changed at most;
\* keys of unique indexes never twice; ROLLBACK and restarts that bring back
\* exactly the rows from before, wherever they have moved.
Implements == SessionView!Spec

\* The positions that undo follows lead to the rows that its records are about
\* (transaction.rs:169-171): after ROLLBACK every table has the rows that the
\* log says it had.
RowsComeBack ==
    [][asked'.op = "rollback" /\ tx.open =>
          \A t \in DOMAIN db.tables \cap DOMAIN db'.tables :
              BagOf(RowsOf(db', t)) = Seen(t, RowsOf(db, t)).stable]_vars
=============================================================================
