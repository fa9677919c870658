# minidb in TLA+

A verification development for the relational database of this repository
(`src/src`): TLA+ modules translated from the code, TLC configurations that
check them on small instances, and theorems that the TLAPS proof system checks.
Every module names the source files it is translated from; `PROJECT.json` maps
each definition to the lines it stands for, and says which runs, mutated
definitions, hazards and theorems belong together.

Run a configuration with `tlc -config X.cfg M` (the tables below give `M`), a
proof with `tlapm M.tla`, `M` being one of the `*Proofs` modules of section 4.

1. [The system](#1-the-system)
2. [The modules](#2-the-modules)
3. [The runs](#3-the-runs)
4. [The proofs](#4-the-proofs)
5. [Where the code departs from its documents](#5-where-the-code-departs-from-its-documents)
6. [What is not modelled, and the plan](#6-what-is-not-modelled-and-the-plan)

## 1. The system

minidb is a single-process SQL database with a TCP server.  A client's statement
goes through the layers of this picture; the modules that model them are on the
right.

```
 client --frames--> server, worker pool, session        Server
                        | SharedDatabase: one mutex, one condition variable
                    database, transactions, undo        Transactions
                        |            |
                        |     lexer, parser             Queries, SqlParser
                        |     prepared statements       Queries, PreparedStatements
                        |     binder, rules, plans      Queries
                        |            |
                    lock manager   executor             LockManager, Storage
                                     |        statistics   Statistics
              +----------------------+------------------+
         tables in memory         storage               Storage, SlottedPages
                              heap pages   B+trees      WalRecovery, BTree
                                  |  |         |
             write-ahead log -----+  buffer pool        WalRecovery, BufferPool
                    |                  |
                    +---- files -------+--- crash recovery   WalRecovery
```

| component | state | operations | what is hard |
|---|---|---|---|
| Lock manager (`lock_manager.rs`) | per key: holders and a FIFO queue; per transaction: the Shared grants of its current statement | `acquire`, `release_all`, `take_pending_shared_grants` + `release_keys`, `wait_for_edges` | upgrades that jump the queue, promotion of a whole prefix, grants that arrive while their statement sleeps |
| Transactions (`database.rs`) | a context per transaction: state, level, undo records | `begin_tx`, `execute_in_tx`, `commit_tx`, `rollback_tx`; `detect_deadlock`, `abort_transaction` | a statement computes its keys, then acquires them one by one; a victim is undone in the middle of another's statement |
| `SharedDatabase` (`database.rs`) | a mutex, a condition variable | retry after `WouldBlock` | sleeping threads are only told to try again |
| Undo (`transaction.rs`) | undo records in memory, `prev_lsn` chains on disk, `remap` | `apply_undo_memory`, `apply_wal_undo_disk` | rows that come back elsewhere; unlogged compensation |
| Write-ahead log (`wal.rs`) | records, what was written, what was synced | append, flush, `sync_up_to` | what a crash leaves of the file |
| Recovery (`recovery.rs`) | a transaction table | analysis, redo, undo, flush | pages of any age; records that name slots |
| Storage (`storage.rs`), slotted pages, free space map | heap pages, catalog pages, index roots | insert, update, delete, `redo_*`, `checkpoint`, DDL | a page and its log record are two steps; catalog changes are not logged |
| Buffer pool (`buffer_pool.rs`) | frames, pins, dirty flags, the clock | `read_page`, `write_page`, guards, `flush_*`, eviction | a mutex for what is known of frames, a latch for each frame; latch and pin are given up one after the other |
| Statistics (`statistics.rs`, `estimator.rs`) | per table: counts, common values, a histogram for each column | ANALYZE, selectivities, rows of a plan | numbers that must fit each other, whether a table is read through an index or not |
| B+tree (`btree.rs`, `btree_page.rs`) | pages of entries, links between leaves | insert with latch coupling, lookup, range scan, lazy delete | splits under concurrent readers; keys of any length; a scan without a latch |
| Indexes and constraints (`index.rs`, `constraints.rs`) | one tree per index | check, insert, delete, rebuild | uniqueness across uncommitted rows |
| Session (`session.rs`) | the open transaction, prepared statements, execution slots | `execute`, `execute_prepare`, `drop` | who owns a transaction when a call fails |
| Cancellation (`cancellation.rs`) | a flag per statement | `cancel`, `check` | a watcher thread that races the statement |
| Server and workers (`server.rs`, `thread_pool.rs`) | a shutdown flag, a bounded queue, the workers | accept, serve, shut down | shutdown while clients idle, frames are half read, statements wait |
| Queries (`binder`, `logical_plan`, `rules`, `join_order`, `cost_model`, `statistics`, `physical_plan`, `eval`) | the plan of one statement | bind, rewrite to a fixed point, choose a physical plan, execute | columns are positions that every rewriting and every join order renumbers; three-valued logic; errors that move |
| Parser (`lexer`, `parser`) | none | words to a tree | operators and their powers; a sign that belongs to a number; clauses that may be left out |
| Prepared statements (`session.rs`) | name, bound statement, types of its placeholders | PREPARE, EXECUTE, DEALLOCATE | bound once, run later with values and over rows that nobody knew then |
| Codecs (`tuple_codec`, `protocol`, `page`), `disk_manager`, `heap_file`, `failpoint`, `slow_query_log` | files, buffers | encode, decode, read, write | sequential |

How they interact.  Worker threads call one `SharedDatabase`; each call takes its
mutex, so the database, the lock manager, the log and the storage run one call
at a time, and only *between* attempts of a statement, *between* statements and
*between* crashes do they interleave.  The server, the sessions and the watchers
run beside that mutex.  `BTree` and `BufferPool` carry latches of their own, and
their documents and tests promise that threads may share them, so they are
modelled under real concurrency although the server does not use it.

What makes each part correct:

- locks: holders of a key are compatible; nobody waits who could be granted;
  requests are served in order; every wait is visible to the deadlock detector;
- transactions: what each isolation level promises its reads; strict two-phase
  locking; the tables hold what the committed transactions left; calls return;
- log and recovery: committed changes survive any crash, others leave nothing;
- queries: what is run is what was written; the answer is what SQL says, whichever
  plan was chosen, and the same when a statement was prepared before; every rule
  keeps the rows; rewriting ends because nothing is left to do;
- storage: indexes and rows agree after every statement, successful or not; no
  page has two owners or none; a rollback and a restart bring back exactly the rows
  from before; what is written can be opened again;
- statistics: a condition they call impossible holds for no row, and the ways to
  read one table are compared by their cost alone;
- B+tree: every key that is in the tree is found at every moment of every split;
  it behaves as an ordered set of entries; latches never deadlock;
- buffer pool: a page is in one frame at most, keeps what was written last,
  and is not moved under a guard;
- server: a connection that ends leaves no lock behind, a cancellation hits the
  statement it was meant for, shutdown ends once answers are read, and flushes last.

## 2. The modules

Each component has one module, with the constants that bound it.  `MC*` modules
hold only what clients do in the small instances.

**LockManager** (`lock_manager.rs`).  The operators work on one *entry*, the
value the code keeps under one key: `AcquireEntry`, `PromoteWaiters`,
`ReleaseEntry`, `ReleaseHeldEntry`.  The loop of `promote_waiters` is the number
of requests it pops (`PromotedCount`), which needs no recursion.  The actions are
the three calls the database makes.  `EndOfReads` has the precondition
(`OnlyReads`) that the comment of `release_keys` states; `Transactions` is
checked to respect it (`LockProtocol`).

**Transactions** (`database.rs`, `transaction.rs`, `executor.rs`), on an INSTANCE
of LockManager.  `run` is the attempt that has the mutex: the keys that it still
must acquire, and a victim that it has found.  `Issue` or `Retry` computes the
keys, `LockGranted`, `LockRefused` and `DeadlockFound` are one request each,
`AbortVictim` undoes another transaction there and then, and `Select` or `Write`
is the rest of the statement.  `Backend` chooses between table locks and row
locks, `Blocking` between clients of `SharedDatabase` and of `Database`.  The
deadlock detector's cycle is the first its depth-first search finds: the least
one in the order of transaction ids.  Undo is a recursive function over the records,
last one first: in memory it finds a row by its values (`UndoneInMemory`), on disk by its
place, looked up through `remap` (`UndoneOnDisk`).  Rows are records of a key and a writer;
`seen` remembers what reads returned and `committed` what commits left, for the
properties alone.

**TransactionStore** is the abstract specification of durability: rows, live
transactions with their own changes, commits and rollbacks that happen at once,
a crash that ends every live transaction.  **WalRecovery** (`wal.rs`,
`recovery.rs`, and the parts of `storage.rs`, `buffer_pool.rs`, `transaction.rs`
and `database.rs` that keep pages and log in step) implements it.  A page has
three versions, in the pool (`cache`), handed to the system (`os`) and synced
(`disk`); the log likewise (`log`, `flushed`, `durable`).  `Crash` keeps any
prefix of the log that contains the synced part and, page by page, the synced
version or the last one written; `Recover` is analysis, redo and undo as the code
does them, `Restart` its final flush.

**Tables** is what a session sees of a database on disk: bags of rows, names of
indexes, the rows that ROLLBACK goes back to, and for every statement when it may
fail and what it may leave behind.  **Storage** (`storage.rs`, `free_space_map.rs`,
`index.rs`, `constraints.rs`, the row statements of `executor.rs`, the undo of
`transaction.rs`, and the DDL, VACUUM and ANALYZE of `database.rs`) implements it
for one session.  `db` is struct Storage with its files: the catalog in memory and
the image last written, which fits its one page or is refused; the pages of each
table, the list of free ones, the free space map; a set of entries for every index
file.  A statement works row after row on a record `w` that carries the storage
and whether all went well, and each step undoes what the code undoes when the next
one fails: a row that a tree refuses is taken out of the trees that have it
(`EnteredIn`, `TakenFrom`), and then out of the heap; loops are recursive functions, so that they can be proved about.  `Rollback` and `Reopen` undo a transaction from its records, following
rows that undo itself has moved.  **SlottedPages** (`slotted_page.rs`) has the pages
with their slots, offsets, tombstones and dead bytes, and `Compact`.  What clients send
are `Statements`, about rows from the set `Tuples`; a row has bytes, its header at least.

**OrderedIndex** is what a B+tree promises: a set of entries, searches that see
every entry that stays there throughout, scans in order.  **BTree** (`btree.rs`,
`btree_page.rs`) implements it with one step per latch: `Seek` descends for
readers, `Descend` and `Propagate` are an insert with latch coupling and the
splits that climb back, `NextEntry` is one call of the iterator, which holds no
latch in between, `Examine` and `Erase` are the two halves of a delete.  Pages
have a capacity in bytes and keys have lengths; a split divides by bytes as
`capacity_split_point` does.

**PageStore** is what a buffer pool promises: pages that hold what was written
last, under shared and exclusive guards.  **BufferPool** (`buffer_pool.rs`)
implements it: `Hit` and `LoadFree` are what happens under the mutex, `Latch` comes after it, `Drop` and `Unpin` are the two halves of
dropping a guard, `FlushFrame` and `ClearDirty` the two halves of `flush_frame`.
The loop of the clock is modelled turn by turn: `Evict` enters it, `PassOver`, `Spare`
and `Take` are what a turn does with the frame under the hand, `PoolFull` is its end after
`Rounds`.  The thread in it keeps the mutex (`MutexFree`), so that others can latch, change
and release pages and write dirty ones between two turns, but neither pin nor unpin.

**Server** (`server.rs`, `thread_pool.rs`, `session.rs`, `cancellation.rs`).  The
accept loop, the queue, workers, watchers, the shutdown handle, and clients that
send whole frames, parts of frames and garbage, read their answers or leave them, and close
when they like.  An answer that does not fit into the socket makes its worker wait for the
client (`Answer`, then `ReadAnswer` or `WriteFails`).  The database is reduced to one lock and the condition variable.

**Queries** (`session.rs` `execute`, `database.rs` `execute_select`) is a session of
statements on their way: sent, parsed, bound, rewritten by one rule after another
until a round changes nothing, planned, and executed; or prepared, and executed
later.  The client's script says what it means, `Send` how it writes it (briefly, in
full, or with a second statement behind it), and the rows may be others for each
statement.  INSERT, DDL and the rest are parsed here and handed over to the modules
that model them.  Its parts are pure and have modules of their own: **SqlExpressions**
(`eval.rs`, the operations of an expression with NULLs and overflow, and the
traversals that renumber its columns), **SqlParser** (`lexer.rs`, `parser.rs`), **PreparedStatements**
(`session.rs`, the types of placeholders and the values put in for them),
**LogicalPlans** (`binder.rs`, `logical_plan.rs`), **RewriteRules** (`rules.rs`), **PhysicalPlans**
(`physical_plan.rs`, `join_order.rs`) and **Executors** (the operators, as the rows
they yield and whether they end in an error, since LIMIT stops before an error
that comes later).  What the cost model decides is a choice: `Optimize` gives the
set of all plans that some statistics could make the cheapest, with the rules of
the dynamic programme for which orders it considers.  **SelectSemantics** says what
the answer should be without any plan, over the set of picks of one row per table;
it takes only names and types from the binder.  **SqlText** says how a statement is
written, with parentheses only where precedence needs them, and what an EXECUTE means:
the prepared text with the values written out.  These modules use recursive
operators, on trees, and are for TLC alone.

**Estimates** (`statistics.rs`, `estimator.rs`, the costs of `physical_plan.rs` and
`cost_model.rs`, and what `storage.rs` accepts of statistics) extends PhysicalPlans by
numbers: ANALYZE's common values and equi-depth histogram, the shares of rows for which
a predicate is true, false and unknown, and the rows of a plan.  An `f64` is an exact
ratio of integers, so that what is compared is the formulas and not the rounding.
**Statistics** is a table whose rows come and go with ANALYZE in between.  Four helpers take an operator as a
parameter and are not among the entries of the map: `MapChildren` and `MapExprs`
(`rules.rs:832` and `894`), `Pull` and `Read` (`physical_plan.rs:1914` and `2502`).

## 3. The runs

| run | module | instance | states | what it checks |
|---|---|---|---|---|
| LockManager | MCLockManager | 4 transactions, 2 keys, symmetric | 41,000 | `LockCompatibility`, `NoLostWakeup`, `PendingExact`, `WaitersHaveEdges`, `NoOvertaking` |
| MemoryTables | MCTransactions | 3 transactions, 2 tables locked as wholes, 2 statements each, deletes among them | 735,000 | `AtRest`, `NoDirtyReads` |
| RowLocks | MCTransactions | 3 transactions of three levels, rows locked one by one | 662,000 | `WritesLocked`, `RepeatableReads`, `NoPhantoms`, `ReadLocksReleased`, `LockProtocol` |
| AnyStatement | MCTransactions | 3 transactions that delete, re-insert and update, commits that are refused | 90,000 | `CallsReturn` |
| CrashRecovery | WalRecovery | 2 transactions of 2 writes, 2 pages of 2 rows, 2 crashes | 378,000 | `WalFirst`, `RedoIsExact`, `Implements` |
| Restarts | WalRecovery | the same with checkpoints and work after a restart | 201,000 | `Implements` |
| Server | MCServer | 2 clients with scripts of 2 and 3 frames, 2 workers, a queue of 1 | 505,000 | `LocksHaveOwners`, `FlushedLast`, `CancelsItsStatement`, `ShutdownCompletes` |
| BTree | MCBTree | 3 threads, 8 keys, pages of 2 to 4 entries | 211,000 | `PagesFit`, `Searchable`, `NoDeadlock`, `Implements` |
| BufferPool | MCBufferPool | 2 threads with 2 guards each, 3 pages, 2 frames, 2 changes | 1,693,000 | `PinsExact`, `FullMeansPinned`, `Implements` |
| Queries | MCQueries | 201 sessions of 259 statements on 4 databases of 3 tables with up to 4 rows, all plans | 20,000 | `AnswersRight`, `ParsedAsWritten`, `RewritesKeepRows`, `RewritingSettles` |
| Storage | MCStorage | 2 tables, 3 beginnings, 4 of 25 statements, pages of two short rows | 30,000 | `CopiesAgree`, `Reopens`, `SpaceHonest`, `Implements` |
| Statistics | MCStatistics | a column of 4 values and NULL, up to 7 rows, 3 buckets, 2 common values | 6,200 | `FrequentStandOut`, `NoFalseZero`, `PathsAgree`, `JoinsBounded` |

What the properties say, in a line each; the comment over each definition says it
in full and names the code.

- *LockManager.* `LockCompatibility`: holders of a key are one or all Shared.
  `NoLostWakeup`: the head of a queue is blocked.  `PendingExact`: what a sleeping statement was granted
  is held and remembered.  `WaitersHaveEdges`: the deadlock detector sees every wait.
  `NoOvertaking`: a step grants in the order of the queue.
- *Transactions.* `WritesLocked`: what is changed is locked until the end.
  `RepeatableReads`, `NoPhantoms`, `NoDirtyReads`: what the levels promise.
  `AtRest`: with nobody running the tables are what commits left.
  `ReadLocksReleased`, `LockProtocol`: only read locks are given up early.
  `CallsReturn`: every call of a client is answered.
- *WalRecovery.* `WalFirst`: no page is ahead of the log.  `RedoIsExact`: redo neither
  skips nor repeats a record.  `Implements`: the whole is a TransactionStore.
- *Server.* `LocksHaveOwners`, `FlushedLast`, `CancelsItsStatement`.  `ShutdownCompletes`:
  shutdown ends if clients read what they are answered.
- *BTree.* `PagesFit`, `Searchable`, `NoDeadlock`, and `Implements`: an OrderedIndex.
- *BufferPool.* `PinsExact`.  `FullMeansPinned`: two rounds of the clock find every frame
  that is not in use.  `Implements`: the pool is a PageStore.
- *Queries.* `ParsedAsWritten`: no operator takes another's operand, no clause is lost,
  nothing runs of a text that goes on.  `AnswersRight`: the answer is SQL's, and EXECUTE
  is the statement with its values written out.  `RewritesKeepRows`: no rule
  changes the rows or the types of the columns.  `RewritingSettles`: the fixed point is
  one, and nothing stands between the planner and a scan there.
- *Storage.* `Reopens`: what is on disk can be opened.  `CopiesAgree`: the catalog on disk
  is the one in memory, also after a statement that failed (`Persisted`), and every
  index has the entries of its table's rows (`IndexesAgree`).  `SpaceHonest`: the free
  space map knows every page and promises no room there is not.  `Implements`: the whole
  is Tables.
- *Statistics.* `FrequentStandOut`: every value is counted once, frequent ones by
  themselves.  `NoFalseZero`: the impossible does not occur.  `PathsAgree`: every access
  path is expected to yield the same rows, when the condition has its columns without
  parentheses.  `JoinsBounded`: a join's estimate is between
  the rows it must and can have.

Each module states a `TypeOK`, for a reader and as the first part of a proof; those of
LockManager, BufferPool, Server and WalRecovery are proved (section 4).

Why the bounds are enough for what is asked:

- *LockManager*: with four transactions a key can have a holder, an upgrade, and
  two more requests behind it, so that promotion stops in the middle of a queue;
  with two keys there are waits across keys.  There is no bound on the number of
  calls: the state space is finite.
- *Transactions*: three transactions are the fewest for which a statement breaks
  one cycle and stays in another, for which a victim is neither the requester nor
  its only obstacle, and for which a queue has a middle.  Two statements are the
  fewest for a transaction to hold one lock and want another.  The work of the
  clients is a set of statements per run, chosen so that upgrades, inserts under
  readers and updates in opposite orders occur; `MemoryTables` and `AnyStatement` have the
  deletes and re-inserts that make undo interesting, in memory and on disk.  The third
  slot of a table in `MemoryTables` is room for a row that would be put back twice.
- *WalRecovery*: two pages differ in age in every way that redo can notice; two
  slots make a slot that is freed and taken again; two crashes make recovery run
  on what an interrupted second life left.  A rollback or a recovery that would need more
  pages than the model has is left out (`fits`).  Rollbacks and crashes are kept apart
  (`Rollbacks = "instead of crashes"`), work after a restart begins with a
  checkpoint on pages that carry LSNs (`"stamped"`), and recovery is not
  interrupted (`LateCrashes = FALSE`), because the code goes wrong otherwise: the
  configurations of section 5 lift each of these limits and show how.
- *Server*: two workers and two clients are the fewest for which one connection
  waits for another's lock while shutdown begins; a queue of one can be full, with
  a third party refused, while both workers are free or busy.
- *BTree*: a leaf takes two long keys and an internal page two separators, so the
  root splits twice and a leaf splits under a scan that stands on it; the lengths
  10, 11 and 2 meet the largest key that is accepted, one that is too long by a
  byte, and a short one that makes splits uneven.
- *BufferPool*: three pages in two frames force eviction while both threads have
  pins; two changes make a lost one visible.

- *Queries*: the statements are products of conditions of ON and of WHERE, so that
  each kind of conjunct meets each kind of join, on both sides, above and below; the
  databases have an empty table, NULLs and duplicates in indexed columns, a zero to
  divide by, and numbers whose sum overflows at `MaxInt`, which stands for the
  largest `i64`.  With `MaxDpTables = 3` instead of 8 the order of FROM is used for a
  fourth table; with three tables every order and every algorithm is met.  Four
  sessions prepare statements with placeholders of known, of inferred and of no type,
  under an aggregate, in a GROUP BY, twice with two types, past `MaxParamIndex` (which
  stands for 10,000), in LIMIT; they execute them with too few values, NULLs and wrong
  types, and after DEALLOCATE.  Expressions mix every pair of neighbours in precedence
  on both sides, signs of signs and the smallest number.

- *Storage*: 8 bytes of payload hold two short rows or one long one, so that rows
  move, pages fill, empty and are freed; a catalog of 18 units is full after a few
  tables, pages and indexes; rows of 5 and 7 bytes are too long for an index and for
  a page; the three beginnings have a primary key, equal keys on two pages, and a
  tombstone before them.  `Risks = {}` keeps away from the behaviours of section 5.
- *Statistics*: seven rows of four values fill three buckets and two common values
  with some to spare and with runs of equal values on every border; one change after
  an ANALYZE makes it stale.

Deadlock is checked in every run except those in which the system really stops:
`AnyStatement` (clients that lost a handle), `CrashRecovery` and `Restarts` (the
bounds end the behaviour, the database may be down), `Queries` (the script ends) and
`Storage` (the bound on statements ends it).

Fairness.  Liveness is stated under the fairness that scheduling gives.
`Transactions!Fairness`: the thread that has the mutex goes on (WF); a notified
thread gets the mutex if it is free again and again (SF, a mutex that does not
starve); a client whose call has returned ends its transaction (SF; nobody could
be promised a lock otherwise).  `Server!Fairness`: threads that can run do so
some day (WF), which a thread that writes to a full socket cannot; `accept` may always or
never fail.  Clients owe nothing, but `ShutdownCompletes` is said of behaviours in which
no client leaves an answer unread for ever: *SlowReader* shows one in which it does.

Every property has a mutant in `PROJECT.json`: a definition that carries a
plausible bug (marked *Fault* in the modules), with which TLC finds the property
violated in the same instance.

## 4. The proofs

Seven modules of proofs and one of lemmas that three of them share (`InductionLemmas`),
checked by `tlapm` for every value of the constants: any number of transactions, tables,
rows, threads, pages, frames, clients, workers, crashes, calls, and keys of any length.

| theorem | property | of | under |
|---|---|---|---|
| `LockManagerProofs!TypeCorrect` | `TypeOK` | LockManager | |
| `LockManagerProofs!LocksCompatible` | `LockCompatibility` | LockManager | |
| `LockManagerProofs!QueuesDisciplined` | `QueueDiscipline` | LockManager | |
| `LockManagerProofs!WakeupsNotLost` | `NoLostWakeup` | LockManager | |
| `LockManagerProofs!WaitersSeen` | `WaitersHaveEdges` | LockManager | |
| `LockManagerProofs!GrantsRemembered` | `PendingExact` | LockManager | |
| `LockManagerProofs!FirstComeFirstServed` | `NoOvertaking` | LockManager | |
| `TransactionsProofs!TransactionsAreSound` | `TxInv` | Transactions | `Blocking`, `RowsStay` |
| `TransactionsProofs!ChangesStayUnderLock` | `WritesLocked` | Transactions | the same |
| `TransactionsProofs!ReadsAreRepeatable` | `RepeatableReads` | Transactions | the same |
| `TransactionsProofs!NoRowAppears` | `NoPhantoms` | Transactions | the same |
| `TransactionsProofs!ReadLocksEndWithTheRead` | `ReadLocksReleased` | Transactions | the same |
| `TransactionsProofs!TransactionsUseTheLockManager` | `LockProtocol` | Transactions | the same |
| `TransactionsProofs!ChangesAreSound` | `ChangesInv` | Transactions | the same |
| `TransactionsProofs!HeapIsCommitted` | `AtRest` | Transactions | the same |
| `TransactionsProofs!ReadsAreClean` | `NoDirtyReads` | Transactions | the same |
| `BufferPoolProofs!PlacesRight` | `TypeOK` | BufferPool | |
| `BufferPoolProofs!PinsAreExact` | `PinsExact` | BufferPool | |
| `BufferPoolProofs!FullOnlyIfPinned` | `FullMeansPinned` | BufferPool | |
| `BufferPoolProofs!PoolImplementsStore` | `Implements` | BufferPool | `FlushesAlone` |
| `ServerProofs!ServerIsSound` | `ServerInv` | Server | |
| `ServerProofs!EveryWorkerIsSomewhere` | `TypeOK` | Server | |
| `ServerProofs!LocksAlwaysHaveOwners` | `LocksHaveOwners` | Server | `~CarelessCommits` |
| `ServerProofs!NobodyAfterTheFlush` | `FlushedLast` | Server | the same |
| `ServerProofs!WatchersCancelTheirStatements` | `CancelsItsStatement` | Server | |
| `WalRecoveryProofs!Typing` | `TypeOK` | WalRecovery | |
| `WalRecoveryProofs!WriteAhead` | `WalFirst` | WalRecovery | |
| `WalRecoveryProofs!RedoRight` | `RedoIsExact` | WalRecovery | `Careful` |
| `BTreeProofs!TreeAlways` | `TreeInv` | BTree | `DeletesAlone` |
| `BTreeProofs!TypesAlways` | `TypeOK` | BTree | the same |
| `BTreeProofs!PagesFitAlways` | `PagesFit` | BTree | the same |
| `BTreeProofs!NeverDeadlocked` | `NoDeadlock` | BTree | the same |
| `BTreeProofs!OrderAlways` | `OrderInv` | BTree | `DeletesAlone`, `OwnKeys` |
| `BTreeProofs!SearchableAlways` | `Searchable` | BTree | the same |
| `BTreeProofs!TreeImplements` | `Implements` | BTree | the same |
| `StorageProofs!SpaceAlways` | `SpaceHonest` | Storage | |
| `StorageProofs!ReopensAlways` | `Reopens` | Storage | |

Besides the sizes that the modules assume of their constants (counts are
positive numbers), the last column has all hypotheses.  Each is one of the deviations
of section 5 turned round, without which the property is false:

- `Blocking`: clients go through `SharedDatabase`, as the server's do, and try a
  refused statement again (*HarnessReads* has one that does not).
- `RowsStay`: on disk, where locks are on rows, no statement inserts or deletes.
  *StaleKeys*, *UndoFails*, *DirtyInsert* and *SerializablePhantom* are what
  happens otherwise.  Tables in memory, locked as wholes, grow and shrink as they
  like.  The run RowLocks also has inserts of SERIALIZABLE transactions into a table
  where nobody updates the new rows; that is only model-checked.
- `FlushesAlone`: nobody writes while a thread flushes, since `flush_all` is called
  under the database's mutex (`storage.rs:595`); see *FlushRace*.
- `~CarelessCommits`: clients read the answers before they commit; see *OrphanedLocks*.
- `Careful`: no transaction is rolled back before a crash (*RedoSlots* has one), and
  after a restart clients wait until there is a checkpoint and every page with rows
  carries an LSN (*FreshPageLost* does not wait, and violates `RedoIsExact` too), or do nothing.  The bounds of the run
  are not needed: there may be any number of crashes, and `LateCrashes` may be TRUE.
- `DeletesAlone`: no delete runs next to another writer of the same tree, as under the
  database's mutex; see *DeleteRace*.  Inserts and scans run next to each other and
  to themselves.
- `OwnKeys`: the tree is a unique one, and no two threads insert the same key.  Without
  the first, parents and links disagree about equal keys (*DuplicateKeys*); without the
  second, an insert may find a key that was not there when it was looked up
  (*UniqueRace*).  A thread may insert a key twice, delete it and insert it again.
  The first four theorems of BTreeProofs do not need this.

**LockManagerProofs.**  Queues are sequences of any length, transactions and keys
need not even be finite in number.  No property is inductive alone: a promotion keeps
holders compatible only if each transaction is in the queue once and upgrades are
in front (`QueueDiscipline`), and it leaves no grantable request only if the queue it
started from was well formed.  The inductive invariant `LockInv` is therefore about each
entry: `EntryInv` (types, compatible holders, a disciplined queue, a head that is
blocked).  A release first breaks its last part: `ReleasedInv` is what remains
between the removal of a holder and the promotion, and `PromoteWaitersInv` shows
that promotion restores the rest.  That lemma rests on `PromotedCountExists`
(there is a number of requests at which the loop stops: the least index that is
not grantable, by well-foundedness of the naturals), on `HoldersAfterPops` and
on `PromotionKeepsCompatible`.  `GrantInv`, `EnqueueInv`, `DropHolderInv` and
`DropWaiterInv` do the same for the other operators, and `LockInvInductive` puts
them together, one step per action.  `GrantsRemembered` is a second induction on top of
the first: a transaction's lock is only ever changed by its own calls or by a promotion,
which never turns an Exclusive lock into a Shared one (`PromotionKeepsHolders`).
`FirstComeFirstServed` is about steps: `PromotionInOrder` and `DropWaiterOrder`
say that promotion takes a prefix and that leaving a queue keeps the order of the
others.

**TransactionsProofs** builds on them (`LMP == INSTANCE LockManagerProofs`): as long
as every step is a call that the lock manager expects, or none, `LockInv` and
`PendingExact` hold here too (`LocksStayRight`).  That the steps are such calls is
itself part of the induction, because `EndOfReads` may only be given the keys of
reads.  The inductive invariant `TxInv` says of every transaction, in `TxnInv`,

- that whoever waits is in a call and waits for a key which that call needs
  (`RequestsWanted`), and that an attempt holds what it no longer has to ask for
  (`RunRight`): together they make a granted request a step towards the statement, and
  they are what fails when rows disappear between two attempts;
- that under READ COMMITTED the grants on record are Shared locks of one SELECT
  (`GrantsOfSelect`), hence `ReadLocksReleased` and the precondition of `EndOfReads`;
- that the slots of its undo records are locked by it (`ChangesLocked`) and so are the
  rows, or the table, that it has read (`ReadsLocked`); so nobody else's write or undo,
  which are under exclusive locks, can touch them, and `StillThere` and `NothingNew`
  stay true (`LockTable`, `ChangesApart`, `LeftAlone`).

`UndoRight` follows a rollback through its records: it succeeds, and leaves alone every
slot that none of them is about.  It is an induction
over the steps of `Undo`, a recursive function, by the least step that fails
(`UndoneBy`, `UndoStays`); keys are taken in ascending order by `Rank` and `Nth`, which
`RankNth` shows to number a finite set (`KeysRight`).

That undo is the exact inverse of what its transaction did needs a second invariant,
`ChangesInv`, about what an undo log tells.  `Past(undo, heap, m, tab, s)` is what
was in a slot when the log had `m` records: what the next record of that slot found there,
or what is there now.  `ChangesInv` says

- that a log is the history of its rows (`Recorded`): each record left what the next one
  of its slot found, the first one of a slot replaced a row of a committed transaction,
  and at no time did a table have a key twice, nor has it now (`KeysUnique`);
- that every row was written by a committed transaction or by one whose log has it
  (`WritersKnown`), hence `NoDirtyReads`: a reader's lock keeps those with a log away;
- that the rows that would be there if everybody rolled back, the first ones of the
  histories, are exactly the committed ones (`CommittedRight`), hence `AtRest`.

The unique keys of the past are what undo in memory depends on: it looks for the values that a
record left, and only one row has that key (`UndoneInMemory`, `PutBackRow`).  By
`UndoRestores` each record takes the heap one step back in its history, so that at the
end every slot has what was there before.  `WriteChanges`, `UndoneChanges` and `CommitChanges` are
the three kinds of step: `PastGrows` says that new records leave the earlier history as it
was, `LogStays` that a log does not mind what others do to rows it has not locked, and
`CommittedRows` that merging a log into the committed rows key by key
(`WithChanges`) is the same as taking for each slot of the log what is there now.
`VictimActive` is for the abort of a victim: a transaction in a cycle waits for a lock, so
it has not ended.

**BufferPoolProofs.**  `PoolInv` ties the three tables of the pool together
(`PlacesAgree`: page table, occupants and frames tell the same story), keeps the
guards of one thread on different frames (`GuardsApart`), and counts: the pins of a
frame are the threads that hold it, wait for its latch, or are about to unpin it
(`PinsExact`).  The count is needed for the rest: eviction takes a frame with no pins,
so nobody's (`UnpinnedUnused`).

`FullOnlyIfPinned` is about the clock.  For each frame, `Needed` is how many turns it takes to
have it: those until the hand is over it, and a whole round more if it is referenced.
`SweepRight` says that whoever sweeps has as many turns left for every frame without a
pin, and what `Take` relies on: nobody else sweeps, no frame is free, and the page has not been
loaded meanwhile.  A turn keeps this because the hand comes nearer to every frame but the one it
leaves, whose bit it has cleared, and because nobody pins, unpins or
references a frame during a sweep.  When no turn is left, no frame is without a pin.

The refinement needs a second invariant, `CleanInv`:
a frame that is not dirty holds what is on disk, unless someone holds its write latch
or is on the way to mark it dirty (`CleanOnDisk`); a thread that flushes and has written a frame
may clear its mark (`FlushedOnDisk`); and writers and flushers keep apart (`Alone`).
`PoolImplementsStore` then maps every step to a `PageStore` step or a stutter:
loading and flushing stutter because the value of a page is that of its frame or else
that on disk (`LoadStutters`, `FlushFrameStutters`), `Latch`, `Drop` and `Change`
are `Latch`, `Unlatch` and `Write` there.

**ServerProofs.**  `ServerInv` accounts for every worker (`WorkersCounted`: idle, ended
or at a connection that is being served), for the queue (`QueueRight`: who is in it,
once, and nothing is when a worker has ended) and for the slots of the statements
(`SlotsRight`: the flag of the statement that runs is set exactly if its own watcher has
fired; flags of earlier ones do not matter, and none of a later one is set).
`CancelsItsStatement` is a step property that follows from the last.  `Owned` ties
transactions and sleepers to served connections.  `CarefulInv` adds that the lock has a
transaction, for which one must know that a commit under way never finds a failed
one (`CommitsCareful`, from the moment it is sent to the moment it is run).
`NobodyAfterTheFlush` needs all of it: when every worker has ended, nobody is served.

**WalRecoveryProofs.**  Redo, undo and the undoing of all losers are recursive functions over
the log; `Folds` gives them their values, and `UndoRight`, `RedoRuns` and
`UndoLosersRight` carry types through them.  `WellLogged` is what makes the chains of
`prev_lsn` lead back to a Begin record, and the moves of rows name rows.  With it
`WalInv` says where everything is: `synced <= handed over <= appended`, pages in the pool
are not ahead of the log and pages on the disk not ahead of the synced log
(`Behind`).  A crash keeps `Behind` because what is lost of the log was not
synced, recovery because undo stamps nothing (`Restored`).

`RedoRight` needs to know which versions of a page a crash can leave.  `Replays` gives the
pages a history: `rep[i]` are the pages after the first `i` records, from a place `c` of
the log on where they had everything that came before, each record having done to
`rep[i - 1]` what `PageAfter` says.  `Accounted` is the invariant: the pool shows the last version, and
every page on the disk is one of its versions (`Stage`) or has all records of
the log about it (`Final`, which is what recovery makes).  A version is the page at any time since
its stamp (`VersionsRight`); so a crash that shortens the log shortens the history with it
(`ReplaysShrink`, `KeptByCrash`), and redo, by induction over the log, leaves a page alone as long as it
is ahead and then repeats its history record by record, finding the slot that each record names
(`RedoOnePages`, `RedoIsRight`).  A checkpoint and a restart begin a new
history (`ReplaysFrom`), and no checkpoint record lies behind `c`, so that redo
starts early enough.  A rollback before a crash breaks the invariant at
once: what it does to the pages is in no record.

**BTreeProofs.**  Sizes and latches are proved from one invariant, `TreeInv`.  *Sizes*: the bytes of a page
are a recursive function of its entries, and `LenOfParts` and `InsertSortedRight` say how they add up;
an accepted key makes an entry of at most `Largest` bytes, two of which fit into any
page, so that a page that overflows by one entry splits into halves that fit
(`SplitRight`, about `capacity_split_point`).  A parent whose latch was let go of has
`Roomy` children: the topmost page that a thread still holds is the root or takes one more
separator of any length, so that `Propagate` never runs out of latches.  *Order*: there are
levels (`Ranked`), numbers of pages that fall from parents to children and
from each latch of a thread to the next, with the root on top.  A split gives the new page
the level of the old one, and a new root lifts the root alone (`Halved`, `GrowRight`), which
breaks nobody's order: the writer has the root to itself, and what others hold is below.  A thread's
`Depth` is the level of its lowest latch; whoever it waits for is deeper
(`WantsLower`, `HoldersLower`), and so the deepest of those who wait waits for none of them.
The levels are an existentially quantified function, not the height of the tree:
pages that a split has not yet reported have a level, though no parent.
`DeletesAlone` is needed because `Erase` writes what was read under an earlier latch,
on a page that must still be a leaf.

The order of keys builds on `TreeInv`.  What `Searchable` says of links and parents is
not inductive: while a split travels upwards its new page has no parent, and a reader may be
on either half.  The invariant `OrderInv` therefore says that there is a chart (`lo`, `hi`
and `level` of every page) in which the pages of one level have ranges of keys that do not
meet (`Areas`), the root has all keys, leaves keep theirs in order and are followed by the leaf
with the next range (`LeafDrawn`), and an internal page with its separators, *and with the
one that is on its way to it* (`Meant`), divides its range among its children (`Node`).  A
split is a new chart, in which one range is cut in two (`SplitLeafOrder`,
`SplitInternalOrder`); `LiftOrder` hands the half over to the parent whose latch is still
held, and where there is none, `GrowOrder` raises the root by a level.  The other half of the
invariant is about threads.  `Reads`: whatever a reader still has to find (`Sought`: what a scan owes
and has not yielded, the key of a lookup, the entry of a delete) is at or behind the start
of the page it stands on, which is the page it has a latch on, or the leaf that it only
remembers; writers may split that leaf, or raise it to be the root, which changes
its end but never its start.  `Writes`: the key of an insert lies in the range of every page it
has latched, so it ends in the one leaf that may have it.  `Told` says what has been
found out so far.

`SearchableAlways` reads the chart: the way down ends at a leaf that begins at or before
the key (`LeafForRight`), and the links go through the leaves by ascending starts
(`LinksRight`, by the last leaf from which they would not).  `TreeImplements`
maps every step to one of OrderedIndex or to a stutter: an insert takes effect when its leaf
is written, before any split is reported (`DescendInserts`), so `Propagate` changes
nothing that is seen; a delete that returns without its entry has looked at the leaf that would have it
(`ExamineDeletes`, by `Looked`); what a scan yields is the nearest of what is left
(`YieldYields`), and when it ends nothing is (`NothingLeft`, `ExhaustedEnds`).

**StorageProofs** needs no hypothesis of the section on deviations: whatever of section 5
happens to rows and index entries, pages stay apart.  *Pages*: `PageOk` is what `validate_header`
insists on, and one thing more, that compaction takes no room: the rows of a page, packed, begin at or
behind where they begin now (`page.start <= Compact(page).start`).  Without the second part
`WellFormed` is not inductive, because a row of another length is written into a page that
was compacted while the old row was still in it.  Where a packed row begins is a sum over
the slots before it (`CompactShape`); `CompactStart` compares the sums of two pages that differ in one
slot, which is all that `WriteOk`, `DeleteOk` and `UpdateInOk` need.  *Tables*: `DbOk` says of
the catalog in memory, *and of the one on disk*, that each page has one owner (`OneOwner`:
a table or the free list, once), that ids and names are unique (`Named`), and that the files are those
of the indexes; and that the pages lie in the file without a gap (`PagesOk`), so that the page
behind the last one is nobody's (`PagesAre`).  The two catalogs need not be the same one, and that
is what makes the invariant hold through failures: a statement that cannot persist, a VACUUM whose
indexes cannot be rebuilt or an undo that fails leaves two catalogs, each of them sound for the same pages.
`Rewrites` and `FilledOk` are about one page, `InsertRowOk`, `DeleteRowOk`, `UpdateRowOk` and
`UndoOneOk` about one row (`Step`), `RunsKeep` carries them along the recursions (`WorksKeep`), and
`PerformOk` has one case per statement (`Ends`).  `VacuumedOk` is the delicate one: pages leave a table for
the free list while the catalog on disk still gives them to the table.

Only model-checked:

- Liveness (`CallsReturn`, `ShutdownCompletes`), which the prover cannot reach.
- `Implements` of WalRecovery, which needs the exact effect of undo on pages and log across crashes;
  beyond the two writes of the run it is false (*UndoLoops* needs a third).
- Trees with keys that are there several times: `PagesFit` and `NoDeadlock` are proved of
  them, `Searchable` is false (*DuplicateKeys*).
- `CopiesAgree` and `Implements` of Storage.  `Persisted` needs that VACUUM can always
  rebuild its indexes, hence `IndexesAgree`, and that needs undo to find its rows where
  it looks for them, hence what `Risks` keeps away (*RollbackLosesRow*, *HalfUpdated*).
- Queries and Statistics: their operators are RECURSIVE over trees, and tlapm has no
  backend for what uses them.

## 5. Where the code departs from its documents

Each of these was met while the modules were written: a configuration finds the
behaviour, and the passing runs say by a named constant that they keep away from
it.  Each ends in a violation of the property that is named, alone in its
configuration.  Where there is a file `X.cfg`, run it; where the first column names
a run, take that run's configuration with the constants that are given.

| configuration | module | property | code | what happens |
|---|---|---|---|---|
| *OrphanedLocks*: `OrphanedLocks.cfg` | MCServer | `ShutdownCompletes` | `session.rs:303` | Session::execute takes the TxHandle out of the session before commit_tx refuses the aborted transaction (database.rs:789); neither a later ROLLBACK nor Drop can release its locks, a statement that needs one sleeps in Condvar::wait for ever, and WorkerPool::join never returns. src/src/server.rs:36 says "保持中の`TxHandle`があれば無条件に`rollback_tx`する" (Drop rolls back unconditionally, so that no lock is waited for for ever, lines 32-36). |
| *SlowReader*: Server | MCServer | `ShutdownAlwaysCompletes` | `server.rs:312` | Timeouts are set for reading only (line 348): a worker that writes an answer waits for a client that has stopped reading, sees neither the flag nor a cancellation, and WorkerPool::join never returns.  src/src/server.rs:79 says that shutdown waits for a statement to end, "その文が終わる(または…打ち切られる)まで待つ" (lines 75-81: connections look at the flag and end, and join waits for just that). |
| *FourTables*: `FourTables.cfg` | MCQueries | `AnswersRight` | `join_order.rs:322` | A condition of WHERE on tables that the first joins already bring together is pushed down and stays as a filter between two joins: flatten_join_chain takes the join below it for one leaf, although the join order finds tables by the position of their leaf. remap_condition then subtracts the offset of another table from the index of a column, and the query panics. src/src/physical_plan.rs:444 says that pushdown adds filters but "`Join`の構造そのもの(どの2つが結合されるか)は変えないため、この前提は物理計画への変換時点でも保たれている" (lines 444-445: pushdown does not change the structure of the joins, so each right side is still one table when the plan is made). |
| *DuplicateKeys*: BTree, with `Thread = {t1}`, `Calls <- Duplicates`, `Unique = FALSE` | MCBTree | `MissesNothing` | `btree.rs:1350` | internal_insert_position puts a separator behind the equal ones that are there, although the leaf it leads to comes directly after the leaf that was split: parents and links disagree about the order of the two leaves, a larger key is inserted into the first of them, and lookup stops there although equal keys follow. src/src/btree.rs:336 says of lookup "一致したキーが複数のLeaf Pageへまたがっていても取りこぼさない" (nothing is missed even if the matching keys are on several leaves). |
| *RollbackThenCrash*: CrashRecovery, with `MaxWrites = 1`, `MaxCrashes = 1`, `Rollbacks = "before crashes"` | WalRecovery | `OnlyCommitted` | `database.rs:2543` | ROLLBACK undoes the pages without logging what it does and writes Abort; after a crash redo repeats the original records and analysis leaves the transaction out of undo. src/src/recovery.rs:95 says "`Commit`または`Abort`をすでに見た(=Undo不要)なら`true`" (Abort was seen, so no undo is needed). |
| *ScanRepeats*: BTree | MCBTree | `YieldsOnce` | `btree.rs:1312` | A leaf that splits between two calls of next takes the entry that was just yielded to the next leaf, which is read from that key on, and it is yielded again. src/src/btree.rs:1308 says of the entries with that key on the next leaf "それらは一度も返していないので正しく返せる" (none of them has been returned yet). |
| *DeleteRace*: BTree, with `DeletesAlone = FALSE` | MCBTree | `Implements` | `btree.rs:454` | delete drops the latch under which it read the leaf and writes what it read under another: an insert or a split in between is lost. src/src/btree.rs:445 says that the guard is kept so that no other thread can rewrite the page in between. |
| *UniqueRace*: BTree, with `Calls <- SameKey` | MCBTree | `Implements` | `btree.rs:577` | insert looks a key up before it latches anything: two threads insert the same key into a unique tree. |
| *StaleKeys*: RowLocks, with `Table = {1}`, `Id = {1, 2}`, `NSlots = 2`, `Work <- DeleteWork` | MCTransactions | `WritesLocked` | `database.rs:1295` | acquire_write_locks computes its keys before it asks for the first one and does not recompute them, although a refused request may undo a victim's changes in between; the second scan of storage_update then finds rows that were never locked. src/src/executor.rs:559 says "ロックを獲得したあとで書き換え対象が変わる余地は無い" (what is rewritten cannot change once the locks are held). |
| *DirtyInsert*: RowLocks, with `NTxn = 2`, `Seeded = 1`, `Work <- InsertWork` | MCTransactions | `NoDirtyReads` | `database.rs:1605` | INSERT on disk locks nothing below SERIALIZABLE, so a READ COMMITTED query takes a free Shared lock on the new RecordId and returns the uncommitted row. src/tests/interleave_disk.rs:9 says "Lost Update・Dirty Read・Non-repeatable Readは Tuple Lockでも防がれる" (tuple locks prevent dirty reads). |
| *UndoFails*: RowLocks, with `NTxn = 2`, `Work <- AnyWork` | MCTransactions | `RollbackSucceeds` | `transaction.rs:259` | The undo of a DELETE inserts into the unique index, which refuses the key when another transaction inserted it after the uncommitted delete; ROLLBACK ends with an error, its locks stay. src/src/transaction.rs:189 says "逆操作はすでに一度検証を通過した値へ戻すだけなので" (the inverse operation only restores values that were validated before). |
| *HarnessReads*: RowLocks, with `NTxn = 2`, `MaxStmts = 3`, `Blocking = FALSE` | MCTransactions | `WritesLocked` | `database.rs:1247` | A caller of Database that gets WouldBlock for an UPDATE under an upgrade or a queue and issues a SELECT instead is granted the Shared lock while it waits, writes the row later under it, and the pending grant releases the key at the end of a READ COMMITTED query. src/src/database.rs:1216 says "同じ鍵であっても元から持っていたロックはCOMMIT・ABORTまで保持する" (even on the same key a lock held before is kept until COMMIT or ABORT). |
| *CommitOfAborted*: RowLocks, with `NTxn = 2`, `Table = {1, 2}`, `Id = {1, 2, 3}`, `Work <- RowWork`, `Failures = TRUE`, `CommitAborted = TRUE` | MCTransactions | `AbortedCanRollBack` | `database.rs:789` | commit_tx takes the TxHandle by value and returns only an error for an aborted transaction: nobody has a handle to roll it back with, and its locks stay for ever. src/src/database.rs:787 says "`ROLLBACK`しか受け付けない" (only ROLLBACK is accepted from then on). |
| *SerializablePhantom*: RowLocks, with `NTxn = 2`, `Table = {1}`, `Id = {1, 2}`, `Work <- SerializableWork` | MCTransactions | `NoPhantoms` | `database.rs:1289` | UPDATE and DELETE never take the table lock, so a deleted row that a SERIALIZABLE reader did not see comes back when its transaction rolls back. src/src/ast.rs:406 says "`SERIALIZABLE`。`RepeatableRead`に加え、Phantomも防ぐ。" (phantoms are prevented too). |
| *IdsReused*: CrashRecovery, with `MaxWrites = 1`, `Rollbacks = "never"`, `AfterRestart = "anything"` | WalRecovery | `OnlyCommitted` | `recovery.rs:109` | Recovery keys its transaction table by TransactionId while a restart counts from 0 again and the log is never truncated: a loser of the second life is taken for the transaction of the first that committed under the same id. src/src/database.rs:158 says "`TransactionId`はプロセス内でのUndoの帳簿以上の役割を持たないため、再起動をまたいで一意である必要がない" (ids need not be unique across restarts). |
| *RedoSlots*: CrashRecovery, with `NTx = 3`, `MaxWrites = 1`, `MaxCrashes = 1`, `Rollbacks = "before crashes"` | WalRecovery | `RedoIsExact` | `storage.rs:715` | An unlogged ROLLBACK frees slots that later inserts reuse; redo of both inserts finds the slot taken and picks another one. src/src/storage.rs:717 asserts "Redoは元のRecordIdと同じスロットを再現できる前提" (redo reproduces the slot of the RecordId). |
| *UndoneTwice*: CrashRecovery, with `NTx = 1`, `MaxWrites = 1`, `LateCrashes = TRUE` | WalRecovery | `EachRowOnce` | `recovery.rs:166` | The pages are flushed before the Abort records are synced, and pages carry no trace of undo: a crash between them makes the next recovery undo the same transaction again, and a deleted row is inserted twice. src/src/recovery.rs:29 says "[`recover`]全体を「ディスクへの反映は最後に1回だけ」というアトミックな操作にする" (the whole of recover is one atomic operation). |
| *UndoLoops*: CrashRecovery, with `NTx = 1`, `Seeded = 2`, `MaxWrites = 3`, `MaxCrashes = 0`, `Rollbacks = "before crashes"` | WalRecovery | `UndoReturns` | `transaction.rs:224` | remap gets an entry whenever a row comes back somewhere else, so rows that swap places build a cycle of two entries and resolve never returns. src/src/transaction.rs:178 says that leaving out entries from a rid to itself is what keeps resolve from looping: "追加してしまうと`rid`が自分自身を指すエントリになり、`resolve`が無限ループする". |
| *FreshPageLost*: `FreshPageLost.cfg` | WalRecovery | `CommittedSurvive` | `storage.rs:705` | Undo puts a committed row on a fresh page without stamping an LSN; the page reaches the disk with LSN 0, and redo_insert initialises it again, losing the row. src/src/storage.rs:699 says "この2択が事故なく機能するのは、Redoがレコードを LSNの昇順で1ページずつ処理し" (the choice between init and open is safe). |
| *FlushRace*: BufferPool, with `FlushesAlone = FALSE` | MCBufferPool | `Implements` | `buffer_pool.rs:405` | flush_frame clears the dirty flag after it has given up the frame's latch: a writer that changes and releases the page in between loses its mark, and eviction drops the change. |
| *EvictFails*: BufferPool, with `SPECIFICATION FailingSpec` | MCBufferPool | `TypeOK` | `buffer_pool.rs:483` | evict takes the occupant away before it writes the page; after an I/O error the page is still in the table, and its frame is given to another page. |
| *SameNames*: Queries, with `MaxDpTables = 8`, `Scripts <- SameNamesScripts` | MCQueries | `AnswersRight` | `binder.rs:899` | GROUP BY, aggregates and ORDER BY compare expressions by the text of fmt_bound_expr, which prints a column without its table: a.x and b.x are taken for the same. src/src/binder.rs:883 says of that text "同じ式なら同じ文字列になる" and relies on the converse. |
| *PushedErrors*: Queries, with `MaxDpTables = 8`, `Scripts <- PushedErrorsScripts` | MCQueries | `RewritesKeepRows` | `rules.rs:471` | A condition that is pushed below a join is evaluated for rows that join with nothing, and fails there: the rewritten query ends with an error although the join leaves the row out. src/src/rules.rs:12 says of every rule "書き換えても同じ行を返す" (the rewritten plan returns the same rows). |
| *TypeLost*: Queries, with `MaxDpTables = 8`, `Scripts <- TypeLostScripts` | MCQueries | `RewritesKeepRows` | `rules.rs:328` | Simplifying TRUE AND NULL leaves an untyped NULL, and the column of the result becomes TEXT. src/src/rules.rs:252 keeps constant folding from just that: "出力スキーマが変わってしまう" (the schema of the output would change). |
| *ParenthesisedColumn*: Statistics, with `Conditions <- Parenthesised` | MCStatistics | `PathsAgree` | `physical_plan.rs:1464` | column_index_of (line 672) sees through parentheses when it looks for an index, column_owner_stats does not: for `(x) = 1` the index is expected to yield what the statistics say and the scan a default share, although both yield the same rows. |
| *RollbackLosesRow*: `RollbackLosesRow.cfg` | MCStorage | `RowsComeBack` | `transaction.rs:224` | Undo puts a row back on a position that an earlier record of the same transaction names for another row; the second lookup in remap leads on to the wrong row, and ROLLBACK loses one. src/src/transaction.rs:169-171 says that the position is resolved through remap right before it is used, "適用する直前に`remap`をたどって現在の実際の位置へ解決する". |
| *HalfUpdated*: `HalfUpdated.cfg` | MCStorage | `IndexesAgree` | `executor.rs:454` | An UPDATE that moves a row to another page is refused by a unique index; the row is put back by another update, which may put it on a third place, while the index is given the old one. src/src/executor.rs:387 says "いずれの段階が失敗しても、Heap・索引を更新前の内容…へ戻してからエラーを返す" (whichever step fails, heap and index are restored). |
| *DdlInside*: `DdlInside.cfg` | MCStorage | `Implements` | `database.rs:839` | CREATE and DROP in a transaction take no locks and are not undone: a ROLLBACK after DROP TABLE finds no table for its records, ends with an error and leaves the transaction's other changes. |
| *FullCatalog*: Storage, with `Capacity = 11`, `Risks = {"full"}` | MCStorage | `Implements` | `transaction.rs:189` | Undo of a DELETE or UPDATE may need a new page, which a full catalog page cannot name: ROLLBACK fails although src/src/transaction.rs:189 says that inverse operations only restore values that were validated before. |

What they mean for the passing runs:

- `FlushesAlone` (BufferPool): nobody writes while a thread flushes.  In the
  database that is so, because `flush_all` is called under its mutex
  (`storage.rs:595`).
- `DeletesAlone` and distinct keys (BTree; `OwnKeys` in the proofs): deletes keep apart from
  other writers, and no two threads insert the same key.  In the database that is so too.
- The proviso of `ShutdownCompletes` (Server): answers are read, see `SlowReader`.
- `CarelessCommits` (Server): a careful client commits only what was answered
  without an error.  `CommitAborted` (Transactions) is the same one level below.
- `Risks` (Storage): no DDL after writes of a transaction, no changes of length in
  tables with a unique index, room in the catalog at ROLLBACK, no rows that undo puts
  where others were.
- `Rollbacks`, `AfterRestart` and `LateCrashes` (WalRecovery), see section 3.
- Work without deletes under SERIALIZABLE and without inserts under READ COMMITTED
  readers of the same table (MCTransactions), see `SerializablePhantom` and
  `DirtyInsert`.

- Statements with columns of one name in GROUP BY, ORDER BY or aggregates of a join,
  four tables with a condition of WHERE on two of them, conditions that fail on some
  rows, and `TRUE AND NULL` as a column (MCQueries): see `SameNames`, `FourTables`,
  `PushedErrors` and `TypeLost`.
- Columns in parentheses in the conditions of MCStatistics: see `ParenthesisedColumn`.

Two smaller points of the same kind.  Which access path or join algorithm is chosen
also decides whether an error is raised (a hash join evaluates the keys of its right
side although the left may be empty; an index skips rows on which another conjunct
would fail).  And `rules.rs:83` says that the order of the rules has no effect on the
result: with pruning before pushdown a projection hides tables from the planner, which
the last part of `RewritingSettles` forbids.

An UPDATE that swaps or shifts the keys of a unique index is refused half way, and
under autocommit its first rows stay changed (`btree.rs:575`), although
`executor.rs:357`, `index.rs:96` and `book/src/ch24-btree-2.md:893` say that it is
accepted; Tables allows it (`Clashes`).  A page that was initialised and then could
not be attached, because the catalog is full, belongs to nobody (`storage.rs:872`).

PREPARE accepts a placeholder in SUM whatever it will stand for (`binder.rs:1357` lets
the untyped pass), EXECUTE puts a BOOLEAN there, and the sum panics in
`physical_plan.rs:2298`, which says that the binder has checked it.  A table
that is dropped between PREPARE and EXECUTE is looked up by its old number: the tables in
memory panic at `database.rs:1349`, whose message says that a table of the catalog is
always in the storage.  The sessions of MCQueries do neither.

Further deviations met in reading, not yet modelled: recovery rebuilds
unique indexes between redo and undo and fails if both versions of a key are in
the heap (`storage.rs:810`); a full buffer pool in the middle of a leaf split loses
the right half of the leaf.

## 6. What is not modelled, and the plan

Abstracted in the modules above: the byte format of pages, tuples, keys and log
records (a torn or corrupted record is a record that is not there); the row order
of tables; expressions in Transactions, where they are a set of primary keys;
timeouts, which are statements that fail; metrics and logging.  In Queries: TEXT and
its functions, casts, prepared INSERT, UPDATE and DELETE (their binding is not modelled),
EXPLAIN, the limit on rows, and cancellation.  In SqlParser: characters (a text is a
sequence of words), string literals, comments, CAST, and what an error says.  In Storage:
crashes (they are in WalRecovery, without catalog and indexes), other sessions (in
Transactions), and the tree of an index (in BTree).  In Estimates: `f64` rounding and the
clamps against it, and interpolation within a bucket for types other than BIGINT.

What Statistics does not claim, because the code does not promise it: range
comparisons at the end of a bucket interpolate to nothing or all, so `NoFalseZero` is
about equalities and IS NULL; an empty table is given default numbers; a hash join and
an index join count NULLs of the left side differently.  `PathsAgree` is false of columns
in parentheses (*ParenthesisedColumn*).

Not modelled, and staying so: the codecs and the wire protocol (sequential, better tested), the
command line client, the slow query log, failpoints, and `heap_file.rs`, an
earlier chapter's storage that nothing calls.

The plan, in the order of importance.  Done: LockManager, Transactions over it, BufferPool,
Server, and WalRecovery with its abstract store, with their proofs; BTree with its
abstract index, and the proofs about its pages, latches and keys; Queries with its semantics of
SELECT, the parser with the way statements are written, prepared queries; Storage with its
abstract tables, and the proofs about its pages and catalogs; Statistics.  To come:

1. *Storage and the log together*: crashes between the steps of CREATE and DROP
   (their pages are not logged), eviction between a change of a page and its record.
2. *Prepared changes*: binding of INSERT, UPDATE and DELETE with placeholders, over the
   rows of Storage.
3. Proofs: that WalRecovery
   implements its store, with undo that restores what was there; `RowsStay` weakened to what run
   RowLocks has; `CopiesAgree` of Storage, without what `Risks` stands for.

Every component and the hazards of the code, each at its line with the properties
that watch over it, are listed in `PROJECT.json`.
