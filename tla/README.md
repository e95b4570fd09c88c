# A TLA+ model of SnapDB

SnapDB (`src/snapdb/`) is an embedded single-file database in Python: a row engine over a
memory-mapped file, with hash and range indexes, unique constraints, transactions with a
write-ahead log, and a columnar engine beside it. This directory models the row engine and its
durability, indexes and the queries they serve, the pruning of range queries, the columnar engine,
snapshots, and the lock that keeps a file to one instance. It checks the models with TLC, and proves
the safety of the row engine, of its indexes and zone maps, of queries, of the snapshots and of the
file lock with TLAPS, for tables, slabs, batches, transactions, queries, threads and processes of any
number.

Paths below are relative to the repository; `core.py` is `src/snapdb/core.py`.

## 1. The system

| component | state | operations | how it meets the others |
|---|---|---|---|
| Row engine (`core.py` `Slab`, `SnapDB`) | slabs in the mapped file, one liveness byte a slot, the high-water mark of each slab, the row counter | insert, batch_insert, update, delete, get, scan, fsck, compact, close, open | every write goes page first or map first, then the maps, the undo list and the log |
| Unique constraints (`_unique_*`) | a map from key to row index, per column | validate, insert, delete, update with put-back, rebuild | asked before a write, moved in the middle of it, rebuilt on open, compact and fsck |
| Hash index (`index.py`) | a map from value to the set of row indices | insert, update, delete, create, drop, lookup | maintained after every write and by rollback, rebuilt by compact |
| Transactions (`transaction`, `_tx_rollback`) | `_in_tx`, the undo list `_tx_state` | begin, commit, abort; close inside a transaction | the undo list is applied backwards through slabs, counter and maps |
| Write-ahead log (`wal.py`) | a buffer, the lines of the log file | append, begin, commit, rollback, replay, clear | written by transactions only, read by recovery on open |
| Recovery (`_load`, `_recover_wal`, `_persist_bitmaps`) | the mark of the last slab in the header, the bitmaps in the file | open, flush, checkpoint, replay | nets the committed records and replays them through insert, update and delete |
| Zone maps, range index | per-slab minimum and maximum; a sorted list | widen, build lazily, prune; bisect | read by `range_find` instead of a scan |
| Columnar engine (`columnar.py`) | columns with null masks, dictionary, delta and frame-of-reference encodings | append, set, get, filters, aggregates, compact | behind the same SnapDB calls, without log or transactions |
| Query engine (`query.py`) | none of the file's; predicates and conditions of one query | filter, order, slice, plan, execute, count, aggregates | chooses an index, or a scan, and filters what it gives |
| File lock (`_acquire_file_lock`, `close`) | the set of open paths of a process, an advisory lock on a file beside the database | acquire, back out, release | first and last thing an instance does |
| Snapshots (`snapshot`, `open_snapshot`, `drop_snapshot`) | slots, each with its own log, and a JSON manifest | copy, list, open, drop | a copy under the lock; drops and opens take none |
| Document store, vector index | none of the file's | | clients of the row engine |
| Change data capture, metrics, profiler | a callback, counters | | called in the middle of a write; observe |

**What is hard.** Writers hold one re-entrant lock, which a transaction keeps from begin to end, so
writers do not interleave with each other; what is hard is not races between writers but

- calls that *fail half way*: `Slab.insert` moves the mark and sets the liveness byte before the
  row is encoded, `_update_locked` moves the unique map before the page, a rollback can raise in the
  middle of its own list;
- *long sequences of legal calls*: a rollback is right only if every record is the exact inverse of
  its write, with the keys and index entries that later records moved; an index created inside a
  transaction, a compact, an fsck or a reopen must leave the same maps;
- *abrupt exits*: page bytes outlive the process at once, liveness bytes and the mark only from a
  flush on, log lines only when the log's buffer is flushed;
- *encodings that change under the rows*: a column starts raw, takes up an encoding, widens it, and
  gives it up in the middle of an append or an update, with a cached reconstruction beside it;
- *threads without the lock*: range_find, create_range_index, fsck, create_index, auto-indexing,
  drop_snapshot and open_snapshot run beside the one writer and beside each other;
- *ways out of a constructor*: the file's lock is taken first, and most of what follows can raise.

`PROJECT.json` lists each of these hazards at its line with the properties that watch it.

**What makes each component correct.** Row engine: a scan, `get` and the counter agree, indices are
stable and handed out once. Unique map and hash index: exactly the visible rows. Transactions: an
abort leaves the table of the begin. Log and recovery: after an exit, the rows of the last commit.
Zone maps, indexes and plans: the rows a full scan would give. Columnar engine: each column behaves
as a list of values, whatever its encoding. Snapshots: no entry of the manifest lost, and each listed
slot restores. File lock: one writer, and a path that can be opened again.

## 2. The modules

- `TxTable` is the abstract promise: a table of rows at fixed indices with distinct keys, indices
  handed out once, and transactions that commit or go back to the table they started from. It knows
  no slab, bitmap, map or undo record.
- `RowStore` is the row engine with unique constraints, one hash index, batches and transactions.
- `MCRowStore` instantiates it for TLC.
- `WalStore` is the mapped file, the log and recovery, for a process that may exit at any step.
- `MCWalStore` instantiates it for TLC.
- `ZoneMap` is `range_find` on one numeric column: zone maps, the range index, and the reader
  thread that builds either while another thread writes.
- `MCZoneMap` instantiates it for TLC.
- `Column` is one column of the columnar engine, as operators that map a column to a column.
- `ColumnarTable` is a table of such columns, with compact, close and reopen.
- `MCColumnarTable` instantiates it for TLC.
- `QueryPlan` is the query engine, as operators on a table with its indexes and a query.
- `IndexedTable` is a table whose indexes a writer keeps and another thread builds, queried by
  `QueryPlan`; `MCIndexedTable` instantiates both for TLC.
- `Snapshots` is the slots and their manifest, for threads of a process that may exit at any step;
  `MCSnapshots` instantiates it for TLC.
- `FileLock` is the registry of open paths and the advisory lock, for openers in several processes;
  `MCFileLock` instantiates it for TLC.
- `GeneralLemmas` holds what the proofs share: lemmas on `//` and `%`, induction over a set of
  naturals, numbers in order, and what `FlattenSeq` of the community modules makes of sequences.
- `RowStoreProofs` proves type correctness of `RowStore`, without any assumption on encoding, and
  its safety properties when rows encode and come back as given; then what holds of it when rows
  fail to encode, what needs cardinalities (the room of a batch, the row counter, full slabs), and
  that `RowStore` implements `TxTable`.
- `ZoneMapProofs` proves that pruning drops no row that the maps could know of, and that the range
  index lists each settled row of a range once.
- `ColumnarProofs` proves that rows of a columnar table read as they were last written.
- `WalStoreProofs` proves that recovery gives every slot the row of the last commit.
- `IndexedTableProofs` proves that the hash index is true while a writer and a build overlap, and
  that planned queries, counts and pages are right on it.
- `SnapshotsProofs` proves that the manifest and the listed slots are right while no drop overlaps.
- `FileLockProofs` proves that one opener at a time uses the file, and what follows.

Operators preceded by a comment "Seeded fault" are variants of the definition that follows them,
each with one plausible mistake. No action uses them. They are the mutation test of the properties:
putting the variant in place of the definition makes TLC report the property that `PROJECT.json`
names beside it under `mutants`.

### RowStore and the code

A global row index is a pair `<<slab, local>>`. A row has a unique column `k` and an indexed column
`v`. Encoding is seen only by its effect: `Encodable` is the set of rows `Schema.encode_row`
accepts, `Stored` what decoding gives back (a string is cut to its column's width, for instance).

| variable | code |
|---|---|
| `cells`, `live`, `count` | the page bytes, `Slab._live`, `Slab._count` |
| `total` | `SnapDB._total_rows` |
| `uniq` | `SnapDB._unique_values` of one column |
| `indexed`, `hash` | whether `MultiIndex` has the column; `HashIndex._index` |
| `phase` | open, in a transaction, in `_tx_rollback` (from an abort or from close), closed |
| `todo` | rows an unfinished `_batch_insert_locked` has still to place |
| `undo` | `SnapDB._tx_state` |
| `hist` | history only: the table before the transaction and after each of its writes |

`insert` is `Insert`, or `InsertFails` when `encode_row` raises. `batch_insert` is `BatchStart`
(validation and growth) and then a `BatchChunk` for every slab it fills, or `BatchFails`: the lock
is held in between, but a chunk that fails leaves the earlier chunks in place, so the chunks are
steps of their own. `update` is `Update` or `UpdateFails`; `delete` is `Delete`. A transaction is
`Begin`, then `Commit`, `Abort`, or `Close` inside it; `_tx_rollback` is one step for every record
kind (`UndoInsert`, `UndoUpdate`, `UndoDelete`, `UndoDone`) and `UndoUpdateFails` for the exception
that leaves the rest of the list unapplied. `Open`, `Compact`, `Fsck`, `CreateIndex`, `DropIndex`
are one step each. Clients pass `update` and `delete` indices that an insert or a scan gave them.

### WalStore and the code

Here a row is one value and an index one number. `cells`, `slabs`, `dlive`, `dmark`, `log` are what
the files hold; `live`, `last`, `buf` what the process holds. `Logged` and `LoggedNow` are
`WAL.append` with a buffer that flushes when full, and with the flush of commit and rollback.
`Crash` may come at any step, `CrashInFlush` between the bitmaps and the header mark of
`_persist_bitmaps`, `CrashInCommit` after any prefix of the lines that a commit flushes, the next
one perhaps torn, `CrashInCompact` between the replacement of the file and the removal of the log.
`Compact` writes the visible rows to a fresh file in order (`Packed`), which `Swap` puts in place.
`CommitFails` is a commit whose fsync raises when its lines are already with the system: the
transaction is rolled back in memory and a rollback record follows the commit record. `Load` is `_load` with the reading half of `_recover_wal` (committed records,
netted), then one `Replay` a record, `ReplayFlush` and `ReplayClear`; exits may come between all
of these, so recoveries of recoveries are covered. `_tx_rollback` is one step here, since RowStore
takes it apart. What recovery makes of the log is said by position: `Committed` are the lines of row
operations whose next mark is a commit, `Netted` drops those with a later delete of their index, and
`ToReplay` is what is left, in the order of the log. The history variable `want` is what the documentation owes the client for each
slot: the row of the last commit, or of the last flush for a write outside transactions, and nothing
(`NoClaim`) for a slot that an unfinished transaction had already flushed; `leaked` are the slots
whose image in the file an unfinished transaction has overwritten; `aligned` says whether at every
open so far the log fitted the file (see `Fits`).

### ZoneMap and the code

A row is one number, an index one number, and a slab's map is `zone[s]`: whether it is built and
its bounds, `None` for a key that `_zone_min` or `_zone_max` lacks. What two threads can see of each
other decides the steps. A writer's insert is `InsertTake` (mark and liveness byte), then
`InsertWrite` (page, bounds) or `InsertRaises`; an update, and the undoing of one, is `StartWrite`
(bounds) and then `UpdateWrite` (page); `Delete` and `UndoInsert` clear the liveness byte, and
`UndoDelete` writes page and liveness byte past `Slab`, as the code does. Each of these leaves in
`due` the arguments of the index call that the writer has still to make, and `MaintainIndex`
(`IndexInsert`, `IndexUpdate`, `IndexDelete`: `_index_insert` and its siblings) makes it as a step
of its own, before the writer, or the rollback, goes on (`NoWrite`). The undo list, which only the
writer reads, is taken with the page. A reader's
`ensure_zone_map` is `BuildStart` (`iter_rows` reads the mark and copies the page), one `BuildRow` a
row, and `BuildEnd`; `create_range_index` is `IndexScan` and `IndexPublish`, which may fall anywhere
between the steps of a write. `range_find` itself changes nothing else:
the properties quantify over every query at every state. Two history variables say which slots a
reader that overlapped a writer may be wrong about: `unseen` for the maps (rows written, or dead,
while their slab's map was being built, and rows that a failed insert left), `stale` for the index.
A slot is `stale` if its index call came while the collected rows were not yet entered (`Missed`),
or if the writer had still to enter it when they were collected, zero row or new value included
(`Entering`): such a row is listed twice.

### Column, ColumnarTable and the code

A column is a record; `kind` is how it was configured, `mode` the encoding it is in, `given` the
`_*_fallback` flags. Encodings exclude each other, so their fields share names: `data` is `_data`,
`_dict_codes`, `_deltas` or the windows of `_for_packed`, `base` is `_delta_base` or `_for_min`.
Windows hold a value modulo their width, as the mask does, so a window that is too narrow loses bits
in the model too. `AppendTo`, `SetAt` and `Rebuilt` are `append`, `__setitem__` and
`_rebuild_column_alive`; `Get` is `__getitem__` (`tolist` and `iter_valid` give the same), and
`Aggregated` what `sum`, `min` and `max` run over when nothing is null. `RowsCached` and `AllCached`
say which reads leave a reconstruction behind: row reads that of deltas, aggregates both.

`ColumnarTable` follows a table of its own, or that of a SnapDB: the latter configures no frame of
reference, never calls compact, and is saved and loaded with its row indices (`Reopen`). `update`
writes all columns, `batch_update` one column after the other in the rows that matched at first.
`compact` rebuilds column by column and may raise on the way. `want` is what each row was last given.
The model follows a table until compact breaks a column (`broken`).

Loops of the code that append value after value (the samples of a delta column, the windows of
`_start_for_mode` and `_widen_for`) are written by what they end in, with the same limits and
fallbacks: deltas are the differences of neighbours, the width is the least that holds them, windows
are the values less the base, cut by the mask. A batch and a reload, which may change a column's
encoding in the middle, stay a recursion over their rows (`SetAll`, `Filled`).

### QueryPlan, IndexedTable and the code

A condition on a column is a sequence of `<<operator, value>>`, the dict of the code in its order. A
query keeps what the code keeps twice: `where`, the predicates joined by `filter` and `where_fn`,
and `conds`, what the planner may use (`where_conditions`, a later condition on a column replacing
the earlier one). `Plan`, `RangePlan`, `Candidates`, `Kept`, `Sorted`, `Sliced` and `Execute` are the
code's functions; `Count` and `MatchingValues` are `count` and the aggregates, which go another way
through the indexes: `execute` asks a hash index for its truth value first, which is its total.

`IndexedTable` gives these operators tables to work on. The writer (`w`) holds the lock and takes one
step for each access that the other thread could see: liveness byte, page, the index's dictionary,
range index. In the dictionary an old key is discarded (`EnterIndex`), its set looked at
(`CheckSet`) and deleted if empty (`DropKey`), the total lowered (`Uncount`, a delete only); a new
key is looked up (`LookKey`), given a set (`MakeKey`) and entered (`AddEntry`). The other thread
(`b`) is `create_index`, which auto-indexing calls too: it enters the empty index, copies the slab,
and goes through it row by row: `Visit` looks the key up, `MakeVisited` gives it a set,
`FetchVisited` takes the set out of the dictionary and `AddVisited` adds to it, or `LoseVisited`, if
the dictionary has another set by then; `RaiseVisited` is the `KeyError` of a set that is gone. Pages
hold `Stored(row)`, the indexes are given the row as passed. `excused` is history: the rows written
while an index was being built, those whose key the page cuts, those whose set another thread
replaced (`MakeSet`) or deleted (`DropSet`) between its look and its step, and the rest of a build
that ended in a `KeyError`. Everything else must be found.

### Snapshots and the code

A file is an inode under a name. `handle[t]` says which name the temporary manifest that thread `t`
opened has by now: after another thread's rename it is `manifest.json` itself, and `WriteTmp` writes
there. `snapshot` holds `SnapDB._lock` (`lock`) from `SnapshotStart` to the end of the call;
`drop_snapshot` (`DropStart`, `Unlink`, then the same manifest write) and `open_snapshot`
(`OpenStart`, `OpenLoad`) take no lock. A slot's content is the number of the live content it was copied from and the
transactions committed in it since; a slot opened as a database has a log of its own, which
`OpenLoad` replays. History: `taken` and `owned` are what a slot should hold, `cut` the names with a call that an exit or an
exception ended early, `over` the names copied over an open instance or a slot's leftover log,
`raced` whether a drop ever overlapped another writer of the manifest. After a race only the calls
under way are followed to their ends (`MayStart`).

### FileLock and the code

Each opener has a place in `__init__` or `close` (`pc`): `Register` is the check and entry in
`_open_paths` under its lock, `TryLock` the `flock` call, which answers at once, `BackOut` the entry
taken back. `Load` and `LoadFails` are the guarded part of the constructor, `RaisesUnguarded` what
may raise between the lock and that part (core.py:548, core.py:572), after which `Collect` lets the
handle go but not the entry: `leaky` is the history of that. `Persist`, `Unlock` and `Discard` are
`close`. `disk` and `mem` are sets of writes, enough to see one opener write over another. `Crash`
takes a whole process.

## 3. The runs

| run | instance | what it shows |
|---|---|---|
| `rowstore` | 2 slabs of 2 rows, batches of up to 2, up to 2 undo records, rows with two keys and two values besides those of a zero slot, all encodable | the type invariant; `UniqueExact`, `IndexExact`, `CountExact`: maps and counter agree with a scan; `BatchFits`: the slabs added up front suffice; `SlabsFull`: every slab but the last is full, which is what a reopen assumes; `UndoChain`, `RollbackRestores`: the undo list leads back, record by record and as a whole; `Reopenable`; `Exact`, the inductive invariant of the proofs; `Implements`: the refinement of TxTable |
| `rowstore_faults` | 1 slab of 2 rows, value 2 does not encode | after any calls that failed half way the index never points to a wrong row (`IndexSound`), misses only what failed inserts left (`IndexMissesOnlyFailures`), and a rollback that ends normally restores every row but those (`RollbackRestoresRows`) |
| `recovery` | 2 slabs of 2 rows, log buffer of 3, 6 client calls, 2 exits anywhere, inside compact too, and 1 fault: a torn line or a commit whose fsync raises | when the log fits the file, recovery gives every slot what is owed (`RecoveryRestores`) |
| `recovery_growth` | 4 slabs of 2 rows, inserts in transactions only | violated: finding 1 |
| `zonemap` | 2 slabs of 2 rows, 3 rows, 1 undo record, values 0 and 1, readers that overlap writers, inserts that raise | `PruningSound`: for every query a slab is skipped only if no row in it that the map could know of matches; `ZoneInv`, the inductive invariant of the proof |
| `rangeindex` | 1 slab of 3 rows, 2 undo records, the same | `RangeIndexExact`: for every query the index lists each matching row once and no other, but for the rows written while the index was being built, rows that a writer enters a second time because their page was written before the rows were collected, rows half written, and the zero rows of failed inserts |
| `queries` | 3 rows, 3 writes, keys of which one is cut, about 50 queries: pairs of operators, both columns, filters on filters, custom predicates | planned and scanned, each query gives the same rows (`PlannedComplete`), counts and values (`CountsAgree`), and pages that cover the ordered answer (`PagesCover`); `find` answers from the index what a scan would (`FindTrue`) |
| `columnar` | 4 rows, a bool, dictionary, delta, frame-of-reference or doubly configured column beside a plain one, encodings decided after 2 values | `ReadsBack`: each row reads as it was last written, by index, in scans and in aggregates, whatever encodings its column took up, widened and gave up; `TypeOK` includes that what is encoded fits its codes, deltas and windows |
| `columnar_compact` | 2 rows, a column of any kind beside a plain one | violated: finding 2 |
| `snapshots` | 2 threads, 2 names, of which one is opened, 1 live write, 1 transaction in the slot, 1 exit | the manifest parses at every step (`ManifestReadable`), keeps its entries (`EntriesKept`), and listed slots restore (`CleanSlotsRestore`), as long as no drop overlaps another writer of the manifest; every call ends and gives the lock back (`CallsEnd`), also after such an overlap |
| `snapshots_restore` | 1 thread, 1 name | violated: finding 3 |
| `filelock` | 2 openers in one process, 1 in another, 2 writes, 1 exit | one opener uses the file at a time (`OneWriter`), nothing that reached it is written over (`NothingLost`), an entry has somebody it belongs to (`RegistryTrue`), and the path becomes free again (`FreeAgain`), but for the constructors that leave it taken |

**Bounds.** Two slabs of two rows are the smallest file in which a batch spans slabs, ends exactly
at a boundary, or grows the file, and in which compact drops a slab. Two keys besides the zero
slot's suffice for every refusal and exchange of keys (a key given up by one row, taken by another,
wanted back by a rollback); the proofs then cover every other size. Two undo records give each pair
of kinds in each order on one row and on two. In `recovery`, six calls are enough for a transaction
with growth, a flush inside it and a second transaction; two exits give an exit in a recovery. The
log buffer of three makes it flush in the middle of a transaction as well as at its end.

In `zonemap` the values 0 and 1, with an absent bound, give every comparison of a value with a bound
and of a query with a bound its three outcomes; one undo record lets a rollback bring back one
deleted or overwritten row, and the proof covers the others. Three slots in two slabs give a full
slab and a growing one. The range index has no slabs, so its run has one, of three rows, and builds
no zone maps: its VIEW (`IndexView` in `MCZoneMap`) takes states that differ in the maps only as one,
which is sound because without a build no guard and no variable of the view depends on them. Two
undo records let a rollback undo two writes of one row, each with its index call, around an index
made in between.

In `queries` the values 0 to 2 lie below, on and between the bounds 0 and 1, the bound of each kind
meets each other kind in each order, and three rows let two compare equal beside a third. The range
index is made and dropped while no write is under way, because `rangeindex` looks at that overlap;
the hash index is dropped while no row is on its way into it. A build and a writer, which overlap
anywhere, do so on three rows.

In `columnar` two values decide on an encoding, deltas have two widths (below 3, below 6), windows
two bits at most and dictionaries two entries, so that each limit lies between the values 0, 3 and 6
that are written: a delta that fits, one that widens, one that gives up, and the same for windows
and dictionaries. Four rows are the least in which a doubly configured column gives up deltas, is
sampled again and is packed with rows that the sampling did not see. The second column keeps rows
with a null in the first one alive.

In `snapshots` two threads give each pair of calls in each interleaving, two names make an entry
that another thread's write could lose, one transaction in a slot and one exit leave a log behind.
In `filelock` two openers in one process meet in the registry, two processes at the advisory lock;
two writes are one opener's and the next one's.

**Deadlock.** The check is off where the system really stops: calls, writes or exits are used up
(`recovery`, `recovery_growth`, `queries`, the snapshot runs), the closed file can never be opened
again (`rowstore_faults`), constructors have left the path taken in every process (`filelock`), or a
compact broke a column, after which nothing is claimed (`columnar` runs).

**Fairness.** `FileLock` and `Snapshots` assume that a call under way goes on: weak fairness of the
steps of each opener's constructor or close, and of each thread's call. The code justifies it: the
advisory lock is taken with `LOCK_NB` and never waits, and `snapshot` takes the instance's lock as
its first step, after which it waits for nobody. Nothing is assumed of clients: they need not open,
close, or call; `FreeAgain` has as its premise that nobody keeps the file open for ever. The
other modules assume no fairness and have no liveness: a transaction may stay open as
long as its client likes, and nothing in them retries or waits.

### Findings

Each is a run that TLC ends with a violation of a sentence of the documentation.

1. `recovery_growth`: after growth inside a transaction the persisted mark belongs to an older last
   slab (core.py:801), replayed inserts land elsewhere and some find no place. README.md:211.
2. `columnar_compact`: `_rebuild_column_alive` clears the null masks, so a null of a live row reads
   as a value (columnar.py:176). The same function keeps the base of a delta column whose first row
   it drops and stores one delta too many, drops the windows of a frame-of-reference column for
   good, and truncates floats. docs/ARCHITECTURE.md:185-186, columnar.py:1766-1767.
3. `snapshots_restore`: `snapshot` copies over a slot and leaves the slot's own log (core.py:1468).
   If an exit left committed records there, the next `open_snapshot` replays them on the new
   content. core.py:1455-1457, README.md:295.

`RecoveryRestores` is the positive side of 1: `aligned` excludes exactly the logs whose replay does
not put each row at its own index, and `leaked` the rows that an unfinished transaction overwrote in
place. `ReadsBack` is the positive side of 2, `CleanSlotsRestore` of 3.

### Disagreements without a run

These were met while modelling: each is excluded by a history variable, a bound or an assumption of
a run above, or lies in a part that is not modelled.

- An update that raises in `encode_row` has already moved the unique map (core.py:1246); the
  rollback of an earlier record then raises in `_unique_update` and stops, with `_in_tx` cleared and
  part of the transaction still in the table. README.md:656. `rowstore_faults` is the positive side.
- Two inserts that raise in `encode_row` leave two live rows of zero bytes (core.py:341); after
  close no open succeeds. core.py:1644-1645.
- A batch that fails to encode leaves earlier slabs not full, against the comment in core.py:786-789;
  a reopen then counts their free slots as used. `SlabsFull` holds without such failures.
- Netting drops an insert and keeps its delete (core.py:840); the rows behind it move down on
  replay and the delete takes one of them. README.md:211. `Fits` excludes it.
- A torn line with nothing committed before it is never removed from the log (core.py:830), which is
  read up to it for ever after. Without the last conjunct of `Fits`, `RecoveryRestores` fails.
- An exit inside compact, after the file is replaced and before the log is removed, leaves a log of
  old indices (core.py:1616-1628). README.md:211. `Fits` excludes it.
- A commit whose fsync raises is rolled back in memory, and replayed after an exit (wal.py:78,
  core.py:1875-1877). README.md:656. `want` claims nothing for its slots.
- The undo of a delete in a rollback does not widen a zone map that was built after the delete
  (core.py:1916), so `range_find` skips the row. core.py:322-323. Such rows are in `unseen`, which
  `PruningSound` leaves out.
- A `create_range_index` that overlaps a write: a row written after the rows were collected is missed,
  and one whose page was written before, and whose index call comes after the index is entered, is
  entered twice, so that `range_find` returns it twice (core.py:1796-1797 between 393 and 1249, 1903
  or 1918). core.py:1804. Such rows are in `stale`, which `RangeIndexExact` leaves out.
- Indexes hold a value as given, the page what its column's width leaves of it (core.py:1110-1111).
  README.md:209. `excused` in `IndexedTable`, `Faultless` in the proofs.
- A `create_index` that overlaps a delete, or runs in a CDC callback, leaves an index whose total is
  off: `execute` takes one of total 0 for empty and gives no row, where `count` finds some, and below
  0 its truth value is a ValueError of `__len__` (core.py:1753, index.py:75). The first disjunct of
  `PlannedComplete`.
- `min` and `max` of a query with exactly one matching row raise a TypeError (query.py:469, 477).
- A snapshot or backup inside an open transaction has its uncommitted rows. README.md:292.
- Generated snapshot names repeat after a reopen within the same second. A snapshot over an existing
  slot is not atomic, and a dropped slot leaves its log and lock file. A `drop_snapshot` that
  overlaps another writer loses entries or leaves a manifest that does not parse. An `open_snapshot`
  that meets a drop or a copy between its check and the constructor (core.py:1499) creates an empty
  database under the name or loads a part of a file.
- Constructors that raise between the lock and the guarded part leave the path in the registry
  (core.py:548, 572), against README.md:606. `leaky`.
- Compact inside a transaction leaves the undo list with the old indices (core.py:1566).

## 4. The proofs

Assumptions on the constants: `SizeAssumption` (sizes are naturals, slabs and rows per slab at least
one), `RowAssumption` (the zero row is an encodable row; what is stored is encodable again),
`MarkAssumption` and `AbsentAssumption` (the markers are neither data nor records), `OpenerAssumption` (an opener
belongs to one process), `ColumnAssumption` and `TableAssumption` (thresholds, widths and numbers of
columns are at least one, the narrow deltas are not wider than the wide ones, callers write integers
or null), `ValuesAssumption` (`Values` lists integers in ascending order, each once) and
`QueryAssumption` (a query is as the builder makes it: what its planner may use is one of its
predicates, or nothing; `BuilderBuilds` proves that `filter` and `where_fn` make no other). TLC
evaluates them in every run of the module.

`TypeCorrect` (RowStoreProofs) needs nothing else: it holds with rows that fail to encode. Its
last part, that live slots and undo records lie in slabs the file has, is why `_tx_rollback` never
takes the branch that skips a record. One lemma per action; the arithmetic of slabs is in
`GeneralLemmas` and in `GrownType` and `NthType`.

The second part of `RowStoreProofs` assumes `Faultless` (every row encodable and stored as given): without it the first
two disagreements above refute the properties. The properties are not inductive alone, so the proof
is of `Exact`:

- `KeysDistinct(Table)` and `Marked(count, Table)`: rows have their own keys and lie below the
  marks, *also while the file is closed*, when the maps are gone; this is what makes `Open` succeed
  and rebuild exact maps;
- `BatchValid`: the rows a batch has still to place have free and distinct keys, which is what
  validation established before the first of them was placed;
- `Chained`: each undo record is the difference of two neighbouring tables of `hist`, every one of
  which has distinct keys below the marks. Without the last part the undo of an update could meet a
  taken key; with it `UndoUpdateSucceeds` follows;
- `UniqueExact` and `IndexExact`.

The argument says everything of the table that `get` shows. `MapsOfTable` turns the two map
properties into statements about a table; `MovedExact`, `ReleasedExact`, `RestoredExact` and
`IndexMoved`, `IndexDropped`, `IndexAdded` say what one row's change does to them; `RebuiltExact`
that a rebuild without duplicates is exact. `ChainExtended` and `ChainCut` are the undo list growing
and shrinking. Each action then has one lemma (`UpdateExact`, `PlaceExact`, `CompactExact`, ...)
and `StepExact` joins them. From the invariant follow `UniqueCorrect`, `IndexCorrect`, `UndoCorrect`,
`ReopenCorrect` and, as an action property, `RollbackCorrect`.

Its third part drops `Faultless` for `Lossless`: `encode_row` may refuse any row, and what it
accepts comes back as given. A failed insert leaves its slot live with zero bytes, a failed batch
slots above the mark, a failed update or rollback a unique map that is off, and a rollback that
raises leaves the table in the middle. So the unique map, the counter and the exact index are out;
`Kept` says what is left:

- `PagesKept`: a slot above its slab's mark holds zero bytes;
- `IndexKept`: entries are sound and lie below the marks, and what is missing is a zero row;
- `UndoKept`: a row whose deletion may be undone stays dead until then, so that undoing it neither
  doubles an entry nor leaves a stale one;
- `ChainedAlike`: undo record by undo record the table leads back through `hist`, *up to zero rows*
  (`Like`, an equivalence): an insert that failed inside the transaction is not undone, and one that
  is undone may leave a slot blank that was blank already.

`IndexSoundCorrect` and `IndexMissesCorrect` are parts of it, and `RollbackRowsCorrect` follows from
the chain of length one.

The fourth part counts. `BatchCorrect` needs no `Faultless`: the rows a batch has still to place
never outnumber the free slots, because each chunk takes as many of both (`BatchRoom`, inductive with
`TypeOK`). `CountCorrect` says that the counter is the number of visible rows: an insert or delete changes both by
one, and a compact keeps them because the new place of a row (its rank) is a one-to-one map. For
`SlabsFullCorrect` the invariant is that below the last slab nothing is free, or less is free there
than the batch has still to place, whose chunks fill the slabs in order: an insert places its row in
the first free slot and adds a slab only if there is none.

The last part proves `RefinementCorrect`, the step-by-step implementation of `TxTable`, under
`Faultless`. The abstract table is `Shown`: what `get` shows, except in a rollback, where it is
already the table of the begin. So the whole abort is the abstract step at its start, and the undoing
of each record stutters; that the last one arrives there is `Chained`. `Used` and `Saved` give the
indices handed out and the table to return to. `Open` needs that slabs but the last are full, which
is where `SlabsFull` comes in: the mark of a reopened slab then hands out no index again.
`CompactRefines` shows that ranks go onto an initial stretch of the indices (`RankOnto`).

`ZoneMapProofs` assumes only the sizes and that values are integers; readers may overlap writers and
rows may fail to encode. `PruningSound` speaks of visible rows, but a rollback makes rows visible
again, and a build in progress will make its bounds count later. `ZoneInv` therefore adds

- `UndoValid`: a delete that may still be undone names a dead slot that holds the deleted row, and
  no later record is of that slot. So undoing it changes no page, and it is enough that the bounds
  already hold the row;
- `Known`: bounds of a built map hold the value of each live *or restorable* slot outside `unseen`;
  for the slab that is being built, the slot is below the copied mark, the copy has its value, and
  the rows already read are in the bounds;
- `WriteValid` and `BuildValid`: what holds between the bounds and the page of a write, and that the slab
  being built does not count yet.

Most steps only widen bounds (`Grown`, `ZoneWidened`, `ZoneAfterGrown`); `ReloadInv` covers reopen
and compact, after which no map of a slab with rows is built. `ZoneMapsValid` is the invariant,
`PruningIsSound` the property.

Its second half is about the range index. `Lists(s, held, vals, i)` says that list `s` has slot `i`
once, under its value, if it is held, and else not; `Ascends` that the list is sorted. One lemma each
says what `insort`, `discard` and a move do to these (`InsortedLists`, `PoppedLists`, `MovedLists`),
each built on what bisect counts in a sorted list (`BisectCuts`), and `RangeFinds` what a query then
returns. `Sorted` is defined by rank, because the community modules' sort is a `CHOOSE` over
permutations of which the provers know nothing. `ItemsInv` is inductive over all actions. Besides
`ItemsTrue` (every slot outside `stale` is `Listed` as it should be) it says

- `Holding`: the rows it should list are the live ones but for the one an insert has only begun;
- `Listed`, for the slot whose index call is due: it is listed under the old value that the call
  names, or not at all if the call names none or is a delete's and the row was gone when the index
  was built. This is what `IndexUpdate` needs to find the old entry, and `IndexInsert` to find none;
- `Revived`: a row whose update may be undone is live when its turn comes, or else its old value
  would be entered for a dead row;
- `Born`: a row whose insert may be undone still has, when its turn comes, the value it was inserted
  with; `discard` looks for that value and would leave the entry of another one behind;
- `Halfway`: what a rollback writes back is what its record says, and the call that is due names the
  value that the row has, or none if it is dead.

`RowWritten` says what a page write does to this, `CallMade` what the call does.

From it follow `TypeCorrect` and `RangeIndexCorrect`.

`IndexedTableProofs` holds for tables of any size, one writer and one builder, at every step of either.
`IndexInv` relates the index to the two threads' places:

- `Typed` knows each place's call: among others, that an index that counts is there while a thread is
  inside it, that an entry's key has its set, and that the set a thread looked at and replaced was
  empty. From it follows `TypeCorrect`, which here says more than types: that no thread leaves an
  entry in a set that the dictionary has lost, which is why such rows must be excused;
- `Listed`: a row that is answered for is listed under exactly the keys it is `Owed`: its old key
  before the writer takes it out, none until the writer has put the new one in, none while it is
  `Pending` in the builder's copy, its page's key otherwise;
- `Answered`: why that is enough. A row not excused is in the builder's copy as it is in its page, is
  not under the writer's hands while there is a builder, and its key survives the page;
- `Counted`: the total is the number of rows entered, give or take the writer's own row.

With both threads idle `Listed` and `Counted` are `FindCorrect`.

Its second part adds `RangeTrue`, the same for the range index, whose one step comes last in a call
(`RangeIndexInvariant`). A query then lists candidates and keeps those that match.
`RangeListed` and `HashListed` say that an index plan lists every live row its condition admits, each
once; that needs that the plan's bounds are pairs of that condition (`RangePlanIs`, `WithElements`)
and that the condition is part of the predicate (`PlannedConds`), also after several filters on one
column, where the planner knows only the last. `KeptRows` then makes planned and scanned answers the
same set (`PlannedCorrect`); as no row is listed twice and a total of zero with nothing excused means
an empty table (`NothingCounted`), counts and aggregates agree with answers (`CountsCorrect`).
`PagesCorrect` is about order: `SortedRows` (by `FlattenOrder`) and one page per row (by
`FlattenOnes`). Sorting, filtering and range lookup are all `FlattenSeq`; the induction behind it is
over the set of prefixes that are right (`NatUpTo`), which the provers can do.

Proving this found a slip of the model: `RangePlan` was a `CASE` with overlapping guards, which TLA+
leaves open where both hold; it now names the cases of `query.py:186-207` apart.

`FileLockProofs` holds for any number of processes and openers. `OneWriter` is not inductive: that a
second opener cannot pass `TryLock` needs the first to hold the lock. `IInv` says so
(`HoldersLock`: whoever uses the file, or has raised there, is the `flock`), and that an opener's
copy has everything that is in the file while it is open (`Fresh`), from which `NothingLostCorrect`
follows; `RaisedIsLeaky` and `RegistryTrue` are the registry's part.

`SnapshotsProofs` holds for any number of threads, names, transactions and exits. `Marked` (types,
which call is at which place, and that a snapshot under way holds the lock) is inductive alone;
`Clean` is what holds until a drop overlaps another writer of the manifest. It says that one thread
writes (`Single`), that the temporary file is empty or holds what that thread read and changed
(`TmpOwned`), that this differs from the manifest in the thread's own entry alone (`OwnEntry`), and
what the slots hold, also that of a snapshot under way, before its entry is there (`CopyKept`).
From these follow `ReadableCorrect`, `EntriesCorrect` and `SlotsCorrect`. Each action has one lemma
for `Marked` and one for `Clean`; `ReplaceGoesWell` shows that the rename finds its file.

`WalStoreProofs` holds for any file, buffer and number of calls, exits and faults. `TypeCorrect` says
more than types: live slots hold rows, also in the file, and each line of a row operation names a
slot and its row, so a replay never meets a line it cannot apply. `RecoveryRestores` speaks of the
step that ends a recovery, whose outcome was settled by everything the client and earlier
recoveries did before. `WalInv` follows it from the first line on:

- `Claim(lines, R, alive, vals, i, y)` is what makes replaying the records `R` of slot `i`, over
  these live slots and values, bring `y`. Without records `y` is there. Else `y` is what the last
  record says; an insert finds nothing or its own row (it is not applied again, and its row must not
  differ), an update finds a row or an insert before it, and after netting only updates have records
  before them;
- `FileClaims`: the committed lines over the pages, *as a rollback would leave them*, bring what is
  owed. The log and the pages are written at different times, so this holds of neither alone;
- `TxClaims`: with the lines of the open transaction they bring what a reader sees, wherever the log
  has been flushed in between. A commit makes the second claim the first (`CommitLines`), also when
  the flush fails and the same lines are written twice (`TwiceCommitted`);
- `UsedOnce`: an insert that follows a delete of its slot is such a repeated line, and is itself
  deleted behind; so netting leaves no insert after a delete;
- `Promised`, `BelowMark`, `RecordsBelowMark`: outside a transaction what is owed is what is seen; no
  row stands, and no record names a row, at the mark or above. The next insert takes a slot with no
  record;
- `ReplayInv`: in a replay, the rest of the records over the rows now there bring what is owed, and
  so does *the whole log*, because an exit starts the replay again over a file that shows a part
  of it. Missing inserts still come at the mark, one after the other (`MissingAfter`).

Most is claimed under `Honest` only: the log fitted the file at every open and no line follows a
torn one, which is what `aligned` stands for in the property. One lemma per action takes `WalInv` to
the next state (`InsertInv`, `CommitInv`, `CrashInCommitInv`, `ReplayStepInv`, ...). `WalCorrect` is
the invariant; only `Load` with nothing to replay and `ReplayClear` end a recovery
(`RecoveryEnded`), and there a claim without records is `RecoveryRestored`. The declarative form
of `Committed` and `Netted` serves these proofs, as no prover can follow a fold over the log.

`ColumnarProofs` holds for any number of columns and rows, any values, and all thresholds and widths
of deltas and windows. Its invariant says what each column of the table is *for the sequence `w` of
what was written to it*:

- `Holds(c, w)`, by the mode of the column: the values themselves (`RawHolds`), bits of which those
  past the end read as false (`BoolHolds`), codes into the dictionary (`DictHolds`), deltas whose sums
  are the values and whose last sum is `_delta_prev` (`DeltaHolds`), windows over the base (`ForHolds`).
  At a null any value will do, but for the code, which has to stay below the dictionary or be 0 (a
  dictionary that is empty so far). A reconstruction that is cached is the one a read would compute;
- `Encodable`, which is part of `TypeOK`: what is encoded fits. It is needed for `Holds` to last: a
  window that is cut to a width it fits into loses nothing (`PackedFits`), and a code that is in the
  dictionary keeps its value when the dictionary learns another;
- `Good(c, w)`: both, and the null mask is that of `w`.

One lemma for each step of each encoding says that it takes a column that is `Good` for some values to
one that is `Good` for the values after it, in whichever mode it ends (`DeltaSample`, `DeltaAppend`,
`ForWiden`, `ForStart`, `DictAppend`, ...); that `_start_for_mode` looks at all the data, and not at
the statistics of the sampling, is where `ForStart` gets the bound of every window from. `AppendGood`
and `SetGood` join them, `SetAllGood` and `FilledGood` repeat them by induction over the rows of a
batch or a file (`NatUpTo`). `GoodGets` and `GoodAggregates` then give `ReadsBackCorrect`. For
`compact`, `RebuiltTyped` says that whatever it rebuilds is a column whose codes, deltas and windows
fit, also where it loses values; `DictRebuilt` needs the pigeonhole principle for that (a dictionary
given again has no more codes than before). `RebuiltGood` says which columns it leaves as they were:
those without nulls in the rows kept that are raw without fractions, boolean, or dictionaries. The
others are `broken`, as finding 2 shows. `IInv` is the conjunction of `TypeOK` and of `Good` for every
column not broken, and is itself the theorem `ColumnsHold`.

Only model-checked: the properties that a run refutes, and what is out of the prover's reach, ENABLED and
liveness under fairness (`FreeAgain`, `CallsEnd`).

## 5. Not modelled

Inside modelled components:

- `RowStore`: `batch_update` (a loop of updates under one lock), `repair` (fsck and flush), compact
  inside a transaction (listed above), fsck beside a writer, a CDC callback that raises in the
  middle of a write. `IndexedTable` has the threads that `RowStore` leaves out, with one hash index.
- `WalStore`: a flush of the log that fails in the middle of a write or twice in a row, a failed
  flush whose text is cut short, an exit between a slab's page and its liveness byte.
- `ZoneMap`: a batch widens the bounds as single inserts do; columns whose values do not come back
  as given (f32, cut strings, NaN), and the row-by-row reading of an encrypted slab. The rows for an
  index are collected in one step: the code reads each row once, and what it may see of one row is
  what a step before or after each of that row's writes would see. A writer that loops over
  `_range_indexes` while another thread enters or drops an index raises a RuntimeError, and rows
  that a compact moves while they are being collected are not followed.
- `ColumnarTable`: values fit their types (an overflow in one of several columns is listed as a
  hazard); filters change nothing and evaluate Python comparisons over what a scan gives; the unique
  constraints and CDC that a columnar SnapDB adds.
- `QueryPlan`: the arithmetic of sums and averages; several indexes on a plan's columns, of
  which any one is taken.
- `Snapshots`: generated names, `list_snapshots`, which only reads, and what happens after a race.

Components left out: the document store (a client of the row engine whose matching is a function of one
document), the vector index (numeric search over a list), change data capture beyond the hazard
above, metrics and the profiler (observation only), key derivation and the XOR stream (pure
functions), re-exports.

What a further extension would take first: fsck and a raising callback as steps of `RowStore`;
unique constraints of a columnar table, and an append that raises in one of its columns.
