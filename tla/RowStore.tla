------------------------------ MODULE RowStore ------------------------------
(***************************************************************************)
(* The row storage engine of core.py while a database is open: slabs,      *)
(* liveness bits, the row counter, the unique map, the hash index, batch   *)
(* inserts, transactions with their undo list, compact, fsck, close and    *)
(* reopen.  Every writer holds SnapDB._lock (an RLock that a transaction   *)
(* keeps from begin to its end), so one writer acts at a time; the steps   *)
(* of a batch insert and of a rollback are kept apart because they may     *)
(* fail half way.                                                          *)
(*                                                                         *)
(* A row has one unique column k and one indexed column v.  A global row   *)
(* index is the pair <<slab, local>>: core.py computes it as               *)
(* slab * rows_per_slab + local and takes it apart with // and %.          *)
(***************************************************************************)
EXTENDS Integers, Sequences, FiniteSets

CONSTANTS
  Key, Val,     \* values of the unique column and of the indexed column
  ZeroRow,      \* what a slot of zero bytes decodes to
  Given,        \* rows a client passes to insert and batch_insert
  Encodable,    \* rows Schema.encode_row accepts (struct.pack raises on others)
  Stored,       \* the row that decoding the encoded row gives back
  RowsPerSlab,  \* SnapDB._rows_per_slab
  MaxSlabs,     \* bound: slabs in the file
  MaxBatch,     \* bound: rows of one batch_insert
  MaxUndo,      \* bound: undo records of one transaction
  NoOwner,      \* a key the unique map does not hold
  Absent        \* get() returned None

Row == [k : Key, v : Val]
Slot == (1..MaxSlabs) \X (0..RowsPerSlab - 1)

ASSUME SizeAssumption ==
  /\ RowsPerSlab \in Nat \ {0}
  /\ MaxSlabs \in Nat \ {0}
  /\ MaxBatch \in Nat
  /\ MaxUndo \in Nat

ASSUME RowAssumption ==
  /\ ZeroRow \in Row
  /\ Given \subseteq Row
  /\ Encodable \subseteq Row
  /\ ZeroRow \in Encodable
  /\ Stored \in [Row -> Row]
  /\ \A r \in Encodable : Stored[r] \in Encodable

ASSUME MarkAssumption == NoOwner \notin Slot /\ Absent \notin Row

VARIABLES
  cells,    \* decoded contents of every slot of the mapped file
  live,     \* Slab._live, the slots whose liveness byte is 1
  count,    \* Slab._count of every slab: its high-water insert position
  total,    \* SnapDB._total_rows
  uniq,     \* SnapDB._unique_values of the unique column
  indexed,  \* whether a hash index on v exists
  hash,     \* HashIndex._index
  phase,    \* "open", "tx", "abort" (in _tx_rollback), "closing", "closed"
  todo,     \* rows batch_insert has still to place
  undo,     \* SnapDB._tx_state
  hist      \* history: the tables before, between and after the undo records

store == <<cells, live, count, total>>
maps == <<uniq, indexed, hash>>
tx == <<phase, undo, hist>>
vars == <<store, maps, phase, todo, undo, hist>>

-----------------------------------------------------------------------------
(* Reading.                                                                *)

Before(i, j) == i[1] < j[1] \/ (i[1] = j[1] /\ i[2] < j[2])

\* What get(idx) returns: the liveness byte decides, not the high-water mark.
Table == [i \in Slot |-> IF i \in live THEN cells[i] ELSE Absent]

\* What iteration yields: live slots below their slab's high-water mark.
InSlabs(cnt, i) == i[1] <= Len(cnt) /\ i[2] < cnt[i[1]]
VisibleIn(cnt) == {i \in live : InSlabs(cnt, i)}
Visible == VisibleIn(count)

(* The unique map.                                                         *)

Released(i, r) == IF uniq[r.k] = i THEN [uniq EXCEPT ![r.k] = NoOwner] ELSE uniq
UniqueAllows(i, old, new) == Released(i, old)[new.k] \in {NoOwner, i}

\* Seeded fault: a refused update does not put the old key back.
UniqueMovedForgets(i, old, new) ==
  IF UniqueAllows(i, old, new) THEN [Released(i, old) EXCEPT ![new.k] = i] ELSE Released(i, old)

\* _unique_update: a refused update puts the old row's key back.
UniqueMoved(i, old, new) ==
  [Released(i, old) EXCEPT
    ![(IF UniqueAllows(i, old, new) THEN new ELSE old).k] = i]

\* _rebuild_unique_constraints scans the rows in order and stops at the first
\* row whose key is taken, keeping what it entered so far.
Duplicates(at, vis) == {i \in vis : \E j \in vis : Before(j, i) /\ at[j].k = at[i].k}
UniqueRebuilt(at, vis) ==
  LET entered == {i \in vis : \A d \in Duplicates(at, vis) : Before(i, d)}
  IN  [k \in Key |-> IF \E i \in entered : at[i].k = k
                     THEN CHOOSE i \in entered : at[i].k = k
                     ELSE NoOwner]

(* The hash index.                                                         *)

NoEntries == [v \in Val |-> {}]
HashAdd(h, i, v) == IF indexed THEN [h EXCEPT ![v] = @ \cup {i}] ELSE h
HashDrop(h, i, v) == IF indexed THEN [h EXCEPT ![v] = @ \ {i}] ELSE h
\* Seeded fault: an update leaves the entry of the old value behind.
HashMovedKeeps(i, old, new) == HashAdd(hash, i, new.v)

HashMoved(i, old, new) ==
  IF old.v = new.v THEN hash ELSE HashAdd(HashDrop(hash, i, old.v), i, new.v)
HashBuilt(at, vis) == [v \in Val |-> {i \in vis : at[i].v = v}]

-----------------------------------------------------------------------------
(* Creation.                                                               *)

Init ==
  /\ cells = [i \in Slot |-> ZeroRow]
  /\ live = {}
  /\ count = <<0>>
  /\ total = 0
  /\ uniq = [k \in Key |-> NoOwner]
  /\ indexed = FALSE
  /\ hash = NoEntries
  /\ phase = "open"
  /\ todo = <<>>
  /\ undo = <<>>
  /\ hist = <<>>

InTx == phase = "tx"
Ready == phase \in {"open", "tx"} /\ todo = <<>>

(* Placing rows: one row of insert, or one slab's chunk of batch_insert.   *)

Filled(f, cnt, s, rs) ==
  [i \in Slot |-> IF i[1] = s /\ i[2] \in cnt[s] .. cnt[s] + Len(rs) - 1
                  THEN Stored[rs[i[2] - cnt[s] + 1]]
                  ELSE f[i]]

\* The slots an insert of n rows at the high-water mark of slab s fills.
Fresh(cnt, s, n) == {i \in Slot : i[1] = s /\ i[2] \in cnt[s] .. cnt[s] + n - 1}

Place(cnt, s, rs) ==
  LET at(j) == <<s, cnt[s] + j - 1>>
      places == 1..Len(rs)
  IN
  /\ cells' = Filled(cells, cnt, s, rs)
  /\ live' = live \cup Fresh(cnt, s, Len(rs))
  /\ count' = [cnt EXCEPT ![s] = @ + Len(rs)]
  /\ total' = total + Len(rs)
  /\ hash' = IF indexed
             THEN [v \in Val |-> hash[v] \cup {at(j) : j \in {n \in places : rs[n].v = v}}]
             ELSE hash
  /\ uniq' = [k \in Key |-> IF \E j \in places : rs[j].k = k
                            THEN at(CHOOSE j \in places : rs[j].k = k)
                            ELSE uniq[k]]
  /\ IF InTx
     THEN /\ undo' = undo \o [j \in places |-> [op |-> "insert", idx |-> at(j), row |-> rs[j]]]
          /\ hist' = hist \o [j \in places |-> Filled(Table, cnt, s, SubSeq(rs, 1, j))]
     ELSE UNCHANGED <<undo, hist>>
  /\ UNCHANGED <<indexed, phase>>

UndoRoom(n) == InTx => Len(undo) + n <= MaxUndo
KeyFree(r) == uniq[r.k] = NoOwner

\* Seeded fault: the file grows one row early.
LastFullEarly == count[Len(count)] + 1 >= RowsPerSlab

\* Only the last slab is ever inserted into; a full one makes the file grow.
LastFull == count[Len(count)] >= RowsPerSlab
Expanded == IF LastFull THEN Append(count, 0) ELSE count

Insert(r) ==
  /\ Ready
  /\ KeyFree(r)
  /\ r \in Encodable
  /\ Len(Expanded) <= MaxSlabs
  /\ UndoRoom(1)
  /\ Place(Expanded, Len(Expanded), <<r>>)
  /\ UNCHANGED todo

\* Seeded fault: the index entry is made before the row is encoded.
InsertFailsIndexed(r) ==
  /\ Ready
  /\ KeyFree(r)
  /\ r \notin Encodable
  /\ Len(Expanded) <= MaxSlabs
  /\ LET s == Len(Expanded) IN
     /\ live' = live \cup Fresh(Expanded, s, 1)
     /\ count' = [Expanded EXCEPT ![s] = @ + 1]
     /\ hash' = HashAdd(hash, <<s, Expanded[s]>>, r.v)
  /\ UNCHANGED <<cells, total, uniq, indexed, phase, todo, undo, hist>>

\* Slab.insert advances the mark and sets the liveness byte before
\* encode_row raises; the counter, the maps and the undo list are not reached.
InsertFails(r) ==
  /\ Ready
  /\ KeyFree(r)
  /\ r \notin Encodable
  /\ Len(Expanded) <= MaxSlabs
  /\ LET s == Len(Expanded) IN
     /\ live' = live \cup Fresh(Expanded, s, 1)
     /\ count' = [Expanded EXCEPT ![s] = @ + 1]
  /\ UNCHANGED <<cells, total, maps, phase, todo, undo, hist>>

-----------------------------------------------------------------------------
(* batch_insert: validate every row, grow the file once, fill slab by slab. *)

FreeIn(s) == RowsPerSlab - count[s]
FreeSlots == Cardinality({i \in Slot : i[1] <= Len(count) /\ i[2] >= count[i[1]]})
\* Seeded fault: the missing slabs are rounded down.
GrowthDown(n) == IF n > FreeSlots THEN (n - FreeSlots) \div RowsPerSlab ELSE 0

Growth(n) == IF n > FreeSlots THEN (n - FreeSlots + RowsPerSlab - 1) \div RowsPerSlab ELSE 0

\* Seeded fault: the rows of a batch are not compared with each other.
BatchStartUnchecked(rs) ==
  /\ Ready
  /\ Len(rs) > 0
  /\ \A j \in 1..Len(rs) : KeyFree(rs[j])
  /\ Len(count) + Growth(Len(rs)) <= MaxSlabs
  /\ UndoRoom(Len(rs))
  /\ count' = count \o [j \in 1..Growth(Len(rs)) |-> 0]
  /\ todo' = rs
  /\ UNCHANGED <<cells, live, total, maps, tx>>

BatchStart(rs) ==
  /\ Ready
  /\ Len(rs) > 0
  /\ \A j \in 1..Len(rs) : KeyFree(rs[j])
  /\ \A j, n \in 1..Len(rs) : rs[j].k = rs[n].k => j = n
  /\ Len(count) + Growth(Len(rs)) <= MaxSlabs
  /\ UndoRoom(Len(rs))
  /\ count' = count \o [j \in 1..Growth(Len(rs)) |-> 0]
  /\ todo' = rs
  /\ UNCHANGED <<cells, live, total, maps, tx>>

\* The first slab with space takes as many of the remaining rows as fit.
HasSpace(s) == FreeIn(s) > 0 /\ \A t \in 1..s - 1 : FreeIn(t) <= 0
\* Seeded fault: a chunk takes all remaining rows, whatever the space.
ChunkLenAll(s) == Len(todo)

ChunkLen(s) == IF FreeIn(s) < Len(todo) THEN FreeIn(s) ELSE Len(todo)
ChunkEncodable(s) == \A j \in 1..ChunkLen(s) : todo[j] \in Encodable

\* Seeded fault: the cursor stays on the last row that was placed.
BatchChunkRepeats(s) ==
  /\ todo # <<>>
  /\ HasSpace(s)
  /\ ChunkEncodable(s)
  /\ Place(count, s, SubSeq(todo, 1, ChunkLen(s)))
  /\ todo' = IF ChunkLen(s) = Len(todo) THEN <<>> ELSE SubSeq(todo, ChunkLen(s), Len(todo))

BatchChunk(s) ==
  /\ todo # <<>>
  /\ HasSpace(s)
  /\ ChunkEncodable(s)
  /\ Place(count, s, SubSeq(todo, 1, ChunkLen(s)))
  /\ todo' = SubSeq(todo, ChunkLen(s) + 1, Len(todo))

\* Slab.batch_insert sets the liveness bytes of the rows it has encoded, and
\* raises at the first that it cannot encode: no page bytes, no mark.
BatchFails(s) ==
  /\ todo # <<>>
  /\ HasSpace(s)
  /\ ~ChunkEncodable(s)
  /\ live' = live \cup {<<s, count[s] + j - 1>> :
                        j \in {n \in 1..ChunkLen(s) : \A m \in 1..n : todo[m] \in Encodable}}
  /\ todo' = <<>>
  /\ UNCHANGED <<cells, count, total, maps, tx>>

-----------------------------------------------------------------------------
(* update and delete.                                                      *)

\* Seeded fault: the old row is copied after the page was overwritten.
RecordedLate(op, i, after) ==
  IF InTx
  THEN /\ undo' = Append(undo, [op |-> op, idx |-> i,
                                row |-> IF op = "update" THEN after[i] ELSE cells[i]])
       /\ hist' = Append(hist, after)
  ELSE UNCHANGED <<undo, hist>>

Recorded(op, i, after) ==
  IF InTx
  THEN /\ undo' = Append(undo, [op |-> op, idx |-> i, row |-> cells[i]])
       /\ hist' = Append(hist, after)
  ELSE UNCHANGED <<undo, hist>>

\* {**old_row, **row}: the patch may carry any of the columns.
Merged(old) == {m \in Row : \E g \in Given : m.k \in {old.k, g.k} /\ m.v \in {old.v, g.v}}

Update(i, m) ==
  /\ Ready /\ i \in live /\ UndoRoom(1)
  /\ UniqueAllows(i, cells[i], m)
  /\ m \in Encodable
  /\ uniq' = UniqueMoved(i, cells[i], m)
  /\ cells' = [cells EXCEPT ![i] = Stored[m]]
  /\ hash' = HashMoved(i, cells[i], m)
  /\ Recorded("update", i, [Table EXCEPT ![i] = Stored[m]])
  /\ UNCHANGED <<live, count, total, indexed, phase, todo>>

\* The unique map is moved first; a duplicate key or a row that cannot be
\* encoded raises after that.
UpdateFails(i, m) ==
  /\ Ready /\ i \in live
  /\ ~UniqueAllows(i, cells[i], m) \/ m \notin Encodable
  /\ uniq' = UniqueMoved(i, cells[i], m)
  /\ UNCHANGED <<store, indexed, hash, phase, todo, undo, hist>>

Delete(i) ==
  /\ Ready /\ i \in live /\ UndoRoom(1)
  /\ live' = live \ {i}
  /\ total' = total - 1
  /\ hash' = HashDrop(hash, i, cells[i].v)
  /\ uniq' = Released(i, cells[i])
  /\ Recorded("delete", i, [Table EXCEPT ![i] = Absent])
  /\ UNCHANGED <<cells, count, indexed, phase, todo>>

CreateIndex ==
  /\ Ready /\ ~indexed
  /\ indexed' = TRUE
  /\ hash' = HashBuilt(cells, Visible)
  /\ UNCHANGED <<store, uniq, phase, todo, undo, hist>>

DropIndex ==
  /\ Ready /\ indexed
  /\ indexed' = FALSE
  /\ hash' = NoEntries
  /\ UNCHANGED <<store, uniq, phase, todo, undo, hist>>

-----------------------------------------------------------------------------
(* Transactions.  Abort is an exception leaving the with block; Close of a *)
(* database inside a transaction rolls back the same way.  The undo list   *)
(* is applied backwards, one record a step.                                *)

Begin ==
  /\ phase = "open" /\ todo = <<>>
  /\ phase' = "tx"
  /\ undo' = <<>>
  /\ hist' = <<Table>>
  /\ UNCHANGED <<store, maps, todo>>

EndTx == phase' = "open" /\ undo' = <<>> /\ hist' = <<>>

Commit ==
  /\ InTx /\ todo = <<>>
  /\ EndTx
  /\ UNCHANGED <<store, maps, todo>>

Abort ==
  /\ InTx /\ todo = <<>>
  /\ phase' = "abort"
  /\ UNCHANGED <<store, maps, todo, undo, hist>>

Close ==
  /\ Ready
  /\ phase' = "closing"
  /\ UNCHANGED <<store, maps, todo, undo, hist>>

RollingBack == phase \in {"abort", "closing"}
\* Seeded fault: the records are applied oldest first.
Oldest == undo[1]

Latest == undo[Len(undo)]
Shortened ==
  /\ undo' = SubSeq(undo, 1, Len(undo) - 1)
  /\ hist' = SubSeq(hist, 1, Len(hist) - 1)

\* Seeded fault: the undone row stays live.
UndoInsertKeepsRow ==
  /\ RollingBack /\ undo # <<>> /\ Latest.op = "insert"
  /\ total' = total - 1
  /\ hash' = HashDrop(hash, Latest.idx, Latest.row.v)
  /\ uniq' = Released(Latest.idx, Latest.row)
  /\ Shortened
  /\ UNCHANGED <<cells, live, count, indexed, phase, todo>>

\* Seeded fault: the undone slot is handed out again.
UndoInsertReclaims ==
  /\ RollingBack /\ undo # <<>> /\ Latest.op = "insert"
  /\ LET i == Latest.idx
         r == Latest.row
     IN  /\ live' = live \ {i}
         /\ count' = [count EXCEPT ![i[1]] = i[2]]
         /\ total' = total - 1
         /\ hash' = HashDrop(hash, i, r.v)
         /\ uniq' = Released(i, r)
  /\ Shortened
  /\ UNCHANGED <<cells, indexed, phase, todo>>

UndoInsert ==
  /\ RollingBack /\ undo # <<>> /\ Latest.op = "insert"
  /\ LET i == Latest.idx
         r == Latest.row
     IN  /\ live' = live \ {i}
         /\ total' = total - 1
         /\ hash' = HashDrop(hash, i, r.v)
         /\ uniq' = Released(i, r)
  /\ Shortened
  /\ UNCHANGED <<cells, count, indexed, phase, todo>>

\* slab.update raises if the row is gone, _unique_update if its old key is
\* taken; the latter only after the page and the index were put back.
UndoUpdateRaises ==
  \/ Latest.idx \notin live
  \/ ~UniqueAllows(Latest.idx, cells[Latest.idx], Latest.row)

RestoreCell(i, r) == cells' = [cells EXCEPT ![i] = Stored[r]]

UndoUpdate ==
  /\ RollingBack /\ undo # <<>> /\ Latest.op = "update"
  /\ ~UndoUpdateRaises
  /\ LET i == Latest.idx
         r == Latest.row
     IN  /\ RestoreCell(i, r)
         /\ hash' = HashMoved(i, cells[i], r)
         /\ uniq' = UniqueMoved(i, cells[i], r)
  /\ Shortened
  /\ UNCHANGED <<live, count, total, indexed, phase, todo>>

\* The exception leaves _tx_rollback with _in_tx already cleared: the older
\* undo records are never applied, and close() stops with the file open.
UndoUpdateFails ==
  /\ RollingBack /\ undo # <<>> /\ Latest.op = "update"
  /\ UndoUpdateRaises
  /\ LET i == Latest.idx
         r == Latest.row
     IN  IF i \in live
         THEN /\ RestoreCell(i, r)
              /\ hash' = HashMoved(i, cells[i], r)
              /\ uniq' = UniqueMoved(i, cells[i], r)
         ELSE UNCHANGED <<cells, hash, uniq>>
  /\ EndTx
  /\ UNCHANGED <<live, count, total, indexed, todo>>

\* Seeded fault: the restored row is not counted.
UndoDeleteUncounted ==
  /\ RollingBack /\ undo # <<>> /\ Latest.op = "delete"
  /\ LET i == Latest.idx
         r == Latest.row
     IN  /\ RestoreCell(i, r)
         /\ live' = live \cup {i}
         /\ hash' = HashAdd(hash, i, r.v)
         /\ uniq' = [uniq EXCEPT ![r.k] = i]
  /\ Shortened
  /\ UNCHANGED <<count, total, indexed, phase, todo>>

\* Seeded fault: the restored row is not indexed.
UndoDeleteUnindexed ==
  /\ RollingBack /\ undo # <<>> /\ Latest.op = "delete"
  /\ LET i == Latest.idx
         r == Latest.row
     IN  /\ RestoreCell(i, r)
         /\ live' = live \cup {i}
         /\ total' = total + 1
         /\ uniq' = [uniq EXCEPT ![r.k] = i]
  /\ Shortened
  /\ UNCHANGED <<count, hash, indexed, phase, todo>>

UndoDelete ==
  /\ RollingBack /\ undo # <<>> /\ Latest.op = "delete"
  /\ LET i == Latest.idx
         r == Latest.row
     IN  /\ RestoreCell(i, r)
         /\ live' = live \cup {i}
         /\ total' = total + 1
         /\ hash' = HashAdd(hash, i, r.v)
         /\ uniq' = [uniq EXCEPT ![r.k] = i]
  /\ Shortened
  /\ UNCHANGED <<count, indexed, phase, todo>>

\* The rollback is done; a close goes on to write the bitmaps and the mark of
\* the last slab, and forgets every map.
UndoDone ==
  /\ RollingBack /\ undo = <<>>
  /\ phase' = (IF phase = "abort" THEN "open" ELSE "closed")
  /\ hist' = <<>>
  /\ IF phase = "abort"
     THEN UNCHANGED maps
     ELSE /\ uniq' = [k \in Key |-> NoOwner]
          /\ indexed' = FALSE
          /\ hash' = NoEntries
  /\ UNCHANGED <<store, todo, undo>>

-----------------------------------------------------------------------------
(* Open, compact and fsck.                                                 *)

\* _load: only the last slab's mark is in the file; the others count as full.
\* Rows are counted from the bitmaps, and a duplicate key fails the open.
Loaded == [s \in 1..Len(count) |-> IF s = Len(count) THEN count[s] ELSE RowsPerSlab]

Open ==
  /\ phase = "closed"
  /\ Duplicates(cells, VisibleIn(Loaded)) = {}
  /\ count' = Loaded
  /\ total' = Cardinality(live)
  /\ uniq' = UniqueRebuilt(cells, VisibleIn(Loaded))
  /\ phase' = "open"
  /\ UNCHANGED <<cells, live, indexed, hash, todo, undo, hist>>

Rank(i) == Cardinality({j \in Visible : Before(j, i)})
Nth(n) == <<n \div RowsPerSlab + 1, n % RowsPerSlab>>
SlabsFor(n) == IF n = 0 THEN 1 ELSE (n + RowsPerSlab - 1) \div RowsPerSlab

\* compact writes the visible rows in order to a new file and loads it.  The
\* client calls it outside transactions: the undo list would be stale after it.
Compact ==
  /\ phase = "open" /\ todo = <<>>
  /\ LET n == Cardinality(Visible)
         moved == [i \in Visible |-> Nth(Rank(i))]
         from(s) == CHOOSE i \in Visible : moved[i] = s
         kept == {moved[i] : i \in Visible}
         cells1 == [s \in Slot |-> IF s \in kept THEN cells[from(s)] ELSE ZeroRow]
     IN  /\ cells' = cells1
         /\ live' = kept
         /\ total' = n
         /\ count' = [s \in 1..SlabsFor(n) |->
                       IF s < SlabsFor(n) THEN RowsPerSlab ELSE n - (s - 1) * RowsPerSlab]
         /\ hash' = IF indexed THEN HashBuilt(cells1, kept) ELSE hash
         /\ uniq' = UniqueRebuilt(cells1, kept)
  /\ UNCHANGED <<indexed, phase, todo, undo, hist>>

\* fsck reports, and rebuilds the unique map as it goes.
Fsck ==
  /\ Ready
  /\ uniq' = UniqueRebuilt(cells, Visible)
  /\ UNCHANGED <<store, indexed, hash, phase, todo, undo, hist>>

\* A client addresses rows by indices that insert or a scan gave it.
Write ==
  \/ \E r \in Given : Insert(r) \/ InsertFails(r)
  \/ \E n \in 1..MaxBatch : \E rs \in [1..n -> Given] : BatchStart(rs)
  \/ \E s \in 1..Len(count) : BatchChunk(s) \/ BatchFails(s)
  \/ \E i \in Visible : \E m \in Merged(cells[i]) : Update(i, m) \/ UpdateFails(i, m)
  \/ \E i \in Visible : Delete(i)

Rollback == UndoInsert \/ UndoUpdate \/ UndoUpdateFails \/ UndoDelete \/ UndoDone

Next ==
  \/ Write
  \/ CreateIndex \/ DropIndex
  \/ Begin \/ Commit \/ Abort \/ Rollback
  \/ Close \/ Open \/ Compact \/ Fsck

Spec == Init /\ [][Next]_vars

-----------------------------------------------------------------------------
(* Properties.                                                             *)

UndoRecord == [op : {"insert", "update", "delete"}, idx : Slot, row : Row]

\* Every variable stays in its set, the undo list belongs to a transaction, and
\* live slots and the slots the undo list names lie in slabs that the file has,
\* so that _tx_rollback never skips a record (core.py:1893-1912).
TypeOK ==
  /\ cells \in [Slot -> Row]
  /\ live \in SUBSET Slot
  /\ count \in Seq(0..RowsPerSlab) /\ Len(count) \in 1..MaxSlabs
  /\ \A i \in live : i[1] <= Len(count)
  /\ total \in Int
  /\ uniq \in [Key -> Slot \cup {NoOwner}]
  /\ indexed \in BOOLEAN
  /\ hash \in [Val -> SUBSET Slot]
  /\ phase \in {"open", "tx", "abort", "closing", "closed"}
  /\ todo \in Seq(Row)
  /\ undo \in Seq(UndoRecord)
  /\ hist \in Seq([Slot -> Row \cup {Absent}])
  /\ \A n \in 1..Len(undo) : undo[n].idx[1] <= Len(count)
  /\ phase \in {"open", "closed"} => undo = <<>> /\ hist = <<>>

\* README.md:311: the unique map owns exactly the keys of the rows a scan
\* yields, each for its one row, so that "taken" and "present" agree through
\* updates, batches, rollbacks, compaction and reopening.
UniqueExact ==
  phase # "closed" =>
    \A k \in Key : \A i \in Slot : uniq[k] = i <=> i \in Visible /\ cells[i].k = k

\* README.md:209: the hash index holds for every value exactly the rows a scan
\* would find; find() and lookup() through it never go stale.
IndexExact ==
  indexed => \A v \in Val : hash[v] = {i \in Visible : cells[i].v = v}

\* core.py:1046: the slabs batch_insert adds up front hold the whole batch, so
\* that its safety net (one more slab) is never needed.
BatchFits == Len(todo) <= FreeSlots

\* core.py:786-789, 1027-1030: outside a batch every slab but the last is full,
\* which is what a reopen takes for granted of a file that keeps one mark only.
SlabsFull == todo = <<>> => \A s \in 1..Len(count) - 1 : count[s] = RowsPerSlab

\* What fsck checks: the row counter, the liveness bytes and the rows a scan
\* yields agree.
CountExact ==
  phase # "closed" => Visible = live /\ total = Cardinality(live)

\* Applying an undo record to the table after the change gives back the table
\* before it, for every record of the transaction and not the last one only.
Undone(e, t) == [t EXCEPT ![e.idx] = IF e.op = "insert" THEN Absent ELSE e.row]
UndoChain ==
  hist # <<>> =>
    /\ Len(hist) = Len(undo) + 1
    /\ hist[Len(hist)] = Table
    /\ \A n \in 1..Len(undo) : Undone(undo[n], hist[n + 1]) = hist[n]

\* README.md:656: when a rollback ends, normally or by an exception of its own,
\* the table is the one the transaction started from.
RollbackRestores ==
  [][RollingBack /\ ~RollingBack' => hist = <<>> \/ Table' = hist[1]]_vars

\* What makes the properties above inductive when every row is encodable and
\* comes back as it was given: all rows, closed file or not, have their own
\* keys and lie below the marks, what a batch has still to place has keys of
\* its own, and each undo record is the difference of two neighbouring tables.
Faultless == Encodable = Row /\ \A r \in Row : Stored[r] = r

KeysDistinct(t) == \A i, j \in Slot : t[i] # Absent /\ t[j] # Absent /\ t[i].k = t[j].k => i = j
Marked(cnt, t) == \A i \in Slot : t[i] # Absent => InSlabs(cnt, i)
BatchValid ==
  /\ todo # <<>> => phase \in {"open", "tx"}
  /\ \A j \in 1..Len(todo) : uniq[todo[j].k] = NoOwner
  /\ \A j, n \in 1..Len(todo) : todo[j].k = todo[n].k => j = n

Did(e, before, after) ==
  /\ \A i \in Slot \ {e.idx} : before[i] = after[i]
  /\ IF e.op = "insert"
     THEN before[e.idx] = Absent /\ after[e.idx] = e.row
     ELSE before[e.idx] = e.row
  /\ after[e.idx] = Absent <=> e.op = "delete"
Chained ==
  /\ hist = <<>> => undo = <<>> /\ phase \in {"open", "closed", "closing"}
  /\ hist # <<>> => Len(hist) = Len(undo) + 1 /\ hist[Len(hist)] = Table
  /\ \A n \in 1..Len(undo) : Did(undo[n], hist[n], hist[n + 1])
  /\ \A n \in 1..Len(hist) : KeysDistinct(hist[n]) /\ Marked(count, hist[n])

Exact ==
  /\ TypeOK
  /\ KeysDistinct(Table) /\ Marked(count, Table)
  /\ BatchValid
  /\ Chained
  /\ UniqueExact
  /\ IndexExact

\* core.py:1644-1645: the database can be reopened after a close.  A file
\* whose visible rows repeat a key makes every later open raise.
Reopenable == phase = "closed" => Duplicates(cells, VisibleIn(Loaded)) = {}

\* Rows of which encode_row raises leave zero rows behind: live slots of zero
\* bytes, some of them updated later.  Where no client gives the zero value of
\* v, that value tells them.
FromFailure(r) == r.v = ZeroRow.v

\* Even when inserts and updates fail half way: an index entry always points to
\* a live row that has the value, and the rows missing from the index are what
\* failed inserts left.
IndexSound ==
  indexed => \A v \in Val : \A i \in hash[v] : i \in live /\ cells[i].v = v
IndexMissesOnlyFailures ==
  indexed => \A i \in Visible : i \in hash[cells[i].v] \/ FromFailure(cells[i])

\* Even when inserts and updates fail half way: a rollback that runs to its end
\* restores every row of the start and leaves no row of the transaction, but
\* for what failed inserts left.
Blank(t, i) == t[i] = Absent \/ FromFailure(t[i])
RollbackRestoresRows ==
  [][UndoDone /\ hist # <<>> =>
       \A i \in Slot : \/ Table'[i] = hist[1][i]
                       \/ Blank(Table', i) /\ Blank(hist[1], i)]_vars

\* The engine implements the table of TxTable: indices are handed out once, an
\* aborted transaction leaves the table it found, and no step in the middle of
\* a rollback shows.
Promise == INSTANCE TxTable WITH
  rows <- IF RollingBack /\ hist # <<>> THEN hist[1] ELSE Table,
  used <- {i \in Slot : InSlabs(count, i)},
  saved <- IF InTx THEN hist[1] ELSE <<>>,
  NoTable <- <<>>
Implements == Promise!Spec
=============================================================================
