------------------------------- MODULE ZoneMap -------------------------------
(***************************************************************************)
(* range_find of core.py on one numeric column: the per-slab zone maps     *)
(* that let it skip slabs, and the RangeIndex that replaces the scan.      *)
(* Writers hold SnapDB._lock; the thread that calls range_find or          *)
(* create_range_index does not, so the lazy build of a zone map and the    *)
(* build of an index are taken apart, and so are the steps of a write      *)
(* between which such a thread may look: what comes before the page, the   *)
(* page, and the call that maintains the indexes.  The undo list, which no *)
(* other thread reads, is taken with the page.                             *)
(*                                                                         *)
(* The column is an integer or f64 one: what struct.pack accepts comes     *)
(* back as it was given.  Keys and the hash index are RowStore's subject.  *)
(***************************************************************************)
EXTENDS Integers, Sequences, FiniteSets, SequencesExt

CONSTANTS
  Val,          \* numbers
  Zero,         \* what a slot of zero bytes decodes to
  RowsPerSlab,
  MaxSlabs,     \* bound: slabs in the file
  MaxRows,      \* bound: slots handed out
  MaxUndo,      \* bound: undo records of one transaction
  None,         \* an absent bound, of a zone map or of a query
  Idle,         \* no write half done, no index call due, no zone map being built
  Failing,      \* whether rows may fail to encode
  Pruning, Indexing,  \* whether the reader builds zone maps, a range index
  Overlapping   \* whether a reader may run while a write or a rollback is under way

ASSUME SizeAssumption ==
  /\ RowsPerSlab \in Nat \ {0} /\ MaxSlabs \in Nat \ {0}
  /\ MaxRows \in 0 .. MaxSlabs * RowsPerSlab /\ MaxUndo \in Nat
  /\ Val \subseteq Int /\ Zero \in Val
  /\ {Failing, Pruning, Indexing, Overlapping} \subseteq BOOLEAN

Capacity == MaxSlabs * RowsPerSlab
Slot == 0 .. Capacity - 1
Slab == 0 .. MaxSlabs - 1
SlabOf(i) == i \div RowsPerSlab
RowWrite == [op : {"insert", "update", "undo"}, idx : Slot, val : Val, wide : BOOLEAN]

\* The arguments of _index_insert, _index_update or _index_delete.
IndexCall == [idx : Slot, old : Val \cup {None}, new : Val \cup {None}]

ASSUME MarkAssumption == None \notin Val /\ Idle \notin RowWrite /\ Idle \notin IndexCall

VARIABLES
  cells, live,   \* decoded pages, liveness bytes
  top,           \* slots handed out; slabs fill strictly in order
  zone,          \* Slab._zone_built, _zone_min, _zone_max
  index,         \* "none", "scanned" (create_range_index has its rows), "ready"
  items,         \* RangeIndex._items
  phase, undo,   \* transaction, as in RowStore
  write,         \* a row write before its page
  due,           \* the index call that a write has still to make
  build,         \* ensure_zone_map: the slab, the rows iter_rows copied, the next one
  unseen,        \* history: slots whose value the zone map may not know
  stale          \* history: slots the range index may be wrong about

rows == <<cells, live, top>>
reading == <<zone, build, unseen>>
indexing == <<index, items, stale>>
vars == <<rows, reading, indexing, phase, undo, write, due>>

Visible == {i \in live : i < top}
SlabCount(n) == IF n = 0 THEN 1 ELSE (n + RowsPerSlab - 1) \div RowsPerSlab

(* Zone maps.                                                              *)

Fresh == [built |-> TRUE, lo |-> None, hi |-> None]
Unbuilt == [Fresh EXCEPT !.built = FALSE]
Reloaded(n) == [s \in Slab |-> IF s < SlabCount(n) THEN Unbuilt ELSE Fresh]

\* Seeded fault: a value is compared with the maximum only if it does not lower
\* the minimum.
WidenedElse(z, v) ==
  IF z.lo = None \/ v < z.lo THEN [z EXCEPT !.lo = v]
  ELSE [z EXCEPT !.hi = IF @ = None \/ v > @ THEN v ELSE @]

Widened(z, v) ==
  [z EXCEPT !.lo = IF @ = None \/ v < @ THEN v ELSE @,
            !.hi = IF @ = None \/ v > @ THEN v ELSE @]

\* Seeded fault: the map of the last slab is widened, wherever the row is.
ZoneAfterLast(i, v) ==
  LET s == SlabCount(top) - 1
  IN  IF zone[s].built THEN [zone EXCEPT ![s] = Widened(@, v)] ELSE zone

ZoneAfter(i, v) ==
  IF zone[SlabOf(i)].built THEN [zone EXCEPT ![SlabOf(i)] = Widened(@, v)] ELSE zone

Query == [low : Val \cup {None}, high : Val \cup {None}, incLow : BOOLEAN, incHigh : BOOLEAN]

\* The test that range_find makes of every row it scans.
Matches(v, q) ==
  /\ q.low # None => (IF q.incLow THEN v >= q.low ELSE v > q.low)
  /\ q.high # None => (IF q.incHigh THEN v <= q.high ELSE v < q.high)

Overlaps(z, q) ==
  \/ z.lo = None \/ z.hi = None
  \/ /\ q.high # None => (IF q.incHigh THEN z.lo <= q.high ELSE z.lo < q.high)
     /\ q.low # None => (IF q.incLow THEN z.hi >= q.low ELSE z.hi > q.low)

(* The range index: a sorted list of <<value, row index>>, found by bisect. *)

Less(a, b) == a[1] < b[1] \/ (a[1] = b[1] /\ a[2] < b[2])
Sorted(S) ==
  [n \in 1..Cardinality(S) |-> CHOOSE e \in S : Cardinality({f \in S : Less(f, e)}) = n - 1]
BisectLeft(s, x) == Cardinality({n \in DOMAIN s : Less(s[n], x)})
BisectRight(s, x) == Cardinality({n \in DOMAIN s : ~Less(x, s[n])})
Insorted(s, x) == InsertAt(s, BisectRight(s, x) + 1, x)
Popped(s, x) ==
  LET pos == BisectLeft(s, x) + 1
  IN  IF pos <= Len(s) /\ s[pos] = x THEN RemoveAt(s, pos) ELSE s

\* Seeded fault: the entry of the old value stays.
MovedKeeps(s, i, old, new) == IF old = new THEN s ELSE Insorted(s, <<new, i>>)

Moved(s, i, old, new) ==
  IF old = new THEN s ELSE Insorted(Popped(s, <<old, i>>), <<new, i>>)
Maintained(s) == items' = IF index = "ready" THEN s ELSE items

\* Row indices lie between -1 and infinity, so either end takes or leaves all
\* the rows of a value.
RangeLookup(s, q) ==
  LET first == IF q.low = None THEN 0
               ELSE IF q.incLow THEN BisectLeft(s, <<q.low, -1>>)
               ELSE BisectRight(s, <<q.low, Capacity>>)
      last == IF q.high = None THEN Len(s)
              ELSE IF q.incHigh THEN BisectRight(s, <<q.high, Capacity>>)
              ELSE BisectLeft(s, <<q.high, -1>>)
  IN  [n \in 1..last - first |-> s[first + n][2]]

-----------------------------------------------------------------------------
Init ==
  /\ cells = [i \in Slot |-> Zero] /\ live = {} /\ top = 0
  /\ zone = [s \in Slab |-> Fresh]
  /\ index = "none" /\ items = <<>>
  /\ phase = "open" /\ undo = <<>>
  /\ write = Idle /\ due = Idle /\ build = Idle
  /\ unseen = {} /\ stale = {}

(* Writers.                                                                *)

ReaderDone == Overlapping \/ (build = Idle /\ index # "scanned")
NoWrite == write = Idle /\ due = Idle
Ready == phase \in {"open", "tx"} /\ NoWrite /\ ReaderDone
Room == phase = "tx" => Len(undo) < MaxUndo
Recorded(op, i, v) ==
  undo' = IF phase = "tx" THEN Append(undo, [op |-> op, idx |-> i, val |-> v]) ELSE undo

\* The row is written; its index entry is to follow.
Calls(i, old, new) == due' = [idx |-> i, old |-> old, new |-> new]

\* Slab.insert: mark and liveness byte first, ...
InsertTake(v) ==
  /\ Ready /\ Room /\ top < MaxRows
  /\ top' = top + 1
  /\ live' = live \cup {top}
  /\ write' = [op |-> "insert", idx |-> top, val |-> v, wide |-> FALSE]
  /\ unseen' = unseen \cup {top}
  /\ UNCHANGED <<cells, zone, build, indexing, phase, undo, due>>

\* ... then the page and the zone map if it is built.
InsertWrite ==
  /\ write # Idle /\ write.op = "insert"
  /\ LET i == write.idx
         v == write.val
     IN  /\ cells' = [cells EXCEPT ![i] = v]
         /\ zone' = ZoneAfter(i, v)
         /\ unseen' = (IF zone[SlabOf(i)].built THEN unseen \ {i} ELSE unseen \cup {i})
         /\ Recorded("insert", i, v)
         /\ Calls(i, None, v)
  /\ write' = Idle
  /\ UNCHANGED <<live, top, build, indexing, phase>>

\* encode_row raises after the liveness byte was set.
InsertRaises ==
  /\ Failing /\ write # Idle /\ write.op = "insert"
  /\ stale' = stale \cup {write.idx}
  /\ write' = Idle
  /\ UNCHANGED <<rows, reading, index, items, phase, undo, due>>

\* Slab.update: the zone map if it is built, ...
StartWrite(op, i, v) ==
  /\ write' = [op |-> op, idx |-> i, val |-> v, wide |-> zone[SlabOf(i)].built]
  /\ zone' = ZoneAfter(i, v)
  /\ UNCHANGED <<rows, build, unseen, indexing, phase, undo, due>>
Update(i, v) == Ready /\ Room /\ i \in live /\ StartWrite("update", i, v)

\* ... then the page.  A rollback writes an old row back in the same way.
UpdateWrite ==
  /\ write # Idle /\ write.op \in {"update", "undo"}
  /\ LET i == write.idx
         v == write.val
     IN  /\ cells' = [cells EXCEPT ![i] = v]
         /\ unseen' = (IF write.wide THEN unseen \ {i} ELSE unseen \cup {i})
         /\ IF write.op = "update"
            THEN Recorded("update", i, cells[i])
            ELSE undo' = Front(undo)
         /\ Calls(i, cells[i], v)
  /\ write' = Idle
  /\ UNCHANGED <<live, top, zone, build, indexing, phase>>

Delete(i) ==
  /\ Ready /\ Room /\ i \in live
  /\ live' = live \ {i}
  /\ Recorded("delete", i, cells[i])
  /\ Calls(i, cells[i], None)
  /\ UNCHANGED <<cells, top, reading, indexing, phase, write>>

(* The index call, of a write as of a rollback.                            *)

\* What an index build that has its rows already will not learn of slot i.
Missed(i) == stale' = IF index = "scanned" THEN stale \cup {i} ELSE stale

Called ==
  /\ due # Idle
  /\ Missed(due.idx)
  /\ due' = Idle
  /\ UNCHANGED <<rows, reading, index, phase, undo, write>>
IndexInsert ==
  /\ Called /\ due.old = None
  /\ Maintained(Insorted(items, <<due.new, due.idx>>))
IndexUpdate ==
  /\ Called /\ due.old # None /\ due.new # None
  /\ Maintained(Moved(items, due.idx, due.old, due.new))
IndexDelete ==
  /\ Called /\ due.new = None
  /\ Maintained(Popped(items, <<due.old, due.idx>>))

Begin ==
  /\ Ready /\ phase = "open"
  /\ phase' = "tx"
  /\ UNCHANGED <<rows, reading, indexing, undo, write, due>>
\* Seeded fault: the undo list outlives the transaction.
CommitKeeps ==
  /\ Ready /\ phase = "tx"
  /\ phase' = "open"
  /\ UNCHANGED <<rows, reading, indexing, undo, write, due>>

Commit ==
  /\ Ready /\ phase = "tx"
  /\ phase' = "open" /\ undo' = <<>>
  /\ UNCHANGED <<rows, reading, indexing, write, due>>
Abort ==
  /\ Ready /\ phase = "tx"
  /\ phase' = "abort"
  /\ UNCHANGED <<rows, reading, indexing, undo, write, due>>

(* _tx_rollback, backwards.                                                *)

Undoing(op) == phase = "abort" /\ NoWrite /\ undo # <<>> /\ Last(undo).op = op

UndoInsert ==
  /\ Undoing("insert")
  /\ LET e == Last(undo) IN
     /\ live' = live \ {e.idx}
     /\ Calls(e.idx, e.val, None)
  /\ undo' = Front(undo)
  /\ UNCHANGED <<cells, top, reading, indexing, phase, write>>

UndoUpdate == Undoing("update") /\ StartWrite("undo", Last(undo).idx, Last(undo).val)

\* The page and the liveness byte are written past Slab, so the zone map does
\* not learn of the row.
UndoDelete ==
  /\ Undoing("delete")
  /\ LET e == Last(undo) IN
     /\ cells' = [cells EXCEPT ![e.idx] = e.val]
     /\ live' = live \cup {e.idx}
     /\ Calls(e.idx, None, e.val)
  /\ undo' = Front(undo)
  /\ UNCHANGED <<top, reading, indexing, phase, write>>

UndoDone ==
  /\ phase = "abort" /\ NoWrite /\ undo = <<>>
  /\ phase' = "open"
  /\ UNCHANGED <<rows, reading, indexing, undo, write, due>>

-----------------------------------------------------------------------------
(* Readers.                                                                *)

WriterDone == Overlapping \/ (NoWrite /\ phase # "abort")

\* ensure_zone_map on the next slab that range_find comes to: iter_rows reads
\* the mark and copies the page, ...
BuildStart(s) ==
  /\ Pruning /\ build = Idle /\ WriterDone
  /\ s < SlabCount(top) /\ ~zone[s].built
  /\ \A t \in Slab : t < s => zone[t].built
  /\ build' = [slab |-> s, copy |-> [i \in Slot |-> IF SlabOf(i) = s THEN cells[i] ELSE Zero],
               next |-> s * RowsPerSlab,
               upto |-> IF top < (s + 1) * RowsPerSlab THEN top ELSE (s + 1) * RowsPerSlab]
  /\ unseen' = {i \in unseen : SlabOf(i) # s}
  /\ UNCHANGED <<rows, zone, indexing, phase, undo, write, due>>

\* ... yields the rows one by one, skipping those that are dead by then, ...
BuildRow ==
  /\ build # Idle /\ build.next < build.upto
  /\ IF build.next \in live
     THEN /\ zone' = [zone EXCEPT ![build.slab] = Widened(@, build.copy[build.next])]
          /\ UNCHANGED unseen
     ELSE /\ unseen' = unseen \cup {build.next}
          /\ UNCHANGED zone
  /\ build' = [build EXCEPT !.next = @ + 1]
  /\ UNCHANGED <<rows, indexing, phase, undo, write, due>>

\* ... and the map counts from then on.
BuildEnd ==
  /\ build # Idle /\ build.next >= build.upto
  /\ zone' = [zone EXCEPT ![build.slab].built = TRUE]
  /\ build' = Idle
  /\ UNCHANGED <<rows, unseen, indexing, phase, undo, write, due>>

\* A writer on its way enters this slot once more, whether an index has its row
\* already or not.
Entering ==
  (IF write # Idle /\ write.op = "insert" THEN {write.idx} ELSE {}) \cup
  (IF due # Idle /\ due.new \notin {None, due.old} THEN {due.idx} ELSE {})

\* create_range_index copies and sorts all rows, and only then enters the index
\* where writers find it.
IndexScan ==
  /\ Indexing /\ index = "none" /\ WriterDone
  /\ index' = "scanned"
  /\ items' = Sorted({<<cells[i], i>> : i \in Visible})
  /\ stale' = Entering
  /\ UNCHANGED <<rows, reading, phase, undo, write, due>>
IndexPublish ==
  /\ index = "scanned"
  /\ index' = "ready"
  /\ UNCHANGED <<rows, reading, items, stale, phase, undo, write, due>>
IndexDrop ==
  /\ index = "ready"
  /\ index' = "none" /\ items' = <<>> /\ stale' = {}
  /\ UNCHANGED <<rows, reading, phase, undo, write, due>>

\* close and open again: no slab's zone map is built, no index is left.
Reopen ==
  /\ Ready /\ phase = "open"
  /\ zone' = Reloaded(top) /\ build' = Idle /\ unseen' = {}
  /\ index' = "none" /\ items' = <<>> /\ stale' = {}
  /\ UNCHANGED <<rows, phase, undo, write, due>>

Rank(i) == Cardinality({j \in Visible : j < i})

\* compact writes the visible rows to a new file, loads it and builds the index
\* anew.  An index that another thread is building has the old row indices.
Compact ==
  /\ Ready /\ phase = "open"
  /\ LET n == Cardinality(Visible)
         cells1 == [i \in Slot |-> IF \E j \in Visible : Rank(j) = i
                                   THEN cells[CHOOSE j \in Visible : Rank(j) = i]
                                   ELSE Zero]
     IN  /\ cells' = cells1
         /\ live' = 0 .. n - 1
         /\ top' = n
         /\ zone' = Reloaded(n)
         /\ Maintained(Sorted({<<cells1[i], i>> : i \in 0 .. n - 1}))
  /\ build' = Idle /\ unseen' = {}
  /\ stale' = (IF index = "scanned" THEN Slot ELSE {})
  /\ UNCHANGED <<index, phase, undo, write, due>>

Write ==
  \/ (\E v \in Val : InsertTake(v)) \/ InsertWrite \/ InsertRaises
  \/ (\E i \in Visible, v \in Val : Update(i, v)) \/ UpdateWrite
  \/ \E i \in Visible : Delete(i)
MaintainIndex == IndexInsert \/ IndexUpdate \/ IndexDelete
Rollback == UndoInsert \/ UndoUpdate \/ UndoDelete \/ UndoDone
Read == (\E s \in Slab : BuildStart(s)) \/ BuildRow \/ BuildEnd

Next ==
  \/ Write \/ MaintainIndex \/ Begin \/ Commit \/ Abort \/ Rollback
  \/ Read \/ IndexScan \/ IndexPublish \/ IndexDrop
  \/ Reopen \/ Compact

Spec == Init /\ [][Next]_vars

-----------------------------------------------------------------------------
(* Properties.                                                             *)

Zone == [built : BOOLEAN, lo : Val \cup {None}, hi : Val \cup {None}]
UndoRecord == [op : {"insert", "update", "delete"}, idx : Slot, val : Val]
ZoneBuild == [slab : Slab, copy : [Slot -> Val], next : 0..Capacity, upto : 0..Capacity]

\* Every variable stays in its set, and rows live only below the mark.
RowsTypeOK ==
  /\ cells \in [Slot -> Val] /\ live \in SUBSET Slot /\ top \in 0..MaxRows
  /\ \A i \in live : i < top
  /\ zone \in [Slab -> Zone]
  /\ phase \in {"open", "tx", "abort"} /\ undo \in Seq(UndoRecord)
  /\ phase = "open" => undo = <<>>
  /\ write \in RowWrite \cup {Idle} /\ build \in ZoneBuild \cup {Idle}
  /\ unseen \in SUBSET Slot
TypeOK ==
  /\ RowsTypeOK
  /\ index \in {"none", "scanned", "ready"} /\ items \in Seq(Val \X Slot)
  /\ stale \in SUBSET Slot /\ due \in IndexCall \cup {Idle}

\* core.py:322-325, where it holds: range_find skips no slab that has a matching
\* row, but for rows that a rollback brought back after the map was built
\* without them, rows written while a reader built the map, and the zero rows
\* of failed inserts.
PruningSound ==
  \A i \in Visible \ unseen : zone[SlabOf(i)].built =>
    \A q \in Query : Matches(cells[i], q) => Overlaps(zone[SlabOf(i)], q)

\* What makes PruningSound inductive.  A value is in a zone map's bounds; ...
In(z, v) == z.lo # None /\ z.hi # None /\ z.lo <= v /\ v <= z.hi

\* ... the deletes that a rollback may undo name dead slots, which still hold the
\* deleted row, and nothing was recorded of such a slot after its delete; ...
Deletes == {n \in 1..Len(undo) : undo[n].op = "delete"}
UndoValid ==
  /\ \A n \in Deletes : undo[n].idx \notin live /\ cells[undo[n].idx] = undo[n].val
  /\ \A n \in Deletes : \A m \in n + 1 .. Len(undo) : undo[m].idx # undo[n].idx
  /\ \A n \in 1..Len(undo) : undo[n].idx < top

\* ... a row half written is live, and in the bounds if they were widened; ...
WriteValid ==
  write # Idle =>
    /\ write.op \in {"insert", "update"} => write.idx \in live /\ phase \in {"open", "tx"}
    /\ write.op = "undo" => /\ phase = "abort" /\ undo # <<>>
                            /\ undo[Len(undo)].op = "update" /\ undo[Len(undo)].idx = write.idx
    /\ write.wide => zone[SlabOf(write.idx)].built /\ In(zone[SlabOf(write.idx)], write.val)

\* ... and of the slots a map knows, those that are live or may come back are in
\* its bounds, or are still to be read by the build in the value they have.
Restorable == live \cup {undo[n].idx : n \in Deletes}
Known ==
  \A i \in Restorable \ unseen :
    /\ zone[SlabOf(i)].built => In(zone[SlabOf(i)], cells[i])
    /\ build # Idle /\ build.slab = SlabOf(i) =>
         /\ i < build.upto /\ build.copy[i] = cells[i]
         /\ i < build.next => In(zone[SlabOf(i)], cells[i])
BuildValid == build # Idle => ~zone[build.slab].built

ZoneInv == RowsTypeOK /\ UndoValid /\ WriteValid /\ BuildValid /\ Known

\* The range index lists each row of a range once and no other, as a scan does,
\* but for rows written while the index was being built, rows whose index call
\* was still to come when their new value was collected (they are listed twice),
\* rows half written, and the zero rows of failed inserts.
Unsettled ==
  stale \cup (IF write = Idle THEN {} ELSE {write.idx})
        \cup (IF due = Idle THEN {} ELSE {due.idx})
RangeIndexExact ==
  index = "ready" => \A q \in Query :
    LET found == RangeLookup(items, q)
    IN  \A i \in Slot \ Unsettled :
          Cardinality({n \in DOMAIN found : found[n] = i}) =
            IF i \in Visible /\ Matches(cells[i], q) THEN 1 ELSE 0
=============================================================================
