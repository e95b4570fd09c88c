--------------------------- MODULE RowStoreProofs ---------------------------
(***************************************************************************)
(* Proofs about RowStore, for every value of its constants: first its type *)
(* invariant, rows that cannot be encoded or that come back changed        *)
(* included; then its safety properties when every row is encodable and    *)
(* comes back as it was given (Faultless).  Their inductive invariant,     *)
(* Exact, is stated in RowStore.  Its parts are about the table that get() *)
(* shows, so each action's lemma says what the new table is and then what  *)
(* became of the maps and of the undo list.  Then the index and a rollback *)
(* when rows may fail to be encoded (Lossless); what RowStore counts: the  *)
(* free slots that a batch is promised before its first row is placed, the *)
(* rows that the row counter stands for, and the slots below the marks.    *)
(* Last, that RowStore implements TxTable when it is Faultless: inserts,   *)
(* chunks, updates, deletes and compact are the table's own steps; an      *)
(* abort jumps to the saved table when the rollback starts, and the undo   *)
(* records, the index operations, close and reopen do not show.            *)
(***************************************************************************)
EXTENDS RowStore, GeneralLemmas

\* There are finitely many slots.
LEMMA SlotFinite == IsFiniteSet(Slot)
<1>1. IsFiniteSet(1..MaxSlabs) /\ IsFiniteSet(0..RowsPerSlab - 1)
  BY FS_Interval, SizeAssumption
<1>. QED  BY <1>1, FS_Product DEF Slot

\* The table that get() shows has rows and absent entries.
LEMMA TableType == TypeOK => Table \in [Slot -> Row \cup {Absent}]
BY DEF TypeOK, Table

\* Placing rows in a table of rows gives a table of rows.
LEMMA FilledType ==
  ASSUME NEW S, Row \subseteq S, NEW f \in [Slot -> S], NEW cnt \in Seq(0..RowsPerSlab), NEW s \in 1..Len(cnt), NEW rs \in Seq(Row)
  PROVE  Filled(f, cnt, s, rs) \in [Slot -> S]
<1> SUFFICES ASSUME NEW i \in Slot, i[1] = s, i[2] \in cnt[s] .. cnt[s] + Len(rs) - 1
             PROVE  Stored[rs[i[2] - cnt[s] + 1]] \in Row
    BY DEF Filled
<1>1. cnt[s] \in Int /\ i[2] \in Int /\ Len(rs) \in Nat
   BY SizeAssumption
<1>2. i[2] - cnt[s] + 1 \in 1..Len(rs)
  BY <1>1
<1>3. rs[i[2] - cnt[s] + 1] \in Row
  BY <1>2
<1>. QED  BY <1>3, RowAssumption

\* The slots at the mark of a slab with room for n rows exist.
LEMMA FreshType ==
  ASSUME NEW cnt \in Seq(0..RowsPerSlab), NEW s \in 1..Len(cnt), NEW n \in Nat, cnt[s] + n <= RowsPerSlab,
         Len(cnt) <= MaxSlabs, NEW j \in 1..n
  PROVE  <<s, cnt[s] + j - 1>> \in Slot
BY SizeAssumption DEF Slot

\* Marks and undo records by position.
LEMMA LenType ==
  ASSUME TypeOK
  PROVE  /\ Len(count) \in Nat \ {0} /\ Len(undo) \in Nat
         /\ \A s \in 1..Len(count) : count[s] \in 0..RowsPerSlab
         /\ \A n \in 1..Len(undo) : undo[n] \in UndoRecord
<1>1. count \in Seq(0..RowsPerSlab) /\ Len(count) \in 1..MaxSlabs /\ undo \in Seq(UndoRecord)
  BY DEF TypeOK
<1>. QED BY <1>1, ElementOfSeq, LenProperties, SizeAssumption

\* What moves the file's end moves it away from the slots in use.
LEMMA GrownType ==
  ASSUME TypeOK, NEW cnt \in Seq(0..RowsPerSlab), Len(cnt) >= Len(count)
  PROVE  /\ \A i \in live : i[1] <= Len(cnt)
         /\ \A n \in 1..Len(undo) : undo[n].idx[1] <= Len(cnt)
<1>1. \A i \in Slot : i[1] \in Nat
  BY SizeAssumption DEF Slot
<1>2. \A n \in 1..Len(undo) : undo[n].idx \in Slot
  BY LenType DEF UndoRecord
<1>. QED BY <1>1, <1>2, LenType DEF TypeOK

\* Placing rows (insert and a chunk of batch_insert) keeps the types.
LEMMA PlaceType ==
  ASSUME TypeOK, NEW cnt \in Seq(0..RowsPerSlab), Len(cnt) \in Len(count)..MaxSlabs,
         NEW s \in 1..Len(cnt), NEW rs \in Seq(Row), cnt[s] + Len(rs) <= RowsPerSlab,
         Place(cnt, s, rs), todo' \in Seq(Row)
  PROVE  TypeOK'
<1> DEFINE at(j) == <<s, cnt[s] + j - 1>>
<1>0. cnt[s] \in Nat /\ Len(rs) \in Nat /\ Len(cnt) \in Nat
  BY SizeAssumption
<1>1. \A j \in 1..Len(rs) : at(j) \in Slot /\ rs[j] \in Row
  BY FreshType, <1>0
<1>2. cells' \in [Slot -> Row]
  BY FilledType DEF Place, TypeOK
<1>3. count' \in Seq(0..RowsPerSlab) /\ Len(count') = Len(cnt)
  BY <1>0, SizeAssumption DEF Place
<1>4. live' \in SUBSET Slot /\ \A i \in live' : i[1] <= Len(count')
  <2>1. live \in SUBSET Slot /\ \A i \in live : i[1] <= Len(cnt)
    BY <1>0, GrownType, LenType DEF TypeOK
  <2>2. live' = live \cup Fresh(cnt, s, Len(rs)) /\ \A i \in Fresh(cnt, s, Len(rs)) : i \in Slot /\ i[1] = s
    BY DEF Place, Fresh
  <2>. QED BY <1>0, <1>3, <2>1, <2>2
<1>5. total' \in Int
  BY <1>0 DEF Place, TypeOK
<1>6. hash' \in [Val -> SUBSET Slot] /\ indexed' \in BOOLEAN /\ phase' = phase
  BY <1>1 DEF Place, TypeOK
<1>7. uniq' \in [Key -> Slot \cup {NoOwner}]
  <2>. DEFINE here(k) == CHOOSE j \in 1..Len(rs) : rs[j].k = k
  <2>1. ASSUME NEW k \in Key, \E j \in 1..Len(rs) : rs[j].k = k
        PROVE  at(here(k)) \in Slot
    <3>1. here(k) \in 1..Len(rs)
      BY <2>1
    <3>. QED BY <3>1, <1>1
  <2>. QED BY <2>1 DEF Place, TypeOK
<1>8. undo' \in Seq(UndoRecord) /\ \A n \in 1..Len(undo') : undo'[n].idx[1] <= Len(cnt)
  <2>. DEFINE recs == [j \in 1..Len(rs) |-> [op |-> "insert", idx |-> at(j), row |-> rs[j]]]
  <2>1. recs \in Seq(UndoRecord)
    BY <1>0, <1>1 DEF UndoRecord
  <2>2. undo' \in {undo, undo \o recs}
    BY DEF Place
  <2>3. undo \in Seq(UndoRecord)
    BY DEF TypeOK
  <2>4. Len(recs) = Len(rs) /\ \A j \in 1..Len(rs) : recs[j].idx[1] <= Len(cnt)
    BY <1>0
  <2>. HIDE DEF recs
  <2>5. undo \o recs \in Seq(UndoRecord)
    BY <2>1, <2>3
  <2>6. \A n \in 1..Len(undo) : undo[n].idx[1] <= Len(cnt)
    BY <1>0, GrownType, LenType
  <2>7. \A n \in 1..Len(undo \o recs) : (undo \o recs)[n].idx[1] <= Len(cnt)
    BY <2>1, <2>3, <2>4, <2>6, <1>0, ConcatProperties, LenProperties
  <2>. QED BY <2>2, <2>3, <2>5, <2>6, <2>7
<1>9. hist' \in Seq([Slot -> Row \cup {Absent}])
  <2>1. ASSUME NEW j \in 1..Len(rs)
        PROVE  Filled(Table, cnt, s, SubSeq(rs, 1, j)) \in [Slot -> Row \cup {Absent}]
    <3>1. SubSeq(rs, 1, j) \in Seq(Row)
      BY <1>0
    <3>. QED BY <3>1, FilledType, TableType
  <2>. DEFINE tables == [j \in 1..Len(rs) |-> Filled(Table, cnt, s, SubSeq(rs, 1, j))]
  <2>2. tables \in Seq([Slot -> Row \cup {Absent}])
    BY <1>0, <2>1
  <2>3. hist' \in {hist, hist \o tables}
    BY DEF Place
  <2>4. hist \in Seq([Slot -> Row \cup {Absent}])
    BY DEF TypeOK
  <2>. HIDE DEF tables
  <2>5. hist \o tables \in Seq([Slot -> Row \cup {Absent}])
    BY <2>2, <2>4
  <2>. QED BY <2>3, <2>4, <2>5
<1>10. phase' \in {"open", "closed"} => undo' = <<>> /\ hist' = <<>>
  BY DEF Place, InTx, TypeOK
<1>. QED
  BY <1>2, <1>3, <1>4, <1>5, <1>6, <1>7, <1>8, <1>9, <1>10 DEF TypeOK

\* What the helpers of the unique map and the hash index return.
LEMMA MapTypes ==
  ASSUME TypeOK, NEW i \in Slot, NEW old \in Row, NEW new \in Row
  PROVE  /\ Released(i, old) \in [Key -> Slot \cup {NoOwner}]
         /\ UniqueMoved(i, old, new) \in [Key -> Slot \cup {NoOwner}]
         /\ HashAdd(hash, i, new.v) \in [Val -> SUBSET Slot]
         /\ HashDrop(hash, i, old.v) \in [Val -> SUBSET Slot]
         /\ HashMoved(i, old, new) \in [Val -> SUBSET Slot]
BY DEF TypeOK, Released, UniqueMoved, UniqueAllows, HashAdd, HashDrop, HashMoved

\* What rebuilding either map returns.
LEMMA RebuiltTypes ==
  ASSUME NEW at \in [Slot -> Row], NEW vis \in SUBSET Slot
  PROVE  /\ UniqueRebuilt(at, vis) \in [Key -> Slot \cup {NoOwner}]
         /\ HashBuilt(at, vis) \in [Val -> SUBSET Slot]
<1> DEFINE entered == {i \in vis : \A d \in Duplicates(at, vis) : Before(i, d)}
<1>1. ASSUME NEW k \in Key, \E i \in entered : at[i].k = k
      PROVE  (CHOOSE i \in entered : at[i].k = k) \in Slot
  BY <1>1
<1>2. UniqueRebuilt(at, vis) = [k \in Key |-> IF \E i \in entered : at[i].k = k
                     THEN CHOOSE i \in entered : at[i].k = k
                     ELSE NoOwner]
  BY DEF UniqueRebuilt
<1>. HIDE DEF entered
<1>. QED BY <1>1, <1>2 DEF HashBuilt

\* Recording a change for the undo list keeps its type.
LEMMA RecordedType ==
  ASSUME TypeOK, NEW op \in {"insert", "update", "delete"}, NEW i \in live,
         NEW after \in [Slot -> Row \cup {Absent}], Recorded(op, i, after)
  PROVE  /\ undo' \in Seq(UndoRecord) /\ hist' \in Seq([Slot -> Row \cup {Absent}])
         /\ \A n \in 1..Len(undo') : undo'[n].idx[1] <= Len(count)
         /\ phase \in {"open", "closed"} => undo' = <<>> /\ hist' = <<>>
<1>. DEFINE rec == [op |-> op, idx |-> i, row |-> cells[i]]
<1>1. rec \in UndoRecord /\ rec.idx[1] <= Len(count)
  BY DEF TypeOK, UndoRecord
<1>2. undo \in Seq(UndoRecord) /\ hist \in Seq([Slot -> Row \cup {Absent}])
  BY DEF TypeOK
<1>. HIDE DEF rec
<1>3. /\ Append(undo, rec) \in Seq(UndoRecord)
      /\ Len(Append(undo, rec)) = Len(undo) + 1
      /\ \A n \in 1..Len(undo) + 1 : Append(undo, rec)[n] = IF n <= Len(undo) THEN undo[n] ELSE rec
  BY <1>1, <1>2
<1>4. Append(hist, after) \in Seq([Slot -> Row \cup {Absent}])
  BY <1>2
<1>5. \A n \in 1..Len(undo) : undo[n].idx[1] <= Len(count)
  BY DEF TypeOK
<1>6. \A n \in 1..Len(Append(undo, rec)) : Append(undo, rec)[n].idx[1] <= Len(count)
  BY <1>1, <1>3, <1>5, LenType
<1>7. undo' \in {undo, Append(undo, rec)} /\ hist' \in {hist, Append(hist, after)}
  BY DEF Recorded, rec
<1>8. ~InTx => UNCHANGED <<undo, hist>>
  BY DEF Recorded
<1>. QED BY <1>2, <1>3, <1>4, <1>5, <1>6, <1>7, <1>8 DEF TypeOK, InTx

\* The slab that insert chooses exists and has room.
LEMMA ExpandedType ==
  ASSUME TypeOK, Len(Expanded) <= MaxSlabs
  PROVE  /\ Expanded \in Seq(0..RowsPerSlab)
         /\ Len(Expanded) \in Len(count)..MaxSlabs
         /\ Len(Expanded) \in Nat \ {0}
         /\ Expanded[Len(Expanded)] < RowsPerSlab
<1>1. count \in Seq(0..RowsPerSlab) /\ Len(count) \in 1..MaxSlabs
  BY DEF TypeOK
<1>2. CASE LastFull
  <2>1. Expanded = Append(count, 0)
    BY <1>2 DEF Expanded
  <2>. QED BY <1>1, <2>1, SizeAssumption
<1>3. CASE ~LastFull
  <2>1. Expanded = count /\ count[Len(count)] < RowsPerSlab
    BY <1>1, <1>3, SizeAssumption DEF Expanded, LastFull
  <2>. QED BY <1>1, <2>1, SizeAssumption
<1>. QED BY <1>2, <1>3

\* insert keeps the types.
LEMMA InsertType == ASSUME TypeOK, NEW r \in Given, Insert(r) PROVE TypeOK'
<1>1. <<r>> \in Seq(Row) /\ Len(<<r>>) = 1
  BY RowAssumption
<1>2. todo' \in Seq(Row)
  BY DEF Insert, TypeOK
<1>3. Len(Expanded) <= MaxSlabs /\ Place(Expanded, Len(Expanded), <<r>>)
  BY DEF Insert
<1>4. /\ Expanded \in Seq(0..RowsPerSlab)
      /\ Len(Expanded) \in Len(count)..MaxSlabs
      /\ Len(Expanded) \in 1..Len(Expanded)
  BY <1>3, ExpandedType
<1>5. Expanded[Len(Expanded)] + Len(<<r>>) <= RowsPerSlab
  BY <1>1, <1>3, <1>4, ExpandedType, SizeAssumption
<1>. QED BY <1>1, <1>2, <1>3, <1>4, <1>5, PlaceType

\* insert keeps the types even when the row cannot be encoded.
LEMMA InsertFailsType == ASSUME TypeOK, NEW r \in Given, InsertFails(r) PROVE TypeOK'
<1>1. Len(Expanded) <= MaxSlabs
  BY DEF InsertFails
<1>2. /\ live' = live \cup Fresh(Expanded, Len(Expanded), 1)
      /\ count' = [Expanded EXCEPT ![Len(Expanded)] = @ + 1]
  BY DEF InsertFails
<1>3. count' \in Seq(0..RowsPerSlab) /\ Len(count') = Len(Expanded)
  BY <1>1, <1>2, ExpandedType, SizeAssumption
<1>4. live' = live \cup Fresh(Expanded, Len(Expanded), 1) /\ Len(Expanded) >= Len(count)
  BY <1>1, <1>2, ExpandedType, LenType
<1>5. \A i \in Fresh(Expanded, Len(Expanded), 1) : i \in Slot /\ i[1] <= Len(Expanded)
  BY <1>1, ExpandedType DEF Fresh
<1>. QED BY <1>1, <1>3, <1>4, <1>5, ExpandedType, GrownType DEF InsertFails, TypeOK, maps, tx

\* batch_insert adds a whole number of slabs.
LEMMA GrowthType == ASSUME TypeOK, NEW n \in Nat PROVE Growth(n) \in Nat
<1>1. {i \in Slot : i[1] <= Len(count) /\ i[2] >= count[i[1]]} \in SUBSET Slot
  OBVIOUS
<1>2. FreeSlots \in Nat
  BY <1>1, SlotFinite, FS_Subset, FS_CardinalityType DEF FreeSlots
<1>3. n > FreeSlots => n - FreeSlots + RowsPerSlab - 1 \in Nat
  BY <1>2, SizeAssumption
<1>. QED BY <1>2, <1>3, DivMod, SizeAssumption DEF Growth

\* The growth before a batch keeps the types.
LEMMA BatchStartType ==
  ASSUME TypeOK, NEW n \in 1..MaxBatch, NEW rs \in [1..n -> Given], BatchStart(rs)
  PROVE  TypeOK'
<1>1. n \in Nat /\ rs \in Seq(Row) /\ Len(rs) = n
  BY SizeAssumption, RowAssumption
<1>. DEFINE new == [j \in 1..Growth(Len(rs)) |-> 0]
<1>2. Growth(Len(rs)) \in Nat
  BY <1>1, GrowthType
<1>3. new \in Seq(0..RowsPerSlab) /\ Len(new) = Growth(Len(rs))
  BY <1>2, SizeAssumption
<1>4. count' = count \o new /\ Len(count) + Growth(Len(rs)) <= MaxSlabs
  BY DEF BatchStart
<1>. HIDE DEF new
<1>5. count \in Seq(0..RowsPerSlab)
  BY DEF TypeOK
<1>6. count' \in Seq(0..RowsPerSlab) /\ Len(count') = Len(count) + Growth(Len(rs))
  BY <1>3, <1>4, <1>5, ConcatProperties
<1>7. Len(count') >= Len(count)
  BY <1>2, <1>6, LenType
<1>8. todo' = rs /\ UNCHANGED <<cells, live, total, uniq, indexed, hash, phase, undo, hist>>
  BY DEF BatchStart, maps, tx
<1>9. Len(count') \in 1..MaxSlabs
  BY <1>2, <1>4, <1>6, LenType, SizeAssumption
<1>. QED BY <1>1, <1>6, <1>7, <1>8, <1>9, GrownType DEF TypeOK

\* A chunk of a batch fits the slab that it goes to.
LEMMA BatchChunkType ==
  ASSUME TypeOK, NEW s \in 1..Len(count), BatchChunk(s) PROVE TypeOK'
<1>1. ChunkLen(s) \in 0..Len(todo) /\ count[s] + ChunkLen(s) <= RowsPerSlab
  BY SizeAssumption, SMTT(60) DEF TypeOK, BatchChunk, HasSpace, FreeIn, ChunkLen
<1>2. SubSeq(todo, 1, ChunkLen(s)) \in Seq(Row) /\ Len(SubSeq(todo, 1, ChunkLen(s))) = ChunkLen(s)
  BY <1>1 DEF TypeOK
<1>3. todo' \in Seq(Row)
  BY <1>1 DEF TypeOK, BatchChunk
<1>4. count \in Seq(0..RowsPerSlab) /\ Len(count) \in Len(count)..MaxSlabs
  BY SizeAssumption DEF TypeOK
<1>. QED BY <1>1, <1>2, <1>3, <1>4, PlaceType DEF BatchChunk

\* A chunk that cannot be encoded sets liveness bytes inside its slab.
LEMMA BatchFailsType ==
  ASSUME TypeOK, NEW s \in 1..Len(count), BatchFails(s) PROVE TypeOK'
<1>0. count[s] \in 0..RowsPerSlab /\ Len(todo) \in Nat
  <2>1. count \in Seq(0..RowsPerSlab) /\ todo \in Seq(Row)
    BY DEF TypeOK
  <2>. QED BY <2>1, ElementOfSeq, LenProperties
<1>1. \A j \in 1..ChunkLen(s) : count[s] + j - 1 \in 0..RowsPerSlab - 1
  BY <1>0, SizeAssumption DEF ChunkLen, FreeIn
<1>2. live' \in SUBSET Slot /\ \A i \in live' : i[1] <= Len(count)
  BY <1>1, SizeAssumption, SMTT(60) DEF TypeOK, BatchFails, Slot
<1>. QED BY <1>2 DEF BatchFails, TypeOK, maps, tx

\* A scan yields live slots.
LEMMA VisibleType == TypeOK => Visible \in SUBSET live /\ Visible \in SUBSET Slot
BY DEF TypeOK, Visible, VisibleIn

\* A patched row is a row.
LEMMA MergedType == ASSUME TypeOK, NEW i \in Slot PROVE Merged(cells[i]) \in SUBSET Row
BY DEF Merged

\* update keeps the types.
LEMMA UpdateType ==
  ASSUME TypeOK, NEW i \in Slot, NEW m \in Row, Update(i, m) PROVE TypeOK'
<1>1. cells[i] \in Row /\ Stored[m] \in Row
  BY RowAssumption DEF TypeOK
<1>2. uniq' \in [Key -> Slot \cup {NoOwner}] /\ hash' \in [Val -> SUBSET Slot]
  BY <1>1, MapTypes DEF Update
<1>3. cells' \in [Slot -> Row]
  BY <1>1 DEF Update, TypeOK
<1>4. [Table EXCEPT ![i] = Stored[m]] \in [Slot -> Row \cup {Absent}]
  BY <1>1, TableType
<1>5. i \in live /\ Recorded("update", i, [Table EXCEPT ![i] = Stored[m]])
  BY DEF Update
<1>6. UNCHANGED <<live, count, total, indexed, phase, todo>>
  BY DEF Update
<1>. QED BY <1>2, <1>3, <1>4, <1>5, <1>6, RecordedType DEF TypeOK

\* update keeps the types when it raises after moving the unique map.
LEMMA UpdateFailsType ==
  ASSUME TypeOK, NEW i \in Slot, NEW m \in Row, UpdateFails(i, m) PROVE TypeOK'
<1>1. uniq' \in [Key -> Slot \cup {NoOwner}]
  BY MapTypes DEF UpdateFails, TypeOK
<1>. QED BY <1>1 DEF UpdateFails, TypeOK, store

\* delete keeps the types.
LEMMA DeleteType ==
  ASSUME TypeOK, NEW i \in Slot, Delete(i) PROVE TypeOK'
<1>1. cells[i] \in Row
  BY DEF TypeOK
<1>2. uniq' \in [Key -> Slot \cup {NoOwner}] /\ hash' \in [Val -> SUBSET Slot]
  BY <1>1, MapTypes DEF Delete
<1>3. [Table EXCEPT ![i] = Absent] \in [Slot -> Row \cup {Absent}]
  BY TableType
<1>4. i \in live /\ Recorded("delete", i, [Table EXCEPT ![i] = Absent])
  BY DEF Delete
<1>5. live' \in SUBSET live /\ total' \in Int /\ UNCHANGED <<cells, count, indexed, phase, todo>>
  BY DEF Delete, TypeOK
<1>. QED BY <1>2, <1>3, <1>4, <1>5, RecordedType DEF TypeOK

\* create_index and drop_index keep the types.
LEMMA IndexingType == ASSUME TypeOK, CreateIndex \/ DropIndex PROVE TypeOK'
<1>1. HashBuilt(cells, Visible) \in [Val -> SUBSET Slot]
  BY VisibleType, RebuiltTypes DEF TypeOK
<1>. QED BY <1>1 DEF CreateIndex, DropIndex, NoEntries, TypeOK, store

\* So do begin, commit, abort and close.
LEMMA PhaseType == ASSUME TypeOK, Begin \/ Commit \/ Abort \/ Close PROVE TypeOK'
<1>1. <<Table>> \in Seq([Slot -> Row \cup {Absent}])
  BY TableType
<1>2. UNCHANGED <<cells, live, count, total, uniq, indexed, hash, todo>>
  BY DEF Begin, Commit, EndTx, Abort, Close, store, maps
<1>3. CASE Begin \/ Commit
  <2>1. undo' = <<>> /\ hist' \in {<<>>, <<Table>>} /\ phase' \in {"open", "tx"}
    BY <1>3 DEF Begin, Commit, EndTx
  <2>2. phase' = "open" => hist' = <<>>
    BY <1>3 DEF Begin, Commit, EndTx
  <2>3. undo' \in Seq(UndoRecord) /\ \A n \in 1..Len(undo') : undo'[n].idx[1] <= Len(count')
    BY <2>1
  <2>4. hist' \in Seq([Slot -> Row \cup {Absent}])
    BY <1>1, <2>1, EmptySeq
  <2>. QED BY <1>2, <2>1, <2>2, <2>3, <2>4 DEF TypeOK
<1>4. CASE Abort \/ Close
  <2>1. phase' \in {"abort", "closing"} /\ UNCHANGED <<undo, hist>>
    BY <1>4 DEF Abort, Close
  <2>. QED BY <1>2, <2>1 DEF TypeOK
<1>. QED BY <1>3, <1>4

\* The undo record applied next names a slot of a slab the file has.
LEMMA LatestType ==
  ASSUME TypeOK, undo # <<>>
  PROVE  Latest.idx \in Slot /\ Latest.row \in Row /\ Latest.idx[1] <= Len(count)
<1>1. undo \in Seq(UndoRecord) /\ Len(undo) \in 1..Len(undo)
  BY DEF TypeOK
<1>2. Latest \in UndoRecord
  BY <1>1, ElementOfSeq DEF Latest
<1>. QED BY <1>1, <1>2 DEF UndoRecord, Latest, TypeOK

\* Taking the latest undo record off keeps the types.
LEMMA ShortenedType ==
  ASSUME TypeOK, undo # <<>>, Shortened
  PROVE  /\ undo' \in Seq(UndoRecord) /\ hist' \in Seq([Slot -> Row \cup {Absent}])
         /\ \A n \in 1..Len(undo') : undo'[n].idx[1] <= Len(count)
<1>1. undo \in Seq(UndoRecord) /\ hist \in Seq([Slot -> Row \cup {Absent}])
  BY DEF TypeOK
<1>2. \A n \in 1..Len(undo) - 1 : undo[n] \in UndoRecord
  BY <1>1
<1>3. \A n \in 1..Len(hist) - 1 : hist[n] \in [Slot -> Row \cup {Absent}]
  BY <1>1
<1>4. Len(undo) - 1 \in Int /\ Len(hist) - 1 \in Int
  BY <1>1
<1>5. SubSeq(undo, 1, Len(undo) - 1) \in Seq(UndoRecord)
  BY <1>2, <1>4, SubSeqProperties
<1>6. SubSeq(hist, 1, Len(hist) - 1) \in Seq([Slot -> Row \cup {Absent}])
  BY <1>3, <1>4, SubSeqProperties
<1>7. \A n \in 1..Len(SubSeq(undo, 1, Len(undo) - 1)) :
         n \in 1..Len(undo) /\ SubSeq(undo, 1, Len(undo) - 1)[n] = undo[n]
  BY <1>1
<1>8. \A n \in 1..Len(undo) : undo[n].idx[1] <= Len(count)
  BY DEF TypeOK
<1>. QED BY <1>5, <1>6, <1>7, <1>8 DEF Shortened

\* Every step of a rollback keeps the types.
LEMMA RollbackType == ASSUME TypeOK, Rollback PROVE TypeOK'
<1>1. ASSUME undo # <<>>
      PROVE  /\ cells[Latest.idx] \in Row
             /\ Stored[Latest.row] \in Row
             /\ RestoreCell(Latest.idx, Latest.row) => cells' \in [Slot -> Row]
             /\ uniq' = [uniq EXCEPT ![Latest.row.k] = Latest.idx] => uniq' \in [Key -> Slot \cup {NoOwner}]
  BY <1>1, LatestType, RowAssumption DEF TypeOK, RestoreCell
<1>2. CASE UndoInsert
  BY <1>1, <1>2, LatestType, ShortenedType, MapTypes DEF UndoInsert, TypeOK
<1>3. CASE UndoUpdate
  <2>1. uniq' \in [Key -> Slot \cup {NoOwner}] /\ hash' \in [Val -> SUBSET Slot]
    BY <1>1, <1>3, LatestType, MapTypes DEF UndoUpdate
  <2>2. cells' \in [Slot -> Row]
    BY <1>1, <1>3 DEF UndoUpdate
  <2>. QED BY <1>3, <2>1, <2>2, ShortenedType DEF UndoUpdate, TypeOK
<1>4. CASE UndoUpdateFails
  <2>1. uniq' \in [Key -> Slot \cup {NoOwner}] /\ hash' \in [Val -> SUBSET Slot]
    <3>1. UniqueMoved(Latest.idx, cells[Latest.idx], Latest.row) \in [Key -> Slot \cup {NoOwner}]
      BY <1>1, <1>4, LatestType, MapTypes DEF UndoUpdateFails
    <3>2. HashMoved(Latest.idx, cells[Latest.idx], Latest.row) \in [Val -> SUBSET Slot]
      BY <1>1, <1>4, LatestType, MapTypes DEF UndoUpdateFails
    <3>. QED BY <1>4, <3>1, <3>2 DEF UndoUpdateFails, TypeOK
  <2>2. cells' \in [Slot -> Row]
    BY <1>1, <1>4 DEF UndoUpdateFails, TypeOK
  <2>. QED BY <1>4, <2>1, <2>2 DEF UndoUpdateFails, EndTx, TypeOK
<1>5. CASE UndoDelete
  <2>1. uniq' \in [Key -> Slot \cup {NoOwner}] /\ hash' \in [Val -> SUBSET Slot]
    BY <1>1, <1>5, LatestType, MapTypes DEF UndoDelete, TypeOK
  <2>2. cells' \in [Slot -> Row]
    BY <1>1, <1>5 DEF UndoDelete
  <2>3. live' = live \cup {Latest.idx} /\ Latest.idx \in Slot /\ Latest.idx[1] <= Len(count)
    BY <1>5, LatestType DEF UndoDelete
  <2>4. total' \in Int /\ UNCHANGED <<count, indexed, phase, todo>> /\ phase \notin {"open", "closed"}
    BY <1>5 DEF UndoDelete, TypeOK, RollingBack
  <2>5. undo # <<>> /\ Shortened
    BY <1>5 DEF UndoDelete
  <2>. QED BY <2>1, <2>2, <2>3, <2>4, <2>5, ShortenedType DEF TypeOK
<1>6. CASE UndoDone
  <2>1. uniq' \in [Key -> Slot \cup {NoOwner}] /\ hash' \in [Val -> SUBSET Slot] /\ indexed' \in BOOLEAN
    BY <1>6 DEF UndoDone, NoEntries, TypeOK, maps
  <2>2. undo' = <<>> /\ hist' = <<>> /\ phase' \in {"open", "closed"}
    BY <1>6 DEF UndoDone
  <2>3. UNCHANGED <<cells, live, count, total, todo>>
    BY <1>6 DEF UndoDone, store
  <2>. QED BY <2>1, <2>2, <2>3 DEF TypeOK
<1>. QED BY <1>2, <1>3, <1>4, <1>5, <1>6 DEF Rollback

\* The marks that a reopened file starts with.
LEMMA LoadedType ==
  ASSUME TypeOK
  PROVE  Loaded \in Seq(0..RowsPerSlab) /\ Len(Loaded) = Len(count)
BY SizeAssumption DEF TypeOK, Loaded

\* Opening keeps the types.
LEMMA OpenType == ASSUME TypeOK, Open PROVE TypeOK'
<1>1. VisibleIn(Loaded) \in SUBSET Slot /\ live \in SUBSET Slot
  BY DEF TypeOK, VisibleIn
<1>2. uniq' \in [Key -> Slot \cup {NoOwner}]
  BY <1>1, RebuiltTypes DEF Open, TypeOK
<1>3. total' \in Int
  BY <1>1, SlotFinite, FS_Subset, FS_CardinalityType DEF Open
<1>. QED BY <1>2, <1>3, LoadedType DEF Open, TypeOK

-----------------------------------------------------------------------------
(* compact.                                                                *)

\* The number of slots.
LEMMA SlotCount == Cardinality(Slot) = MaxSlabs * RowsPerSlab
<1>1. /\ IsFiniteSet(1..MaxSlabs) /\ Cardinality(1..MaxSlabs) = MaxSlabs
      /\ IsFiniteSet(0..RowsPerSlab - 1) /\ Cardinality(0..RowsPerSlab - 1) = RowsPerSlab
  BY FS_Interval, SizeAssumption, SMTT(60)
<1>. QED BY <1>1, FS_Product, ZenonT(60) DEF Slot

\* A scan yields finitely many rows.
LEMMA VisibleCount ==
  ASSUME TypeOK
  PROVE  /\ IsFiniteSet(Visible)
         /\ Cardinality(Visible) \in 0..MaxSlabs * RowsPerSlab
<1>1. IsFiniteSet(Visible) /\ Cardinality(Visible) <= Cardinality(Slot)
  BY VisibleType, SlotFinite, FS_Subset
<1>2. Cardinality(Visible) \in Nat /\ MaxSlabs * RowsPerSlab \in Nat
  BY <1>1, FS_CardinalityType, SizeAssumption
<1>. QED BY <1>1, <1>2, SlotCount

\* The rank of a row is below the number of rows.
LEMMA RankType ==
  ASSUME TypeOK, NEW i \in Visible
  PROVE  Rank(i) \in Nat /\ Rank(i) < Cardinality(Visible)
<1>. DEFINE below == {j \in Visible : Before(j, i)}
<1>1. i[1] \in Nat /\ i[2] \in Nat
  BY VisibleType, SizeAssumption DEF Slot
<1>2. below \in SUBSET (Visible \ {i})
  BY <1>1 DEF Before
<1>3. IsFiniteSet(Visible \ {i}) /\ Cardinality(Visible \ {i}) = Cardinality(Visible) - 1
  BY VisibleCount, FS_RemoveElement
<1>4. IsFiniteSet(below) /\ Cardinality(below) <= Cardinality(Visible) - 1
  BY <1>2, <1>3, FS_Subset
<1>5. Cardinality(below) \in Nat /\ Cardinality(Visible) \in Nat
  BY <1>4, VisibleCount, FS_CardinalityType
<1>. QED BY <1>4, <1>5 DEF Rank

\* The slabs of n rows hold them, and all but the last are full.
LEMMA SlabsForType ==
  ASSUME NEW n \in 0..MaxSlabs * RowsPerSlab
  PROVE  /\ SlabsFor(n) \in 1..MaxSlabs
         /\ n - (SlabsFor(n) - 1) * RowsPerSlab \in 0..RowsPerSlab
<1>1. CASE n = 0
  BY <1>1, SizeAssumption DEF SlabsFor
<1>2. CASE n # 0
  <2>. DEFINE s == (n + RowsPerSlab - 1) \div RowsPerSlab
  <2>1. s \in Nat \ {0} /\ (s - 1) * RowsPerSlab < n /\ n <= s * RowsPerSlab
    BY <1>2, Ceiling, SizeAssumption
  <2>2. SlabsFor(n) = s
    BY <1>2 DEF SlabsFor
  <2>. HIDE DEF s
  <2>3. ASSUME s > MaxSlabs PROVE FALSE
    <3>1. (s - 1) * RowsPerSlab >= MaxSlabs * RowsPerSlab
      BY <2>1, <2>3, SizeAssumption
    <3>. QED BY <2>1, <3>1, SizeAssumption
  <2>4. (s - 1) * RowsPerSlab = s * RowsPerSlab - RowsPerSlab
    BY <2>1, SizeAssumption
  <2>. QED BY <2>1, <2>2, <2>3, <2>4, SizeAssumption
<1>. QED BY <1>1, <1>2

\* compact puts its rows in slots that the new file has.
LEMMA NthType ==
  ASSUME NEW n \in 0..MaxSlabs * RowsPerSlab, NEW m \in Nat, m < n
  PROVE  Nth(m) \in Slot /\ Nth(m)[1] <= SlabsFor(n)
<1>1. n <= SlabsFor(n) * RowsPerSlab /\ SlabsFor(n) \in 1..MaxSlabs
  BY SlabsForType, Ceiling, SizeAssumption DEF SlabsFor
<1>2. m \div RowsPerSlab \in Nat /\ m % RowsPerSlab \in 0..RowsPerSlab - 1
  BY DivMod, SizeAssumption
<1>3. m < SlabsFor(n) * RowsPerSlab
  BY <1>1, SizeAssumption
<1>4. m \div RowsPerSlab < SlabsFor(n)
  BY <1>1, <1>3, DivBelow, SizeAssumption
<1>. QED BY <1>1, <1>2, <1>4, SizeAssumption DEF Nth, Slot

\* compact keeps the types.
LEMMA CompactType == ASSUME TypeOK, Compact PROVE TypeOK'
<1>. DEFINE n == Cardinality(Visible)
            moved == [i \in Visible |-> Nth(Rank(i))]
            from(s) == CHOOSE i \in Visible : moved[i] = s
            kept == {moved[i] : i \in Visible}
            cells1 == [s \in Slot |-> IF s \in kept THEN cells[from(s)] ELSE ZeroRow]
<1>1. n \in 0..MaxSlabs * RowsPerSlab
  BY VisibleCount
<1>2. \A i \in Visible : moved[i] \in Slot /\ moved[i][1] <= SlabsFor(n)
  BY <1>1, RankType, NthType
<1>3. cells1 \in [Slot -> Row]
  <2>1. ASSUME NEW s \in kept PROVE cells[from(s)] \in Row
    <3>1. from(s) \in Visible
      BY <2>1
    <3>. QED BY <3>1, VisibleType DEF TypeOK
  <2>. QED BY <2>1, RowAssumption
<1>4. kept \in SUBSET Slot /\ \A i \in kept : i[1] <= SlabsFor(n)
  BY <1>2
<1>5. count' \in Seq(0..RowsPerSlab) /\ Len(count') = SlabsFor(n) /\ SlabsFor(n) \in 1..MaxSlabs
  <2>1. count' = [s \in 1..SlabsFor(n) |->
                   IF s < SlabsFor(n) THEN RowsPerSlab ELSE n - (s - 1) * RowsPerSlab]
    BY DEF Compact
  <2>2. SlabsFor(n) \in 1..MaxSlabs /\ n - (SlabsFor(n) - 1) * RowsPerSlab \in 0..RowsPerSlab
    BY <1>1, SlabsForType
  <2>. QED BY <2>1, <2>2, SizeAssumption
<1>6. /\ cells' = cells1 /\ live' = kept /\ total' = n
      /\ hash' = IF indexed THEN HashBuilt(cells1, kept) ELSE hash
      /\ uniq' = UniqueRebuilt(cells1, kept)
      /\ UNCHANGED <<indexed, phase, todo, undo, hist>> /\ phase = "open"
  BY DEF Compact
<1>. HIDE DEF n, moved, from, kept, cells1
<1>7. uniq' \in [Key -> Slot \cup {NoOwner}] /\ hash' \in [Val -> SUBSET Slot]
  BY <1>3, <1>4, <1>6, RebuiltTypes DEF TypeOK
<1>8. undo' = <<>> /\ hist' = <<>>
  BY <1>6 DEF TypeOK
<1>. QED BY <1>1, <1>3, <1>4, <1>5, <1>6, <1>7, <1>8 DEF TypeOK

\* fsck keeps the types.
LEMMA FsckType == ASSUME TypeOK, Fsck PROVE TypeOK'
<1>1. uniq' \in [Key -> Slot \cup {NoOwner}]
  BY VisibleType, RebuiltTypes DEF Fsck, TypeOK
<1>. QED BY <1>1 DEF Fsck, TypeOK, store

-----------------------------------------------------------------------------
(* The theorem.                                                            *)

\* A new file has the types.
LEMMA InitType == ASSUME Init PROVE TypeOK
<1>1. count \in Seq(0..RowsPerSlab) /\ Len(count) = 1
  BY SizeAssumption DEF Init
<1>2. cells \in [Slot -> Row] /\ uniq \in [Key -> Slot \cup {NoOwner}] /\ hash \in [Val -> SUBSET Slot]
  BY RowAssumption DEF Init, NoEntries
<1>3. /\ todo = <<>> /\ undo = <<>> /\ hist = <<>> /\ live = {} /\ total = 0 /\ phase = "open"
      /\ indexed \in BOOLEAN
  BY Zenon DEF Init
<1>4. todo \in Seq(Row) /\ undo \in Seq(UndoRecord) /\ hist \in Seq([Slot -> Row \cup {Absent}])
  BY <1>3, EmptySeq
<1>5. \A n \in 1..Len(undo) : undo[n].idx[1] <= Len(count)
  BY <1>3
<1>. QED BY <1>1, <1>2, <1>3, <1>4, <1>5, SizeAssumption DEF TypeOK

\* Every write keeps the types.
LEMMA WriteType == ASSUME TypeOK, Write PROVE TypeOK'
<1>1. \A i \in Visible : i \in Slot /\ Merged(cells[i]) \in SUBSET Row
  BY VisibleType, MergedType
<1>2. \A r \in Given : r \in Row
  BY RowAssumption
<1>. QED BY <1>1, <1>2, InsertType, InsertFailsType, BatchStartType, BatchChunkType, BatchFailsType,
            UpdateType, UpdateFailsType, DeleteType DEF Write

\* Every step keeps the types.
LEMMA TypeStep == ASSUME TypeOK, [Next]_vars PROVE TypeOK'
<1>1. CASE Next
  BY <1>1, WriteType, IndexingType, PhaseType, RollbackType, OpenType, CompactType, FsckType
  DEF Next
<1>2. CASE UNCHANGED vars
  <2>1. UNCHANGED <<cells, live, count, total, uniq, indexed, hash, phase, todo, undo, hist>>
    BY <1>2 DEF vars, store, maps
  <2>. QED BY <2>1 DEF TypeOK
<1>. QED BY <1>1, <1>2

\* RowStore's type invariant, for every number of slabs and rows, every set of
\* keys and values and every encoding: the undo list never names a slab that
\* the file does not have.
THEOREM TypeCorrect == Spec => []TypeOK
<1>1. Init => TypeOK
  BY InitType
<1>2. TypeOK /\ [Next]_vars => TypeOK'
  BY TypeStep
<1>. QED BY <1>1, <1>2, PTL DEF Spec

-----------------------------------------------------------------------------
(* The maps in terms of the table.                                         *)

TableUnique(t, u) == \A k \in Key, i \in Slot : u[k] = i <=> t[i] # Absent /\ t[i].k = k
TableIndex(t, h) == \A v \in Val, i \in Slot : i \in h[v] <=> t[i] # Absent /\ t[i].v = v

\* A row is present, and has a key and a value.
LEMMA RowFields == \A r \in Row : r # Absent /\ r.k \in Key /\ r.v \in Val
BY MarkAssumption DEF Row

\* What get() returns for a live slot and for another.
LEMMA TableAt ==
  ASSUME TypeOK, NEW i \in Slot
  PROVE  /\ i \in live => Table[i] = cells[i] /\ Table[i] \in Row /\ Table[i] # Absent
         /\ i \notin live => Table[i] = Absent
BY MarkAssumption DEF TypeOK, Table

\* A scan misses no live row exactly if every row lies below the marks.
LEMMA VisibleLive ==
  ASSUME TypeOK
  PROVE  Marked(count, Table) <=> Visible = live
<1>1. live \in SUBSET Slot
  BY DEF TypeOK
<1>2. Marked(count, Table) <=> \A i \in live : InSlabs(count, i)
  BY <1>1, TableAt DEF Marked
<1>. QED BY <1>2 DEF Visible, VisibleIn

\* The two properties of the maps, said of the table instead of the slots.
LEMMA MapsOfTable ==
  ASSUME TypeOK, Marked(count, Table)
  PROVE  /\ UniqueExact <=> (phase # "closed" => TableUnique(Table, uniq))
         /\ IndexExact <=> (indexed => TableIndex(Table, hash))
<1>1. Visible = live
  BY VisibleLive
<1>2. \A i \in Slot : i \in live <=> Table[i] # Absent
  BY TableAt
<1>3. \A i \in Slot : Table[i] # Absent => Table[i] = cells[i]
  BY TableAt
<1>4. UniqueExact <=> (phase # "closed" => TableUnique(Table, uniq))
  BY <1>1, <1>2, <1>3 DEF UniqueExact, TableUnique
<1>5. IndexExact <=> (indexed => TableIndex(Table, hash))
  <2>1. \A v \in Val : hash[v] \in SUBSET Slot /\ {i \in Visible : cells[i].v = v} \in SUBSET Slot
    BY <1>1 DEF TypeOK
  <2>2. ASSUME NEW v \in Val
        PROVE  hash[v] = {i \in Visible : cells[i].v = v} <=>
               \A i \in Slot : i \in hash[v] <=> Table[i] # Absent /\ Table[i].v = v
    BY <1>1, <1>2, <1>3, <2>1
  <2>. QED BY <2>2 DEF IndexExact, TableIndex
<1>. QED BY <1>4, <1>5

\* A table with an exact unique map has no key twice.
LEMMA UniqueDistinct ==
  ASSUME NEW t \in [Slot -> Row \cup {Absent}], NEW u, TableUnique(t, u)
  PROVE  KeysDistinct(t)
BY RowFields DEF TableUnique, KeysDistinct

\* A row replaces another: update, and the undo of an update.
LEMMA MovedExact ==
  ASSUME TypeOK, NEW t \in [Slot -> Row \cup {Absent}], TableUnique(t, uniq),
         NEW i \in Slot, NEW old \in Row, NEW new \in Row, t[i] = old, UniqueAllows(i, old, new)
  PROVE  TableUnique([t EXCEPT ![i] = new], UniqueMoved(i, old, new))
<1>. DEFINE t1 == [t EXCEPT ![i] = new]
<1>1. uniq[old.k] = i /\ old.k \in Key /\ new.k \in Key /\ new # Absent
  BY RowFields DEF TableUnique
<1>2. Released(i, old) = [uniq EXCEPT ![old.k] = NoOwner]
  BY <1>1 DEF Released
<1>3. uniq \in [Key -> Slot \cup {NoOwner}]
  BY DEF TypeOK
<1>4. UniqueMoved(i, old, new) = [Released(i, old) EXCEPT ![new.k] = i]
  BY DEF UniqueMoved
<1>5. new.k # old.k => uniq[new.k] \in {NoOwner, i}
  BY <1>1, <1>2, <1>3 DEF UniqueAllows
<1>6. ASSUME NEW k \in Key, NEW j \in Slot
      PROVE  UniqueMoved(i, old, new)[k] = j <=> t1[j] # Absent /\ t1[j].k = k
  <2>1. uniq[k] = j <=> t[j] # Absent /\ t[j].k = k
    BY DEF TableUnique
  <2>2. t1[j] = IF j = i THEN new ELSE t[j]
    OBVIOUS
  <2>3. UniqueMoved(i, old, new)[k] = IF k = new.k THEN i ELSE IF k = old.k THEN NoOwner ELSE uniq[k]
    BY <1>1, <1>2, <1>3, <1>4
  <2>4. j # NoOwner
    BY MarkAssumption
  <2>5. CASE k = new.k
    BY <1>1, <1>5, <2>1, <2>2, <2>3, <2>4, <2>5
  <2>6. CASE k # new.k
    BY <1>1, <2>1, <2>2, <2>3, <2>4, <2>6
  <2>. QED BY <2>5, <2>6
<1>. QED BY <1>6 DEF TableUnique

\* A row goes: delete, and the undo of an insert.
LEMMA ReleasedExact ==
  ASSUME TypeOK, NEW t \in [Slot -> Row \cup {Absent}], TableUnique(t, uniq),
         NEW i \in Slot, NEW old \in Row, t[i] = old
  PROVE  TableUnique([t EXCEPT ![i] = Absent], Released(i, old))
<1>1. uniq[old.k] = i /\ old.k \in Key
  BY RowFields DEF TableUnique
<1>2. Released(i, old) = [uniq EXCEPT ![old.k] = NoOwner] /\ uniq \in [Key -> Slot \cup {NoOwner}]
  BY <1>1 DEF Released, TypeOK
<1>. QED BY <1>1, <1>2, MarkAssumption DEF TableUnique

\* A row comes back: the undo of a delete.
LEMMA RestoredExact ==
  ASSUME TypeOK, NEW t \in [Slot -> Row \cup {Absent}], TableUnique(t, uniq),
         NEW i \in Slot, NEW r \in Row, t[i] = Absent, KeysDistinct([t EXCEPT ![i] = r])
  PROVE  TableUnique([t EXCEPT ![i] = r], [uniq EXCEPT ![r.k] = i])
<1>. DEFINE t1 == [t EXCEPT ![i] = r]
<1>1. r.k \in Key /\ r # Absent /\ uniq \in [Key -> Slot \cup {NoOwner}]
  BY RowFields DEF TypeOK
<1>2. ASSUME NEW j \in Slot, t[j] # Absent, t[j].k = r.k PROVE FALSE
  BY <1>1, <1>2 DEF KeysDistinct
<1>. QED BY <1>1, <1>2 DEF TableUnique

\* update moves the row in the hash index.
LEMMA IndexMoved ==
  ASSUME TypeOK, indexed, NEW t \in [Slot -> Row \cup {Absent}], TableIndex(t, hash),
         NEW i \in Slot, NEW old \in Row, NEW new \in Row, t[i] = old
  PROVE  TableIndex([t EXCEPT ![i] = new], HashMoved(i, old, new))
<1>1. old.v \in Val /\ new.v \in Val /\ old # Absent /\ new # Absent
  BY RowFields
<1>2. hash \in [Val -> SUBSET Slot]
  BY DEF TypeOK
<1>. QED BY <1>1, <1>2 DEF TableIndex, HashMoved, HashAdd, HashDrop

\* delete takes the row out of the hash index.
LEMMA IndexDropped ==
  ASSUME TypeOK, indexed, NEW t \in [Slot -> Row \cup {Absent}], TableIndex(t, hash),
         NEW i \in Slot, NEW old \in Row, t[i] = old
  PROVE  TableIndex([t EXCEPT ![i] = Absent], HashDrop(hash, i, old.v))
<1>1. old.v \in Val /\ old # Absent
  BY RowFields
<1>2. hash \in [Val -> SUBSET Slot]
  BY DEF TypeOK
<1>. QED BY <1>1, <1>2 DEF TableIndex, HashDrop

\* Undoing a delete puts the row into the hash index again.
LEMMA IndexAdded ==
  ASSUME TypeOK, indexed, NEW t \in [Slot -> Row \cup {Absent}], TableIndex(t, hash),
         NEW i \in Slot, NEW new \in Row, t[i] = Absent
  PROVE  TableIndex([t EXCEPT ![i] = new], HashAdd(hash, i, new.v))
<1>1. new.v \in Val /\ new # Absent
  BY RowFields
<1>2. hash \in [Val -> SUBSET Slot]
  BY DEF TypeOK
<1>. QED BY <1>1, <1>2 DEF TableIndex, HashAdd

\* A scan that meets no key twice rebuilds the whole map.
LEMMA RebuiltExact ==
  ASSUME NEW at \in [Slot -> Row], NEW vis \in SUBSET Slot,
         \A i, j \in vis : at[i].k = at[j].k => i = j
  PROVE  /\ Duplicates(at, vis) = {}
         /\ \A k \in Key, i \in Slot : UniqueRebuilt(at, vis)[k] = i <=> i \in vis /\ at[i].k = k
<1>1. \A i \in Slot : ~Before(i, i)
  BY SizeAssumption DEF Before, Slot
<1>2. Duplicates(at, vis) = {}
  BY <1>1 DEF Duplicates
<1>3. UniqueRebuilt(at, vis) = [k \in Key |-> IF \E i \in vis : at[i].k = k
                                              THEN CHOOSE i \in vis : at[i].k = k
                                              ELSE NoOwner]
  <2>1. {i \in vis : \A d \in Duplicates(at, vis) : Before(i, d)} = vis
    BY <1>2
  <2>. QED BY <2>1 DEF UniqueRebuilt
<1>4. ASSUME NEW k \in Key, NEW i \in Slot
      PROVE  UniqueRebuilt(at, vis)[k] = i <=> i \in vis /\ at[i].k = k
  <2>1. CASE \E j \in vis : at[j].k = k
    <3>1. PICK j \in vis : at[j].k = k
      BY <2>1
    <3>2. UniqueRebuilt(at, vis)[k] = j
      BY <1>3, <3>1
    <3>. QED BY <3>1, <3>2
  <2>2. CASE ~ \E j \in vis : at[j].k = k
    BY <1>3, <2>2, MarkAssumption
  <2>. QED BY <2>1, <2>2
<1>. QED BY <1>2, <1>4

-----------------------------------------------------------------------------
(* The chain of undo records.                                              *)

Tables == [Slot -> Row \cup {Absent}]

\* The elements of two joined sequences.
LEMMA Joined ==
  ASSUME NEW S, NEW a \in Seq(S), NEW b \in Seq(S)
  PROVE  /\ Len(a \o b) = Len(a) + Len(b)
         /\ \A n \in 1..Len(a) + Len(b) : (a \o b)[n] = IF n <= Len(a) THEN a[n] ELSE b[n - Len(a)]
BY ConcatProperties

\* The elements of a prefix.
LEMMA Cut ==
  ASSUME NEW S, NEW a \in Seq(S), NEW n \in 0..Len(a)
  PROVE  Len(SubSeq(a, 1, n)) = n /\ \A m \in 1..n : SubSeq(a, 1, n)[m] = a[m]
OBVIOUS

\* The latest undo record is the difference of the last two tables.
LEMMA ChainEnd ==
  ASSUME TypeOK, Chained, undo # <<>>
  PROVE  /\ hist # <<>> /\ Len(undo) \in Nat \ {0} /\ Len(hist) = Len(undo) + 1
         /\ hist[Len(undo)] \in Tables
         /\ KeysDistinct(hist[Len(undo)]) /\ Marked(count, hist[Len(undo)])
         /\ Did(Latest, hist[Len(undo)], Table)
         /\ Latest.idx \in Slot /\ Latest.row \in Row /\ Latest.op \in {"insert", "update", "delete"}
<1>1. undo \in Seq(UndoRecord) /\ hist \in Seq(Tables)
  BY DEF TypeOK, Tables
<1>2. hist # <<>> /\ Len(undo) \in Nat \ {0} /\ Len(hist) = Len(undo) + 1 /\ hist[Len(hist)] = Table
  BY <1>1, EmptySeq DEF Chained
<1>3. Len(undo) \in 1..Len(undo) /\ Len(undo) \in 1..Len(hist)
  BY <1>2
<1>4. Latest \in UndoRecord /\ hist[Len(undo)] \in Tables
  BY <1>1, <1>3, ElementOfSeq DEF Latest
<1>5. Did(undo[Len(undo)], hist[Len(undo)], hist[Len(undo) + 1])
  BY <1>3 DEF Chained
<1>. QED BY <1>2, <1>3, <1>4, <1>5 DEF Chained, Latest, UndoRecord

\* The undo record of a change leads back to the table before it.
LEMMA DidInverse ==
  ASSUME NEW e \in UndoRecord, NEW before \in Tables, NEW after \in Tables, Did(e, before, after)
  PROVE  before = [after EXCEPT ![e.idx] = IF e.op = "insert" THEN Absent ELSE e.row]
BY DEF Did, Tables, UndoRecord

\* Nothing recorded: the chain ends in the same table, which may lie in a
\* longer file.
LEMMA ChainKept ==
  ASSUME TypeOK, Chained, UNCHANGED <<undo, hist>>,
         \A i \in Slot : InSlabs(count, i) => InSlabs(count', i),
         hist # <<>> => Table' = Table,
         hist = <<>> => phase' \in {"open", "closed", "closing"}
  PROVE  Chained'
BY DEF Chained, Marked, TypeOK, Did, KeysDistinct

\* Undoing the latest record leaves the chain of the others.
LEMMA ChainCut ==
  ASSUME TypeOK, Chained, undo # <<>>, Shortened, Table' = hist[Len(undo)], count' = count
  PROVE  Chained'
<1>1. undo \in Seq(UndoRecord) /\ hist \in Seq(Tables)
  BY DEF TypeOK, Tables
<1>2. hist # <<>> /\ Len(undo) \in Nat \ {0} /\ Len(hist) = Len(undo) + 1
  BY ChainEnd
<1>3. /\ undo' = SubSeq(undo, 1, Len(undo) - 1)
      /\ hist' = SubSeq(hist, 1, Len(undo))
  BY <1>2 DEF Shortened
<1>4. /\ Len(undo') = Len(undo) - 1 /\ \A n \in 1..Len(undo') : undo'[n] = undo[n]
      /\ Len(hist') = Len(undo) /\ \A n \in 1..Len(hist') : hist'[n] = hist[n]
  <2>1. Len(undo) - 1 \in 0..Len(undo) /\ Len(undo) \in 0..Len(hist)
    BY <1>2
  <2>2. Len(undo') = Len(undo) - 1 /\ \A n \in 1..Len(undo) - 1 : undo'[n] = undo[n]
    BY <1>1, <1>3, <2>1, Cut
  <2>3. Len(hist') = Len(undo) /\ \A n \in 1..Len(undo) : hist'[n] = hist[n]
    BY <1>1, <1>3, <2>1, Cut
  <2>. QED BY <2>2, <2>3
<1>5. hist' # <<>>
  BY <1>2, <1>4
<1>6. hist'[Len(hist')] = Table'
  BY <1>2, <1>4
<1>7. \A n \in 1..Len(undo') : Did(undo[n], hist[n], hist[n + 1])
  BY <1>2, <1>4 DEF Chained
<1>8. \A n \in 1..Len(undo') : undo'[n] = undo[n] /\ hist'[n] = hist[n] /\ hist'[n + 1] = hist[n + 1]
  BY <1>2, <1>4
<1>9. \A n \in 1..Len(undo') : Did(undo'[n], hist'[n], hist'[n + 1])
  BY <1>7, <1>8
<1>10. \A n \in 1..Len(hist') : KeysDistinct(hist'[n]) /\ Marked(count', hist'[n])
  BY <1>2, <1>4 DEF Chained, Marked, InSlabs
<1>. QED BY <1>2, <1>4, <1>5, <1>6, <1>9, <1>10 DEF Chained

\* Records and tables added at the end, one table after each record.
LEMMA ChainExtended ==
  ASSUME TypeOK, Chained, hist # <<>>,
         NEW recs \in Seq(UndoRecord), NEW tables \in Seq(Tables), Len(recs) = Len(tables),
         undo' = undo \o recs, hist' = hist \o tables,
         \A n \in 1..Len(recs) : /\ Did(recs[n], IF n = 1 THEN Table ELSE tables[n - 1], tables[n])
                                 /\ KeysDistinct(tables[n]) /\ Marked(count', tables[n]),
         \A i \in Slot : InSlabs(count, i) => InSlabs(count', i),
         Table' = IF recs = <<>> THEN Table ELSE tables[Len(tables)]
  PROVE  Chained'
<1>1. undo \in Seq(UndoRecord) /\ hist \in Seq(Tables)
  BY DEF TypeOK, Tables
<1>2. /\ Len(undo) \in Nat /\ Len(recs) \in Nat /\ Len(hist) = Len(undo) + 1
      /\ hist[Len(hist)] = Table
  BY <1>1 DEF Chained
<1>3. /\ Len(undo') = Len(undo) + Len(recs) /\ Len(hist') = Len(undo) + 1 + Len(recs)
      /\ \A n \in 1..Len(undo') : undo'[n] = IF n <= Len(undo) THEN undo[n] ELSE recs[n - Len(undo)]
      /\ \A n \in 1..Len(hist') : hist'[n] = IF n <= Len(hist) THEN hist[n] ELSE tables[n - Len(hist)]
  <2>1. /\ Len(undo') = Len(undo) + Len(recs)
        /\ \A n \in 1..Len(undo) + Len(recs) :
             undo'[n] = IF n <= Len(undo) THEN undo[n] ELSE recs[n - Len(undo)]
    BY <1>1, Joined
  <2>2. /\ Len(hist') = Len(hist) + Len(tables)
        /\ \A n \in 1..Len(hist) + Len(tables) :
             hist'[n] = IF n <= Len(hist) THEN hist[n] ELSE tables[n - Len(hist)]
    BY <1>1, Joined
  <2>. QED BY <1>2, <2>1, <2>2
<1>4. hist'[Len(hist')] = Table'
  <2>1. CASE recs = <<>>
    BY <1>2, <1>3, <2>1
  <2>2. CASE recs # <<>>
    <3>1. Len(recs) \in Nat \ {0}
      BY <2>2, EmptySeq
    <3>. QED BY <1>2, <1>3, <2>2, <3>1
  <2>. QED BY <2>1, <2>2
<1>5. ASSUME NEW n \in 1..Len(undo') PROVE Did(undo'[n], hist'[n], hist'[n + 1])
  <2>1. CASE n <= Len(undo)
    <3>1. undo'[n] = undo[n] /\ hist'[n] = hist[n] /\ hist'[n + 1] = hist[n + 1] /\ n \in 1..Len(undo)
      BY <1>2, <1>3, <2>1, SMTT(60)
    <3>. QED BY <3>1 DEF Chained
  <2>2. CASE n > Len(undo)
    <3>. DEFINE m == n - Len(undo)
    <3>1. m \in 1..Len(recs) /\ undo'[n] = recs[m] /\ hist'[n + 1] = tables[m]
      BY <1>2, <1>3, <2>2
    <3>2. m = 1 => hist'[n] = hist[Len(hist)]
      BY <1>2, <1>3, <2>2
    <3>3. m # 1 => hist'[n] = tables[m - 1]
      <4>1. n \in 1..Len(hist') /\ n \in Nat /\ ~(m # 1 /\ n <= Len(hist)) /\ n - Len(hist) = m - 1
        BY <1>2, <1>3, <2>2
      <4>. QED BY <1>3, <4>1
    <3>. QED BY <1>2, <3>1, <3>2, <3>3
  <2>. QED BY <1>2, <2>1, <2>2
<1>6. ASSUME NEW n \in 1..Len(hist') PROVE KeysDistinct(hist'[n]) /\ Marked(count', hist'[n])
  <2>1. CASE n <= Len(hist)
    <3>1. hist'[n] = hist[n] /\ n \in 1..Len(hist)
      BY <1>2, <1>3, <2>1
    <3>2. KeysDistinct(hist[n]) /\ Marked(count, hist[n])
      BY <3>1 DEF Chained
    <3>. QED BY <3>1, <3>2 DEF Marked
  <2>2. CASE n > Len(hist)
    <3>1. n - Len(hist) \in 1..Len(recs) /\ hist'[n] = tables[n - Len(hist)]
      BY <1>2, <1>3, <2>2
    <3>. QED BY <3>1 DEF Marked
  <2>. QED BY <1>2, <2>1, <2>2
<1>7. hist' # <<>>
  BY <1>2, <1>3
<1>8. Len(hist') = Len(undo') + 1
  BY <1>2, <1>3
<1>. QED BY <1>4, <1>5, <1>6, <1>7, <1>8 DEF Chained

\* update and delete add one record and one table.
LEMMA ChainRecorded ==
  ASSUME TypeOK, Chained, phase \in {"open", "tx"},
         NEW op \in {"update", "delete"}, NEW i \in live, NEW after \in Tables,
         Recorded(op, i, after),
         Did([op |-> op, idx |-> i, row |-> cells[i]], Table, after),
         KeysDistinct(after), Marked(count, after),
         Table' = after, count' = count, phase' = phase
  PROVE  Chained'
<1>. DEFINE rec == [op |-> op, idx |-> i, row |-> cells[i]]
<1>1. CASE InTx
  <2>1. rec \in UndoRecord
    BY DEF TypeOK, UndoRecord
  <2>2. undo \in Seq(UndoRecord) /\ hist \in Seq(Tables) /\ hist # <<>>
    BY <1>1 DEF TypeOK, Tables, Chained, InTx
  <2>3. undo' = Append(undo, rec) /\ hist' = Append(hist, after)
    BY <1>1 DEF Recorded
  <2>. HIDE DEF rec
  <2>4. undo' = undo \o <<rec>> /\ hist' = hist \o <<after>>
    BY <2>1, <2>2, <2>3
  <2>5. <<rec>> \in Seq(UndoRecord) /\ <<after>> \in Seq(Tables) /\ Len(<<rec>>) = 1 /\ Len(<<after>>) = 1
    BY <2>1
  <2>6. \A n \in 1..Len(<<rec>>) :
           /\ Did(<<rec>>[n], IF n = 1 THEN Table ELSE <<after>>[n - 1], <<after>>[n])
           /\ KeysDistinct(<<after>>[n]) /\ Marked(count', <<after>>[n])
    <3>1. Did(rec, Table, after)
      BY DEF rec
    <3>. QED BY <3>1, <2>5
  <2>. QED BY <2>2, <2>4, <2>5, <2>6, ChainExtended
<1>2. CASE ~InTx
  <2>1. UNCHANGED <<undo, hist>> /\ hist = <<>> /\ phase' = "open"
    BY <1>2 DEF Recorded, TypeOK, InTx
  <2>. QED BY <2>1, ChainKept
<1>. QED BY <1>1, <1>2

-----------------------------------------------------------------------------
(* The steps.                                                              *)

\* The invariant in terms of the table.
LEMMA ExactOfTable ==
  ASSUME TypeOK', Marked(count', Table'), BatchValid', Chained',
         phase' # "closed" => TableUnique(Table', uniq'),
         KeysDistinct(Table'),
         indexed' => TableIndex(Table', hash')
  PROVE  Exact'
<1>1. live' \in SUBSET Slot /\ \A v \in Val : hash'[v] \in SUBSET Slot
  BY DEF TypeOK
<1>2. \A i \in Slot : /\ i \in live' => Table'[i] = cells'[i] /\ Table'[i] # Absent
                      /\ i \notin live' => Table'[i] = Absent
  BY MarkAssumption DEF TypeOK, Table
<1>3. Visible' = live'
  BY <1>1, <1>2 DEF Visible, VisibleIn, Marked
<1>4. UniqueExact'
  BY <1>1, <1>2, <1>3 DEF UniqueExact, TableUnique
<1>5. IndexExact'
  <2>1. ASSUME indexed', NEW v \in Val
        PROVE  hash'[v] = {i \in Visible' : cells'[i].v = v}
    <3>1. \A i \in Slot : i \in hash'[v] <=> Table'[i] # Absent /\ Table'[i].v = v
      BY <2>1 DEF TableIndex
    <3>. QED BY <1>1, <1>2, <1>3, <3>1
  <2>. QED BY <2>1 DEF IndexExact
<1>. QED BY <1>4, <1>5 DEF Exact

\* What the invariant says of the table.
LEMMA ExactTable ==
  ASSUME Exact
  PROVE  /\ TypeOK /\ Table \in Tables /\ KeysDistinct(Table) /\ Marked(count, Table)
         /\ BatchValid /\ Chained
         /\ phase # "closed" => TableUnique(Table, uniq)
         /\ indexed => TableIndex(Table, hash)
         /\ Visible = live
BY MapsOfTable, VisibleLive, TableType DEF Exact, Tables

\* Steps that leave the rows and the undo list alone.
LEMMA ExactKept ==
  ASSUME Exact, TypeOK', UNCHANGED <<cells, live, uniq, undo, hist>>,
         \A i \in Slot : InSlabs(count, i) => InSlabs(count', i),
         phase' # "closed" => phase # "closed",
         hist = <<>> => phase' \in {"open", "closed", "closing"},
         BatchValid', indexed' => TableIndex(Table, hash')
  PROVE  Exact'
<1>1. Table' = Table
  BY DEF Table
<1>2. Chained'
  BY <1>1, ExactTable, ChainKept
<1>3. Marked(count', Table')
  BY <1>1, ExactTable DEF Marked
<1>. QED BY <1>1, <1>2, <1>3, ExactTable, ExactOfTable

\* update keeps the invariant.
LEMMA UpdateExact ==
  ASSUME Faultless, Exact, NEW i \in Slot, NEW m \in Row, Update(i, m), TypeOK'
  PROVE  Exact'
<1>. DEFINE old == cells[i]
            t1 == [Table EXCEPT ![i] = m]
<1>1. /\ phase \in {"open", "tx"} /\ todo' = <<>> /\ i \in live /\ UniqueAllows(i, old, m)
      /\ uniq' = UniqueMoved(i, old, m) /\ cells' = [cells EXCEPT ![i] = m]
      /\ hash' = HashMoved(i, old, m) /\ Recorded("update", i, t1)
      /\ UNCHANGED <<live, count, indexed, phase>>
  BY DEF Update, Ready, Faultless
<1>2. old \in Row /\ Table[i] = old /\ old # Absent /\ m # Absent
  BY <1>1, ExactTable, TableAt, RowFields DEF TypeOK
<1>3. Table' = t1
  BY <1>1, ExactTable DEF Table, TypeOK
<1>4. t1 \in Tables
  BY ExactTable DEF Tables
<1>5. TableUnique(t1, uniq')
  BY <1>1, <1>2, ExactTable, MovedExact DEF Tables
<1>6. KeysDistinct(t1)
  BY <1>4, <1>5, UniqueDistinct DEF Tables
<1>7. Marked(count, t1)
  BY <1>2, ExactTable DEF Marked, Tables
<1>8. indexed' => TableIndex(t1, hash')
  BY <1>1, <1>2, ExactTable, IndexMoved DEF Tables
<1>9. Did([op |-> "update", idx |-> i, row |-> old], Table, t1)
  BY <1>2, ExactTable DEF Did, Tables
<1>10. Chained'
  BY <1>1, <1>3, <1>4, <1>6, <1>7, <1>9, ExactTable, ChainRecorded
<1>11. BatchValid'
  BY <1>1 DEF BatchValid
<1>. QED BY <1>1, <1>3, <1>5, <1>6, <1>7, <1>8, <1>10, <1>11, ExactOfTable

\* A refused update puts the old key back (core.py:724-742).
LEMMA UpdateFailsExact ==
  ASSUME Faultless, Exact, NEW i \in Slot, NEW m \in Row, UpdateFails(i, m), TypeOK'
  PROVE  Exact'
<1>. DEFINE old == cells[i]
<1>1. /\ phase \in {"open", "tx"} /\ i \in live /\ ~UniqueAllows(i, old, m)
      /\ uniq' = UniqueMoved(i, old, m)
      /\ UNCHANGED <<cells, live, count, indexed, hash, phase, todo, undo, hist>>
  BY DEF UpdateFails, Ready, Faultless, store
<1>2. old \in Row /\ Table[i] = old /\ old # Absent
  BY <1>1, ExactTable, TableAt DEF TypeOK
<1>3. uniq[old.k] = i /\ uniq \in [Key -> Slot \cup {NoOwner}] /\ old.k \in Key
  BY <1>1, <1>2, ExactTable, RowFields DEF TableUnique, TypeOK
<1>4. uniq' = uniq
  BY <1>1, <1>3 DEF UniqueMoved, Released
<1>5. hist = <<>> => phase' \in {"open", "closed", "closing"}
  BY <1>1, ExactTable DEF Chained
<1>6. BatchValid'
  BY <1>1, <1>4, ExactTable DEF BatchValid
<1>. QED BY <1>1, <1>4, <1>5, <1>6, ExactTable, ExactKept

\* delete keeps the invariant.
LEMMA DeleteExact ==
  ASSUME Faultless, Exact, NEW i \in Slot, Delete(i), TypeOK'
  PROVE  Exact'
<1>. DEFINE old == cells[i]
            t1 == [Table EXCEPT ![i] = Absent]
<1>1. /\ phase \in {"open", "tx"} /\ todo' = <<>> /\ i \in live /\ live' = live \ {i}
      /\ uniq' = Released(i, old) /\ hash' = HashDrop(hash, i, old.v) /\ Recorded("delete", i, t1)
      /\ UNCHANGED <<cells, count, indexed, phase>>
  BY DEF Delete, Ready
<1>2. old \in Row /\ Table[i] = old /\ old # Absent
  BY <1>1, ExactTable, TableAt DEF TypeOK
<1>3. Table' = t1
  BY <1>1, ExactTable DEF Table, TypeOK
<1>4. t1 \in Tables
  BY ExactTable DEF Tables
<1>5. TableUnique(t1, uniq')
  BY <1>1, <1>2, ExactTable, ReleasedExact DEF Tables
<1>6. KeysDistinct(t1)
  BY <1>4, <1>5, UniqueDistinct DEF Tables
<1>7. Marked(count, t1)
  BY ExactTable DEF Marked, Tables
<1>8. indexed' => TableIndex(t1, hash')
  BY <1>1, <1>2, ExactTable, IndexDropped DEF Tables
<1>9. Did([op |-> "delete", idx |-> i, row |-> old], Table, t1)
  BY <1>2, ExactTable DEF Did, Tables
<1>10. Chained'
  BY <1>1, <1>3, <1>4, <1>6, <1>7, <1>9, ExactTable, ChainRecorded
<1>11. BatchValid'
  BY <1>1 DEF BatchValid
<1>. QED BY <1>1, <1>3, <1>5, <1>6, <1>7, <1>8, <1>10, <1>11, ExactOfTable

\* A created index is built from the rows; a dropped one says nothing.
LEMMA IndexingExact == ASSUME Exact, CreateIndex \/ DropIndex, TypeOK' PROVE Exact'
<1>1. UNCHANGED <<cells, live, count, uniq, phase, todo, undo, hist>>
  BY DEF CreateIndex, DropIndex, store
<1>2. indexed' => TableIndex(Table, hash')
  <2>1. CASE CreateIndex
    <3>1. hash' = [v \in Val |-> {i \in live : cells[i].v = v}]
      BY <2>1, ExactTable DEF CreateIndex, HashBuilt
    <3>2. \A i \in Slot : /\ i \in live => Table[i] = cells[i] /\ Table[i] # Absent
                          /\ i \notin live => Table[i] = Absent
      BY ExactTable, TableAt
    <3>. QED BY <3>1, <3>2 DEF TableIndex
  <2>2. CASE DropIndex
    BY <2>2 DEF DropIndex
  <2>. QED BY <2>1, <2>2
<1>3. hist = <<>> => phase' \in {"open", "closed", "closing"}
  BY <1>1, ExactTable DEF Chained
<1>4. BatchValid'
  BY <1>1, ExactTable DEF BatchValid
<1>. QED BY <1>1, <1>2, <1>3, <1>4, ExactKept

\* A validated batch has fresh and different keys; the new slabs are empty.
LEMMA BatchStartExact ==
  ASSUME Exact, NEW n \in 1..MaxBatch, NEW rs \in [1..n -> Given], BatchStart(rs), TypeOK'
  PROVE  Exact'
<1>1. /\ phase \in {"open", "tx"} /\ todo' = rs
      /\ UNCHANGED <<cells, live, uniq, indexed, hash, phase, undo, hist>>
  BY DEF BatchStart, Ready, maps, tx
<1>2. BatchValid'
  BY <1>1 DEF BatchStart, BatchValid, KeyFree
<1>3. \A i \in Slot : InSlabs(count, i) => InSlabs(count', i)
  <2>1. n \in Nat /\ Len(rs) = n
    BY SizeAssumption
  <2>2. Growth(Len(rs)) \in Nat
    BY <2>1, GrowthType, ExactTable
  <2>. DEFINE new == [j \in 1..Growth(Len(rs)) |-> 0]
  <2>3. count \in Seq(0..RowsPerSlab) /\ new \in Seq(0..RowsPerSlab)
    BY <2>2, ExactTable, SizeAssumption, SMTT(60) DEF TypeOK
  <2>4. count' = count \o new
    BY DEF BatchStart
  <2>. HIDE DEF new
  <2>5. Len(count') = Len(count) + Len(new) /\ \A s \in 1..Len(count) : count'[s] = count[s]
    BY <2>3, <2>4, Joined
  <2>6. Len(new) \in Nat /\ Len(count) \in Nat
    BY <2>3
  <2>7. \A i \in Slot : i[1] \in Nat \ {0}
    BY SizeAssumption DEF Slot
  <2>. QED BY <2>5, <2>6, <2>7 DEF InSlabs
<1>4. hist = <<>> => phase' \in {"open", "closed", "closing"}
  BY <1>1, ExactTable DEF Chained
<1>. QED BY <1>1, <1>2, <1>3, <1>4, ExactTable, ExactKept

\* The unique map that fsck rebuilds is the one there was.
LEMMA FsckExact == ASSUME Exact, Fsck, TypeOK' PROVE Exact'
<1>1. /\ phase \in {"open", "tx"} /\ todo = <<>> /\ uniq' = UniqueRebuilt(cells, live)
      /\ UNCHANGED <<cells, live, count, indexed, hash, phase, todo, undo, hist>>
  BY ExactTable DEF Fsck, Ready, store
<1>2. /\ cells \in [Slot -> Row] /\ live \in SUBSET Slot
      /\ \A i \in Slot : /\ i \in live => Table[i] = cells[i] /\ Table[i] # Absent
                         /\ i \notin live => Table[i] = Absent
  BY ExactTable, TableAt DEF TypeOK
<1>3. \A i, j \in live : cells[i].k = cells[j].k => i = j
  BY <1>2, ExactTable DEF KeysDistinct
<1>4. TableUnique(Table, uniq')
  BY <1>1, <1>2, <1>3, RebuiltExact DEF TableUnique
<1>5. Table' = Table /\ BatchValid'
  BY <1>1, ExactTable DEF Table, BatchValid
<1>6. hist = <<>> => phase' \in {"open", "closed", "closing"}
  BY <1>1, ExactTable DEF Chained
<1>7. Chained'
  BY <1>1, <1>5, <1>6, ExactTable, ChainKept
<1>. QED BY <1>1, <1>4, <1>5, <1>7, ExactTable, ExactOfTable

\* begin starts a chain of one table; commit forgets it; abort and close keep it.
LEMMA PhaseExact == ASSUME Exact, Begin \/ Commit \/ Abort \/ Close, TypeOK' PROVE Exact'
<1>1. UNCHANGED <<cells, live, count, uniq, indexed, hash, todo>> /\ todo = <<>>
  BY DEF Begin, Commit, Abort, Close, Ready, store, maps
<1>2. Table' = Table /\ BatchValid'
  BY <1>1 DEF Table, BatchValid
<1>3. phase \in {"open", "tx"} /\ phase' # "closed"
  BY DEF Begin, Commit, Abort, Close, Ready, InTx, EndTx
<1>4. Chained'
  <2>1. CASE Begin
    <3>1. undo' = <<>> /\ hist' = <<Table>> /\ count' = count
      BY <2>1 DEF Begin, store
    <3>2. hist' # <<>> /\ Len(hist') = 1 /\ Len(undo') = 0 /\ hist'[1] = Table
      BY <3>1
    <3>. QED BY <1>2, <3>1, <3>2, ExactTable DEF Chained
  <2>2. CASE Commit
    <3>1. undo' = <<>> /\ hist' = <<>> /\ phase' = "open"
      BY <2>2 DEF Commit, EndTx
    <3>2. Len(hist') = 0 /\ Len(undo') = 0
      BY <3>1
    <3>. QED BY <3>1, <3>2 DEF Chained
  <2>3. CASE Abort \/ Close
    <3>1. UNCHANGED <<undo, hist>> /\ (phase = "tx" => hist # <<>>)
      BY <2>3, ExactTable DEF Abort, Close, Chained
    <3>2. hist = <<>> => phase' = "closing"
      BY <2>3, <3>1 DEF Abort, Close, InTx
    <3>. QED BY <1>1, <1>2, <3>1, <3>2, ExactTable, ChainKept
  <2>. QED BY <2>1, <2>2, <2>3
<1>. QED BY <1>1, <1>2, <1>3, <1>4, ExactTable, ExactOfTable

-----------------------------------------------------------------------------
(* Rollback.                                                               *)

\* Undoing the latest record leads to the last table but one of the history.
LEMMA UndoneTable ==
  ASSUME Exact, undo # <<>>
  PROVE  LET before == hist[Len(undo)]
             i == Latest.idx
             r == Latest.row
         IN  /\ before \in Tables /\ KeysDistinct(before) /\ Marked(count, before)
             /\ i \in Slot /\ r \in Row
             /\ Latest.op = "insert" => Table[i] = r /\ before = [Table EXCEPT ![i] = Absent]
             /\ Latest.op = "update" => i \in live /\ before = [Table EXCEPT ![i] = r]
             /\ Latest.op = "delete" => i \notin live /\ before = [Table EXCEPT ![i] = r]
<1>. DEFINE before == hist[Len(undo)]
<1>1. /\ before \in Tables /\ KeysDistinct(before) /\ Marked(count, before)
      /\ Latest.idx \in Slot /\ Latest.row \in Row /\ Latest.op \in {"insert", "update", "delete"}
      /\ Did(Latest, before, Table)
  BY ExactTable, ChainEnd
<1>2. Table \in Tables
  BY ExactTable
<1>. HIDE DEF before
<1>3. CASE Latest.op = "insert"
  BY <1>1, <1>2, <1>3 DEF Did, Tables, before
<1>4. CASE Latest.op = "update"
  BY <1>1, <1>2, <1>4, ExactTable, TableAt DEF Did, Tables, before
<1>5. CASE Latest.op = "delete"
  BY <1>1, <1>2, <1>5, ExactTable, TableAt DEF Did, Tables, before
<1>. QED BY <1>1, <1>3, <1>4, <1>5 DEF before

\* An update can always be undone: the row is there and its old key is free.
LEMMA UndoUpdateSucceeds ==
  ASSUME Exact, phase # "closed", undo # <<>>, Latest.op = "update"
  PROVE  ~UndoUpdateRaises
<1>. DEFINE before == hist[Len(undo)]
            i == Latest.idx
            r == Latest.row
            old == cells[i]
<1>1. /\ before \in Tables /\ KeysDistinct(before) /\ i \in Slot /\ r \in Row /\ i \in live
      /\ before = [Table EXCEPT ![i] = r]
  BY UndoneTable
<1>2. TableUnique(Table, uniq) /\ Table \in Tables /\ uniq \in [Key -> Slot \cup {NoOwner}]
  BY ExactTable DEF TypeOK
<1>3. Table[i] = old /\ old \in Row /\ old # Absent /\ old.k \in Key /\ r.k \in Key /\ r # Absent
  BY <1>1, ExactTable, TableAt, RowFields
<1>4. uniq[old.k] = i
  BY <1>1, <1>2, <1>3 DEF TableUnique
<1>. HIDE DEF before
<1>5. ASSUME NEW j \in Slot, uniq[r.k] = j PROVE j = i
  <2>1. Table[j] # Absent /\ Table[j].k = r.k
    BY <1>2, <1>3, <1>5 DEF TableUnique
  <2>2. j # i => before[j] = Table[j] /\ before[i] = r
    BY <1>1, <1>2 DEF Tables
  <2>. QED BY <1>1, <1>3, <2>1, <2>2 DEF KeysDistinct
<1>6. UniqueAllows(i, old, r)
  BY <1>1, <1>2, <1>3, <1>4, <1>5 DEF UniqueAllows, Released
<1>. QED BY <1>1, <1>6 DEF UndoUpdateRaises

\* Each step of a rollback goes back one table, with its maps.
LEMMA UndoExact ==
  ASSUME Faultless, Exact, UndoInsert \/ UndoUpdate \/ UndoDelete, TypeOK'
  PROVE  Exact'
<1>. DEFINE before == hist[Len(undo)]
            i == Latest.idx
            r == Latest.row
<1>1. /\ undo # <<>> /\ phase \in {"abort", "closing"} /\ Shortened
      /\ UNCHANGED <<count, indexed, phase, todo>>
  BY DEF UndoInsert, UndoUpdate, UndoDelete, RollingBack
<1>2. /\ before \in Tables /\ KeysDistinct(before) /\ Marked(count, before)
      /\ i \in Slot /\ r \in Row
      /\ Latest.op = "insert" => Table[i] = r /\ before = [Table EXCEPT ![i] = Absent]
      /\ Latest.op = "update" => i \in live /\ before = [Table EXCEPT ![i] = r]
      /\ Latest.op = "delete" => i \notin live /\ before = [Table EXCEPT ![i] = r]
  BY <1>1, UndoneTable
<1>3. TableUnique(Table, uniq) /\ Table \in Tables /\ todo = <<>>
  BY <1>1, ExactTable, EmptySeq DEF BatchValid
<1>4. cells \in [Slot -> Row] /\ live \in SUBSET Slot
  BY ExactTable DEF TypeOK
<1>. HIDE DEF before
<1>5. Table' = before /\ TableUnique(before, uniq') /\ (indexed => TableIndex(before, hash'))
  <2>1. CASE UndoInsert
    <3>1. /\ Latest.op = "insert" /\ live' = live \ {i} /\ cells' = cells
          /\ hash' = HashDrop(hash, i, r.v) /\ uniq' = Released(i, r)
      BY <2>1 DEF UndoInsert
    <3>2. Table' = before
      BY <1>2, <1>4, <3>1 DEF Table
    <3>3. TableUnique(before, uniq')
      BY <1>2, <1>3, <3>1, ExactTable, ReleasedExact DEF Tables
    <3>4. indexed => TableIndex(before, hash')
      BY <1>2, <1>3, <3>1, ExactTable, IndexDropped DEF Tables
    <3>. QED BY <3>2, <3>3, <3>4
  <2>2. CASE UndoUpdate
    <3>1. /\ Latest.op = "update" /\ live' = live /\ cells' = [cells EXCEPT ![i] = r]
          /\ hash' = HashMoved(i, cells[i], r) /\ uniq' = UniqueMoved(i, cells[i], r)
          /\ UniqueAllows(i, cells[i], r)
      BY <1>2, <2>2 DEF UndoUpdate, UndoUpdateRaises, RestoreCell, Faultless
    <3>2. Table' = before
      BY <1>2, <1>4, <3>1 DEF Table
    <3>3. Table[i] = cells[i] /\ cells[i] \in Row
      BY <1>2, <1>4, <3>1, ExactTable, TableAt
    <3>4. TableUnique(before, uniq')
      BY <1>2, <1>3, <3>1, <3>3, ExactTable, MovedExact DEF Tables
    <3>5. indexed => TableIndex(before, hash')
      BY <1>2, <1>3, <3>1, <3>3, ExactTable, IndexMoved DEF Tables
    <3>. QED BY <3>2, <3>4, <3>5
  <2>3. CASE UndoDelete
    <3>1. /\ Latest.op = "delete" /\ live' = live \cup {i} /\ cells' = [cells EXCEPT ![i] = r]
          /\ hash' = HashAdd(hash, i, r.v) /\ uniq' = [uniq EXCEPT ![r.k] = i]
      BY <1>2, <2>3 DEF UndoDelete, RestoreCell, Faultless
    <3>2. Table' = before
      BY <1>2, <1>4, <3>1 DEF Table
    <3>3. Table[i] = Absent
      BY <1>2, <3>1, ExactTable, TableAt
    <3>4. TableUnique(before, uniq')
      <4>1. KeysDistinct([Table EXCEPT ![i] = r]) /\ Table \in [Slot -> Row \cup {Absent}] /\ TypeOK
        BY <1>2, <1>3, <3>1, ExactTable DEF Tables
      <4>2. TableUnique([Table EXCEPT ![i] = r], [uniq EXCEPT ![r.k] = i])
        BY <1>2, <1>3, <3>3, <4>1, RestoredExact
      <4>. QED BY <1>2, <3>1, <4>2
    <3>5. indexed => TableIndex(before, hash')
      BY <1>2, <1>3, <3>1, <3>3, ExactTable, IndexAdded DEF Tables
    <3>. QED BY <3>2, <3>4, <3>5
  <2>. QED BY <2>1, <2>2, <2>3
<1>6. Chained'
  BY <1>1, <1>5, ExactTable, ChainCut DEF before
<1>7. BatchValid'
  BY <1>1, <1>3 DEF BatchValid
<1>. QED BY <1>1, <1>2, <1>5, <1>6, <1>7, ExactOfTable

\* The end of a rollback keeps the rows; a close forgets the maps.
LEMMA UndoDoneExact == ASSUME Exact, UndoDone, TypeOK' PROVE Exact'
<1>1. /\ phase \in {"abort", "closing"} /\ undo = <<>> /\ undo' = <<>> /\ hist' = <<>>
      /\ phase' \in {"open", "closed"} /\ (phase' = "open" => UNCHANGED <<uniq, indexed, hash>>)
      /\ (phase' = "closed" => indexed' = FALSE)
      /\ UNCHANGED <<cells, live, count, todo>>
  BY DEF UndoDone, RollingBack, store, maps
<1>2. Table' = Table /\ todo = <<>>
  BY <1>1, ExactTable DEF Table, BatchValid
<1>3. BatchValid'
  BY <1>1, <1>2 DEF BatchValid
<1>4. Chained'
  <2>1. Len(hist') = 0 /\ Len(undo') = 0
    BY <1>1
  <2>. QED BY <1>1, <2>1 DEF Chained
<1>. QED BY <1>1, <1>2, <1>3, <1>4, ExactTable, ExactOfTable

\* Rollback keeps the invariant.
LEMMA RollbackExact == ASSUME Faultless, Exact, Rollback, TypeOK' PROVE Exact'
<1>1. ~UndoUpdateFails
  BY UndoUpdateSucceeds DEF UndoUpdateFails, RollingBack
<1>. QED BY <1>1, UndoExact, UndoDoneExact DEF Rollback

-----------------------------------------------------------------------------
(* Placing rows.                                                           *)

At(cnt, s, j) == <<s, cnt[s] + j - 1>>
Position(cnt, s, i) == i[2] - cnt[s] + 1

\* The slots that Place fills, seen as positions in its list of rows.
LEMMA FreshPositions ==
  ASSUME NEW cnt \in Seq(0..RowsPerSlab), NEW s \in 1..Len(cnt), NEW n \in Nat,
         cnt[s] + n <= RowsPerSlab, Len(cnt) <= MaxSlabs
  PROVE  /\ \A j \in 1..n : /\ At(cnt, s, j) \in Fresh(cnt, s, n)
                            /\ Position(cnt, s, At(cnt, s, j)) = j
                            /\ ~InSlabs(cnt, At(cnt, s, j))
         /\ \A i \in Fresh(cnt, s, n) : /\ i \in Slot
                                        /\ Position(cnt, s, i) \in 1..n
                                        /\ At(cnt, s, Position(cnt, s, i)) = i
<1>1. cnt[s] \in Nat /\ s \in Nat /\ s <= MaxSlabs
  BY SizeAssumption
<1>2. ASSUME NEW j \in 1..n
      PROVE  /\ At(cnt, s, j) \in Fresh(cnt, s, n)
             /\ Position(cnt, s, At(cnt, s, j)) = j
             /\ ~InSlabs(cnt, At(cnt, s, j))
  <2>. DEFINE p == cnt[s] + j - 1
  <2>1. p \in cnt[s] .. cnt[s] + n - 1 /\ p \in 0..RowsPerSlab - 1 /\ p - cnt[s] + 1 = j
    BY <1>1, SizeAssumption, SMTT(60)
  <2>2. At(cnt, s, j) = <<s, p>> /\ s \in 1..MaxSlabs
    BY <1>1 DEF At
  <2>. HIDE DEF p
  <2>3. At(cnt, s, j) \in Fresh(cnt, s, n)
    BY <2>1, <2>2 DEF Fresh, Slot
  <2>4. Position(cnt, s, At(cnt, s, j)) = j
    BY <2>1, <2>2 DEF Position
  <2>5. ~InSlabs(cnt, At(cnt, s, j))
    BY <1>1, <2>1, <2>2 DEF InSlabs
  <2>. QED BY <2>3, <2>4, <2>5
<1>3. ASSUME NEW i \in Fresh(cnt, s, n)
      PROVE  /\ i \in Slot /\ Position(cnt, s, i) \in 1..n
             /\ At(cnt, s, Position(cnt, s, i)) = i
  <2>1. i \in Slot /\ i[1] = s /\ i[2] \in cnt[s] .. cnt[s] + n - 1
    BY DEF Fresh
  <2>2. i = <<i[1], i[2]>>
    BY <2>1 DEF Slot
  <2>3. Position(cnt, s, i) \in 1..n /\ cnt[s] + Position(cnt, s, i) - 1 = i[2]
    BY <1>1, <2>1 DEF Position
  <2>. QED BY <2>1, <2>2, <2>3 DEF At
<1>. QED BY <1>2, <1>3

\* What a table shows after rows were placed in it.
LEMMA FilledAt ==
  ASSUME Faultless, NEW t \in Tables, NEW cnt \in Seq(0..RowsPerSlab), NEW s \in 1..Len(cnt),
         NEW rs \in Seq(Row), cnt[s] + Len(rs) <= RowsPerSlab, Len(cnt) <= MaxSlabs,
         NEW i \in Slot
  PROVE  Filled(t, cnt, s, rs)[i] =
           IF i \in Fresh(cnt, s, Len(rs)) THEN rs[Position(cnt, s, i)] ELSE t[i]
<1>1. Len(rs) \in Nat
  OBVIOUS
<1>2. i \in Fresh(cnt, s, Len(rs)) => Position(cnt, s, i) \in 1..Len(rs)
  BY <1>1, FreshPositions
<1>3. i \in Fresh(cnt, s, Len(rs)) => rs[Position(cnt, s, i)] \in Row
  BY <1>2
<1>4. i \in Fresh(cnt, s, Len(rs)) <=> i[1] = s /\ i[2] \in cnt[s] .. cnt[s] + Len(rs) - 1
  BY DEF Fresh
<1>5. Filled(t, cnt, s, rs)[i] = IF i \in Fresh(cnt, s, Len(rs)) THEN Stored[rs[Position(cnt, s, i)]] ELSE t[i]
  BY <1>4 DEF Filled, Position
<1>. QED BY <1>3, <1>5 DEF Faultless

\* New rows with keys that nobody has.
LEMMA FilledDistinct ==
  ASSUME Faultless, Exact, phase # "closed",
         NEW cnt \in Seq(0..RowsPerSlab), NEW s \in 1..Len(cnt), NEW rs \in Seq(Row),
         cnt[s] + Len(rs) <= RowsPerSlab, Len(cnt) <= MaxSlabs,
         \A j \in 1..Len(rs) : uniq[rs[j].k] = NoOwner,
         \A j, n \in 1..Len(rs) : rs[j].k = rs[n].k => j = n
  PROVE  KeysDistinct(Filled(Table, cnt, s, rs))
<1>. DEFINE t1 == Filled(Table, cnt, s, rs)
            fresh == Fresh(cnt, s, Len(rs))
            pos(i) == Position(cnt, s, i)
<1>1. Len(rs) \in Nat
  OBVIOUS
<1>2. \A i \in Slot : t1[i] = IF i \in fresh THEN rs[pos(i)] ELSE Table[i]
  BY ExactTable, FilledAt
<1>3. \A i \in fresh : pos(i) \in 1..Len(rs) /\ At(cnt, s, pos(i)) = i
  BY <1>1, FreshPositions
<1>4. KeysDistinct(Table) /\ TableUnique(Table, uniq) /\ Table \in Tables
  BY ExactTable
<1>5. \A j \in 1..Len(rs) : rs[j] \in Row /\ rs[j].k \in Key
  BY RowFields
<1>. HIDE DEF t1, fresh, pos
<1>6. ASSUME NEW i \in fresh, NEW n \in fresh, rs[pos(i)].k = rs[pos(n)].k
      PROVE  i = n
  BY <1>3, <1>6
<1>7. ASSUME NEW i \in fresh, NEW n \in Slot, Table[n] # Absent, rs[pos(i)].k = Table[n].k
      PROVE  FALSE
  BY <1>3, <1>4, <1>5, <1>7, MarkAssumption DEF TableUnique
<1>8. KeysDistinct(t1)
  BY <1>2, <1>4, <1>6, <1>7 DEF KeysDistinct
<1>. QED BY <1>8 DEF t1

\* Placing rows with fresh keys keeps every part of the invariant.
LEMMA PlaceExact ==
  ASSUME Faultless, Exact, phase \in {"open", "tx"},
         NEW cnt \in Seq(0..RowsPerSlab), Len(cnt) \in Len(count)..MaxSlabs,
         \A i \in Slot : InSlabs(count, i) <=> InSlabs(cnt, i),
         NEW s \in 1..Len(cnt), NEW rs \in Seq(Row), cnt[s] + Len(rs) <= RowsPerSlab,
         \A j \in 1..Len(rs) : uniq[rs[j].k] = NoOwner,
         \A j, n \in 1..Len(rs) : rs[j].k = rs[n].k => j = n,
         Place(cnt, s, rs)
  PROVE  /\ Marked(count', Table') /\ Chained' /\ KeysDistinct(Table')
         /\ TableUnique(Table', uniq')
         /\ indexed' => TableIndex(Table', hash')
         /\ \A k \in Key : (\A j \in 1..Len(rs) : rs[j].k # k) => uniq'[k] = uniq[k]
<1>. DEFINE at(j) == At(cnt, s, j)
            pos(i) == Position(cnt, s, i)
            fresh == Fresh(cnt, s, Len(rs))
            here(k) == CHOOSE j \in 1..Len(rs) : rs[j].k = k
            prefix(j) == Filled(Table, cnt, s, SubSeq(rs, 1, j))
<1>1. /\ Len(rs) \in Nat /\ Len(cnt) <= MaxSlabs /\ cnt[s] \in Nat
      /\ \A j \in 1..Len(rs) : rs[j] \in Row /\ rs[j].k \in Key /\ rs[j].v \in Val /\ rs[j] # Absent
  BY RowFields, SizeAssumption, ExactTable, LenType
<1>2. /\ cells' = Filled(cells, cnt, s, rs) /\ live' = live \cup fresh
      /\ count' = [cnt EXCEPT ![s] = @ + Len(rs)]
      /\ uniq' = [k \in Key |-> IF \E j \in 1..Len(rs) : rs[j].k = k THEN at(here(k)) ELSE uniq[k]]
      /\ UNCHANGED <<indexed, phase>>
  BY DEF Place, At
<1>3. indexed => hash' = [v \in Val |-> hash[v] \cup {at(j) : j \in {n \in 1..Len(rs) : rs[n].v = v}}]
  BY DEF Place, At
<1>4. /\ Table \in Tables /\ TableUnique(Table, uniq) /\ Marked(count, Table)
      /\ cells \in [Slot -> Row] /\ live \in SUBSET Slot
  BY ExactTable DEF TypeOK
<1>5. /\ \A j \in 1..Len(rs) : at(j) \in fresh /\ pos(at(j)) = j /\ ~InSlabs(cnt, at(j))
      /\ \A i \in fresh : i \in Slot /\ pos(i) \in 1..Len(rs) /\ at(pos(i)) = i
  BY <1>1, FreshPositions
<1>6. \A i \in fresh : Table[i] = Absent
  BY <1>4, <1>5 DEF Marked
<1>7. \A i \in Slot : Table'[i] = IF i \in fresh THEN rs[pos(i)] ELSE Table[i]
  <2>1. cells \in Tables
    BY <1>4 DEF Tables
  <2>2. \A i \in Slot : cells'[i] = IF i \in fresh THEN rs[pos(i)] ELSE cells[i]
    BY <1>1, <1>2, <2>1, FilledAt
  <2>. QED BY <1>2, <2>2 DEF Table
<1>8. Table' = Filled(Table, cnt, s, rs) /\ Table' \in Tables
  <2>1. \A i \in Slot : Filled(Table, cnt, s, rs)[i] = IF i \in fresh THEN rs[pos(i)] ELSE Table[i]
    BY <1>1, <1>4, FilledAt
  <2>2. Table' \in [Slot -> Row \cup {Absent}]
    BY <1>1, <1>4, <1>5, <1>7 DEF Tables, Table
  <2>. QED BY <1>7, <2>1, <2>2 DEF Filled, Tables
<1>9. KeysDistinct(Table')
  BY <1>1, <1>8, FilledDistinct
<1>10. /\ \A i \in fresh : InSlabs(count', i)
       /\ \A i \in Slot : InSlabs(count, i) => InSlabs(count', i)
  <2>1. Len(count') = Len(cnt) /\ count'[s] = cnt[s] + Len(rs)
        /\ \A n \in 1..Len(cnt) : n # s => count'[n] = cnt[n]
    BY <1>2
  <2>2. \A i \in fresh : InSlabs(count', i)
    BY <1>1, <2>1 DEF Fresh, InSlabs
  <2>3. ASSUME NEW i \in Slot, InSlabs(cnt, i) PROVE InSlabs(count', i)
    <3>1. i[1] \in 1..Len(cnt) /\ i[2] \in Nat
      BY <2>3, SizeAssumption DEF InSlabs, Slot
    <3>. QED BY <1>1, <2>1, <2>3, <3>1 DEF InSlabs
  <2>. QED BY <2>2, <2>3
<1>11. Marked(count', Table')
  BY <1>4, <1>7, <1>10 DEF Marked
<1>. HIDE DEF at, pos, fresh, here
<1>12. ASSUME NEW k \in Key, NEW i \in Slot
       PROVE  uniq'[k] = i <=> Table'[i] # Absent /\ Table'[i].k = k
  <2>1. uniq[k] = i <=> Table[i] # Absent /\ Table[i].k = k
    BY <1>4 DEF TableUnique
  <2>2. CASE \E j \in 1..Len(rs) : rs[j].k = k
    <3>1. here(k) \in 1..Len(rs) /\ rs[here(k)].k = k
      BY <2>2 DEF here
    <3>2. uniq'[k] = at(here(k)) /\ uniq[k] = NoOwner
      BY <1>2, <2>2, <3>1
    <3>3. CASE i \in fresh
      BY <1>1, <1>5, <1>7, <3>1, <3>2, <3>3
    <3>4. CASE i \notin fresh
      BY <1>5, <1>7, <2>1, <3>1, <3>2, <3>4, MarkAssumption
    <3>. QED BY <3>3, <3>4
  <2>3. CASE ~ \E j \in 1..Len(rs) : rs[j].k = k
    <3>1. uniq'[k] = uniq[k]
      BY <1>2, <2>3
    <3>2. CASE i \in fresh
      BY <1>5, <1>6, <1>7, <2>1, <2>3, <3>1, <3>2
    <3>3. CASE i \notin fresh
      BY <1>7, <2>1, <3>1, <3>3
    <3>. QED BY <3>2, <3>3
  <2>. QED BY <2>2, <2>3
<1>13. ASSUME indexed', NEW v \in Val, NEW i \in Slot
       PROVE  i \in hash'[v] <=> Table'[i] # Absent /\ Table'[i].v = v
  <2>1. i \in hash[v] <=> Table[i] # Absent /\ Table[i].v = v
    BY <1>2, <1>13, ExactTable DEF TableIndex
  <2>2. i \in hash'[v] <=> i \in hash[v] \/ \E j \in 1..Len(rs) : rs[j].v = v /\ i = at(j)
    BY <1>2, <1>3, <1>13
  <2>3. CASE i \in fresh
    BY <1>1, <1>5, <1>6, <1>7, <2>1, <2>2, <2>3
  <2>4. CASE i \notin fresh
    BY <1>5, <1>7, <2>1, <2>2, <2>4
  <2>. QED BY <2>3, <2>4
<1>14. \A k \in Key : (\A j \in 1..Len(rs) : rs[j].k # k) => uniq'[k] = uniq[k]
  BY <1>2
<1>15. TableUnique(Table', uniq') /\ (indexed' => TableIndex(Table', hash'))
  BY <1>12, <1>13 DEF TableUnique, TableIndex
<1>16. ASSUME InTx PROVE Chained'
  <2>. DEFINE recs == [j \in 1..Len(rs) |-> [op |-> "insert", idx |-> at(j), row |-> rs[j]]]
              tables == [j \in 1..Len(rs) |-> prefix(j)]
  <2>1. undo' = undo \o recs /\ hist' = hist \o tables
    BY <1>16 DEF Place, at, At
  <2>2. \A j \in 0..Len(rs) : /\ SubSeq(rs, 1, j) \in Seq(Row) /\ Len(SubSeq(rs, 1, j)) = j
                              /\ \A n \in 1..j : SubSeq(rs, 1, j)[n] = rs[n]
    BY <1>1
  <2>3. ASSUME NEW j \in 0..Len(rs), NEW i \in Slot
        PROVE  prefix(j)[i] = IF i \in fresh /\ pos(i) <= j THEN rs[pos(i)] ELSE Table[i]
    <3>1. i \in Fresh(cnt, s, j) <=> i \in fresh /\ pos(i) <= j
      <4>1. i[2] \in Nat /\ Len(rs) \in Nat /\ cnt[s] \in Nat
        BY <1>1, SizeAssumption DEF Slot
      <4>. QED BY <1>1, <4>1, SMTT(60) DEF Fresh, fresh, pos, Position
    <3>2. prefix(j)[i] = IF i \in Fresh(cnt, s, j) THEN SubSeq(rs, 1, j)[pos(i)] ELSE Table[i]
      <4>0. cnt[s] + j <= RowsPerSlab
        BY <1>1, SizeAssumption, SMTT(60)
      <4>1. SubSeq(rs, 1, j) \in Seq(Row) /\ Len(SubSeq(rs, 1, j)) = j /\ cnt[s] + j <= RowsPerSlab
        BY <2>2, <4>0
      <4>. DEFINE part == SubSeq(rs, 1, j)
      <4>2. prefix(j) = Filled(Table, cnt, s, part) /\ part \in Seq(Row) /\ Len(part) = j
        BY <4>1
      <4>. HIDE DEF part
      <4>3. Filled(Table, cnt, s, part)[i] = IF i \in Fresh(cnt, s, Len(part)) THEN part[Position(cnt, s, i)] ELSE Table[i]
        BY <1>1, <1>4, <4>0, <4>2, FilledAt
      <4>4. prefix(j)[i] = IF i \in Fresh(cnt, s, j) THEN part[pos(i)] ELSE Table[i]
        BY <4>2, <4>3 DEF pos
      <4>. QED BY <4>4 DEF part
    <3>3. i \in fresh /\ pos(i) <= j => pos(i) \in 1..j
      BY <1>1, <1>5
    <3>. QED BY <2>2, <3>1, <3>2, <3>3
  <2>4. ASSUME NEW j \in 0..Len(rs) PROVE prefix(j) \in Tables /\ KeysDistinct(prefix(j)) /\ Marked(count', prefix(j))
    <3>1. prefix(j) \in Tables
      <4>1. \A i \in Slot : i \in fresh => rs[pos(i)] \in Row
        BY <1>1, <1>5
      <4>2. \A i \in Slot : prefix(j)[i] \in Row \cup {Absent}
        BY <1>4, <2>3, <4>1 DEF Tables
      <4>3. prefix(j) = [i \in Slot |-> prefix(j)[i]]
        BY DEF Filled
      <4>. HIDE DEF prefix
      <4>. QED BY <4>2, <4>3 DEF Tables
    <3>2. KeysDistinct(prefix(j))
      <4>0. cnt[s] + j <= RowsPerSlab
        BY <1>1, SizeAssumption
      <4>1. SubSeq(rs, 1, j) \in Seq(Row) /\ Len(SubSeq(rs, 1, j)) = j /\ cnt[s] + j <= RowsPerSlab
        BY <2>2, <4>0
      <4>2. /\ \A n \in 1..j : uniq[SubSeq(rs, 1, j)[n].k] = NoOwner
            /\ \A m, n \in 1..j : SubSeq(rs, 1, j)[m].k = SubSeq(rs, 1, j)[n].k => m = n
        BY <1>1, <2>2, SMTT(60)
      <4>3. phase # "closed"
        OBVIOUS
      <4>. QED BY <1>1, <4>1, <4>2, <4>3, FilledDistinct
    <3>3. Marked(count', prefix(j))
      BY <1>4, <1>10, <2>3 DEF Marked
    <3>. QED BY <3>1, <3>2, <3>3
  <2>. HIDE DEF prefix
  <2>5. /\ recs \in Seq(UndoRecord) /\ tables \in Seq(Tables)
        /\ Len(recs) = Len(rs) /\ Len(tables) = Len(rs)
    BY <1>1, <1>5, <2>4 DEF UndoRecord
  <2>6. prefix(0) = Table /\ prefix(Len(rs)) = Table'
    <3>1. \A i \in Slot : prefix(0)[i] = Table[i] /\ prefix(Len(rs))[i] = Table'[i]
      BY <1>1, <1>5, <1>7, <2>3
    <3>2. prefix(0) \in Tables /\ prefix(Len(rs)) \in Tables
      BY <1>1, <2>4
    <3>. QED BY <1>4, <1>8, <3>1, <3>2 DEF Tables
  <2>7. ASSUME NEW n \in 1..Len(rs)
        PROVE  Did(recs[n], prefix(n - 1), prefix(n))
    <3>1. recs[n].idx = at(n) /\ recs[n].op = "insert" /\ recs[n].row = rs[n]
      OBVIOUS
    <3>2. \A i \in Slot \ {at(n)} : prefix(n - 1)[i] = prefix(n)[i]
      BY <1>1, <1>5, <2>3, SMTT(60)
    <3>3. prefix(n - 1)[at(n)] = Absent /\ prefix(n)[at(n)] = rs[n]
      BY <1>1, <1>5, <1>6, <2>3
    <3>. QED BY <1>1, <3>1, <3>2, <3>3 DEF Did
  <2>8. \A n \in 1..Len(rs) : /\ tables[n] = prefix(n)
                              /\ (IF n = 1 THEN Table ELSE tables[n - 1]) = prefix(n - 1)
    BY <1>1, <2>6
  <2>9. Table' = IF recs = <<>> THEN Table ELSE tables[Len(tables)]
    <3>1. recs = <<>> <=> Len(rs) = 0
      BY <1>1, <2>5, EmptySeq
    <3>2. Len(rs) # 0 => tables[Len(rs)] = prefix(Len(rs))
      BY <1>1
    <3>. QED BY <2>5, <2>6, <3>1, <3>2
  <2>10. hist # <<>> /\ TypeOK /\ Chained
    BY <1>16, ExactTable DEF Chained, InTx
  <2>. HIDE DEF recs, tables
  <2>11. \A n \in 1..Len(recs) : /\ Did(recs[n], IF n = 1 THEN Table ELSE tables[n - 1], tables[n])
                                 /\ KeysDistinct(tables[n]) /\ Marked(count', tables[n])
    BY <1>1, <2>4, <2>5, <2>7, <2>8
  <2>. QED BY <1>10, <2>1, <2>5, <2>9, <2>10, <2>11, ChainExtended
<1>17. ASSUME ~InTx PROVE Chained'
  <2>1. phase = "open" /\ hist = <<>> /\ UNCHANGED <<undo, hist>> /\ TypeOK /\ Chained
    BY <1>17, ExactTable DEF Place, InTx, TypeOK
  <2>. QED BY <1>2, <1>10, <2>1, ChainKept
<1>18. Chained'
  BY <1>16, <1>17
<1>. QED BY <1>9, <1>11, <1>14, <1>15, <1>18

\* What a file that grew by empty slabs shows is what it showed before.
LEMMA ExpandedSlabs ==
  ASSUME TypeOK
  PROVE  \A i \in Slot : InSlabs(count, i) <=> InSlabs(Expanded, i)
<1>1. count \in Seq(0..RowsPerSlab) /\ Len(count) \in Nat
  BY DEF TypeOK
<1>2. \A i \in Slot : i[1] \in Nat \ {0} /\ i[2] \in Nat
  BY SizeAssumption DEF Slot
<1>3. CASE LastFull
  <2>1. Expanded = Append(count, 0)
    BY <1>3 DEF Expanded
  <2>2. Len(Expanded) = Len(count) + 1 /\ Expanded[Len(count) + 1] = 0
        /\ \A s \in 1..Len(count) : Expanded[s] = count[s]
    BY <1>1, <2>1
  <2>3. ASSUME NEW i \in Slot PROVE InSlabs(count, i) <=> InSlabs(Expanded, i)
    <3>1. CASE i[1] <= Len(count)
      BY <1>1, <1>2, <2>2, <3>1 DEF InSlabs
    <3>2. CASE i[1] = Len(count) + 1
      BY <1>1, <1>2, <2>2, <3>2 DEF InSlabs
    <3>3. CASE i[1] > Len(count) + 1
      BY <1>1, <1>2, <2>2, <3>3 DEF InSlabs
    <3>. QED BY <1>1, <1>2, <3>1, <3>2, <3>3
  <2>. QED BY <2>3
<1>4. CASE ~LastFull
  BY <1>4 DEF Expanded
<1>. QED BY <1>3, <1>4

\* insert keeps the invariant.
LEMMA InsertExact ==
  ASSUME Faultless, Exact, NEW r \in Row, Insert(r), TypeOK'
  PROVE  Exact'
<1>1. /\ phase \in {"open", "tx"} /\ todo = <<>> /\ todo' = <<>> /\ uniq[r.k] = NoOwner
      /\ Len(Expanded) <= MaxSlabs /\ Place(Expanded, Len(Expanded), <<r>>)
  BY DEF Insert, Ready, KeyFree
<1>2. /\ Expanded \in Seq(0..RowsPerSlab) /\ Len(Expanded) \in Len(count)..MaxSlabs
      /\ Len(Expanded) \in 1..Len(Expanded) /\ Expanded[Len(Expanded)] < RowsPerSlab
      /\ \A i \in Slot : InSlabs(count, i) <=> InSlabs(Expanded, i)
  BY <1>1, ExactTable, ExpandedType, ExpandedSlabs
<1>3. <<r>> \in Seq(Row) /\ Len(<<r>>) = 1 /\ \A j \in 1..Len(<<r>>) : <<r>>[j] = r
  OBVIOUS
<1>4. Expanded[Len(Expanded)] + Len(<<r>>) <= RowsPerSlab
  <2>1. Expanded[Len(Expanded)] \in 0..RowsPerSlab
    BY <1>2, ElementOfSeq
  <2>. QED BY <1>2, <1>3, <2>1, SizeAssumption
<1>5. /\ \A j \in 1..Len(<<r>>) : uniq[<<r>>[j].k] = NoOwner
      /\ \A j, n \in 1..Len(<<r>>) : <<r>>[j].k = <<r>>[n].k => j = n
  BY <1>1, <1>3
<1>6. /\ Marked(count', Table') /\ Chained' /\ KeysDistinct(Table')
      /\ TableUnique(Table', uniq') /\ (indexed' => TableIndex(Table', hash'))
  BY <1>1, <1>2, <1>3, <1>4, <1>5, PlaceExact
<1>7. BatchValid'
  BY <1>1 DEF BatchValid
<1>. QED BY <1>6, <1>7, ExactOfTable

\* A chunk of a batch keeps it, and the keys of the rest stay fresh.
LEMMA BatchChunkExact ==
  ASSUME Faultless, Exact, NEW s \in 1..Len(count), BatchChunk(s), TypeOK'
  PROVE  Exact'
<1>. DEFINE n == ChunkLen(s)
            rs == SubSeq(todo, 1, n)
<1>1. /\ todo # <<>> /\ todo \in Seq(Row) /\ phase \in {"open", "tx"}
      /\ Place(count, s, rs) /\ todo' = SubSeq(todo, n + 1, Len(todo)) /\ HasSpace(s)
  BY ExactTable DEF BatchChunk, BatchValid, TypeOK
<1>2. n \in 1..Len(todo) /\ count[s] + n <= RowsPerSlab /\ Len(todo) \in Nat
  <2>1. Len(todo) \in Nat \ {0} /\ count[s] \in 0..RowsPerSlab
    BY <1>1, EmptySeq, ExactTable, LenType
  <2>2. FreeIn(s) > 0 /\ FreeIn(s) = RowsPerSlab - count[s]
    BY <1>1 DEF HasSpace, FreeIn
  <2>. QED BY <2>1, <2>2, SizeAssumption DEF ChunkLen
<1>. HIDE DEF n
<1>3. rs \in Seq(Row) /\ Len(rs) = n /\ \A j \in 1..n : rs[j] = todo[j]
  BY <1>1, <1>2
<1>. HIDE DEF rs
<1>4. /\ \A j \in 1..Len(todo) : uniq[todo[j].k] = NoOwner
      /\ \A j, m \in 1..Len(todo) : todo[j].k = todo[m].k => j = m
  BY ExactTable DEF BatchValid
<1>5. /\ \A j \in 1..Len(rs) : uniq[rs[j].k] = NoOwner
      /\ \A j, m \in 1..Len(rs) : rs[j].k = rs[m].k => j = m
  <2>1. \A j \in 1..Len(rs) : j \in 1..Len(todo) /\ rs[j] = todo[j]
    BY <1>2, <1>3
  <2>. QED BY <1>4, <2>1
<1>6. count \in Seq(0..RowsPerSlab) /\ Len(count) \in Len(count)..MaxSlabs
  BY ExactTable DEF TypeOK
<1>7. /\ Marked(count', Table') /\ Chained' /\ KeysDistinct(Table')
      /\ TableUnique(Table', uniq') /\ (indexed' => TableIndex(Table', hash'))
      /\ \A k \in Key : (\A j \in 1..Len(rs) : rs[j].k # k) => uniq'[k] = uniq[k]
  <2>1. count[s] + Len(rs) <= RowsPerSlab
    BY <1>2, <1>3
  <2>. QED BY <1>1, <1>3, <1>5, <1>6, <2>1, PlaceExact
<1>8. BatchValid'
  <2>1. Len(todo') = Len(todo) - n /\ \A j \in 1..Len(todo) - n : todo'[j] = todo[j + n]
    BY <1>1, <1>2
  <2>2. phase' \in {"open", "tx"}
    BY <1>1 DEF Place
  <2>3. ASSUME NEW j \in 1..Len(todo') PROVE uniq'[todo'[j].k] = NoOwner
    <3>1. j + n \in 1..Len(todo) /\ todo'[j] = todo[j + n] /\ todo[j + n].k \in Key
      BY <1>1, <1>2, <2>1, RowFields
    <3>2. ASSUME NEW m \in 1..Len(rs) PROVE rs[m].k # todo[j + n].k
      <4>1. m \in 1..Len(todo) /\ rs[m] = todo[m] /\ m # j + n
        BY <1>2, <1>3, <2>1
      <4>. QED BY <1>4, <3>1, <4>1
    <3>. QED BY <1>4, <1>7, <3>1, <3>2
  <2>4. ASSUME NEW j \in 1..Len(todo'), NEW m \in 1..Len(todo'), todo'[j].k = todo'[m].k PROVE j = m
    <3>1. /\ j + n \in 1..Len(todo) /\ todo'[j] = todo[j + n]
          /\ m + n \in 1..Len(todo) /\ todo'[m] = todo[m + n]
      BY <1>2, <2>1
    <3>2. j + n = m + n
      BY <1>4, <2>4, <3>1
    <3>. QED BY <1>2, <3>2
  <2>. QED BY <2>2, <2>3, <2>4 DEF BatchValid
<1>. QED BY <1>7, <1>8, ExactOfTable

\* Rows that are all encodable never fail half way.
LEMMA NoFailures ==
  ASSUME Faultless, Exact
  PROVE  /\ \A r \in Given : ~InsertFails(r)
         /\ \A s \in 1..Len(count) : ~BatchFails(s)
<1>1. \A r \in Given : r \in Encodable
  BY RowAssumption DEF Faultless
<1>2. ASSUME NEW s \in 1..Len(count), BatchFails(s) PROVE FALSE
  <2>1. todo \in Seq(Row) /\ Len(todo) \in Nat
    BY ExactTable DEF TypeOK
  <2>2. FreeIn(s) \in Int
    BY ExactTable, LenType, SizeAssumption DEF FreeIn
  <2>3. \A j \in 1..ChunkLen(s) : j \in 1..Len(todo)
    BY <2>1, <2>2 DEF ChunkLen
  <2>. QED BY <1>2, <2>1, <2>3 DEF BatchFails, ChunkEncodable, Faultless
<1>. QED BY <1>1, <1>2 DEF InsertFails

-----------------------------------------------------------------------------
(* Reopening and compact.                                                  *)

\* The marks that a reopened file starts with hide none of its rows.
LEMMA LoadedVisible ==
  ASSUME Exact
  PROVE  /\ VisibleIn(Loaded) = live /\ Marked(Loaded, Table)
         /\ Duplicates(cells, VisibleIn(Loaded)) = {}
         /\ TableUnique(Table, UniqueRebuilt(cells, VisibleIn(Loaded)))
<1>1. /\ cells \in [Slot -> Row] /\ live \in SUBSET Slot
      /\ \A i \in Slot : /\ i \in live => Table[i] = cells[i] /\ Table[i] # Absent
                         /\ i \notin live => Table[i] = Absent
  BY ExactTable, TableAt DEF TypeOK
<1>2. ASSUME NEW i \in live PROVE InSlabs(Loaded, i)
  <2>1. InSlabs(count, i)
    BY <1>1, ExactTable DEF Marked
  <2>2. i[1] \in 1..Len(count) /\ i[2] \in 0..RowsPerSlab - 1
    BY <1>1, <2>1, SizeAssumption DEF InSlabs, Slot
  <2>3. Len(Loaded) = Len(count) /\ Loaded[i[1]] \in {count[i[1]], RowsPerSlab}
    BY <2>2, ExactTable, LoadedType DEF Loaded
  <2>. QED BY <2>1, <2>2, <2>3, SizeAssumption DEF InSlabs
<1>3. VisibleIn(Loaded) = live /\ Marked(Loaded, Table)
  BY <1>1, <1>2 DEF VisibleIn, Marked
<1>4. \A i, j \in live : cells[i].k = cells[j].k => i = j
  BY <1>1, ExactTable DEF KeysDistinct
<1>5. Duplicates(cells, live) = {} /\ TableUnique(Table, UniqueRebuilt(cells, live))
  BY <1>1, <1>4, RebuiltExact DEF TableUnique
<1>. QED BY <1>3, <1>5

\* Opening rebuilds the unique map of the rows in the file.
LEMMA OpenExact == ASSUME Exact, Open, TypeOK' PROVE Exact'
<1>1. /\ phase = "closed" /\ phase' = "open" /\ count' = Loaded
      /\ uniq' = UniqueRebuilt(cells, VisibleIn(Loaded))
      /\ UNCHANGED <<cells, live, indexed, hash, todo, undo, hist>>
  BY DEF Open
<1>2. Table' = Table
  BY <1>1 DEF Table
<1>3. undo' = <<>> /\ hist' = <<>> /\ todo' = <<>>
  BY <1>1, ExactTable DEF TypeOK, BatchValid
<1>4. Chained'
  <2>1. Len(undo') = 0 /\ Len(hist') = 0
    BY <1>3
  <2>. QED BY <1>1, <1>3, <2>1 DEF Chained
<1>5. BatchValid'
  BY <1>3 DEF BatchValid
<1>. QED BY <1>1, <1>2, <1>4, <1>5, ExactTable, LoadedVisible, ExactOfTable

\* The n-th row of a compacted file lies below the mark of its slab.
LEMMA NthMarked ==
  ASSUME NEW n \in 0..MaxSlabs * RowsPerSlab, NEW m \in Nat, m < n, NEW cnt,
         cnt = [s \in 1..SlabsFor(n) |->
                 IF s < SlabsFor(n) THEN RowsPerSlab ELSE n - (s - 1) * RowsPerSlab]
  PROVE  InSlabs(cnt, Nth(m))
<1>. DEFINE q == m \div RowsPerSlab
            r == m % RowsPerSlab
<1>1. q \in Nat /\ r \in 0..RowsPerSlab - 1 /\ m = RowsPerSlab * q + r
  BY DivMod, SizeAssumption
<1>2. Nth(m) = <<q + 1, r>>
  BY DEF Nth
<1>3. Nth(m)[1] <= SlabsFor(n) /\ SlabsFor(n) \in 1..MaxSlabs
  BY NthType, SlabsForType
<1>. HIDE DEF q, r
<1>4. q + 1 \in 1..SlabsFor(n) /\ Len(cnt) = SlabsFor(n)
  BY <1>1, <1>2, <1>3, SizeAssumption
<1>5. q + 1 < SlabsFor(n) => cnt[q + 1] = RowsPerSlab
  BY <1>4
<1>6. q + 1 = SlabsFor(n) => cnt[q + 1] = n - q * RowsPerSlab
  BY <1>1, <1>4
<1>7. q * RowsPerSlab = RowsPerSlab * q
  BY <1>1, SizeAssumption
<1>8. r < cnt[q + 1]
  <2>1. CASE q + 1 < SlabsFor(n)
    BY <1>1, <1>5, <2>1, SizeAssumption
  <2>2. CASE q + 1 = SlabsFor(n)
    <3>1. q * RowsPerSlab \in Nat /\ n \in Nat
      BY <1>1, SizeAssumption
    <3>. QED BY <1>1, <1>6, <1>7, <2>2, <3>1, SizeAssumption
  <2>. QED BY <1>1, <1>3, <1>4, <2>1, <2>2
<1>. DEFINE s == q + 1
<1>9. Nth(m) = <<s, r>> /\ s <= Len(cnt) /\ r < cnt[s]
  BY <1>2, <1>3, <1>4, <1>8
<1>. HIDE DEF s
<1>10. Nth(m)[1] = s /\ Nth(m)[2] = r
  BY <1>9
<1>. QED BY <1>9, <1>10 DEF InSlabs

\* compact moves each row to a slot of its own, and rebuilds both maps.
LEMMA CompactExact == ASSUME Exact, Compact, TypeOK' PROVE Exact'
<1>. DEFINE n == Cardinality(Visible)
            moved == [i \in Visible |-> Nth(Rank(i))]
            from(s) == CHOOSE i \in Visible : moved[i] = s
            kept == {moved[i] : i \in Visible}
            cells1 == [s \in Slot |-> IF s \in kept THEN cells[from(s)] ELSE ZeroRow]
<1>1. TypeOK /\ n \in 0..MaxSlabs * RowsPerSlab
  BY VisibleCount, ExactTable
<1>2. /\ cells' = cells1 /\ live' = kept
      /\ count' = [s \in 1..SlabsFor(n) |->
                    IF s < SlabsFor(n) THEN RowsPerSlab ELSE n - (s - 1) * RowsPerSlab]
      /\ hash' = IF indexed THEN HashBuilt(cells1, kept) ELSE hash
      /\ uniq' = UniqueRebuilt(cells1, kept)
      /\ UNCHANGED <<indexed, phase, todo, undo, hist>> /\ phase = "open" /\ todo = <<>>
  BY DEF Compact
<1>3. \A i \in Visible : moved[i] = Nth(Rank(i)) /\ Rank(i) \in Nat /\ Rank(i) < n
  BY <1>1, RankType
<1>. HIDE DEF n
<1>4. \A i \in Visible : moved[i] \in Slot /\ InSlabs(count', moved[i])
  BY <1>1, <1>2, <1>3, NthType, NthMarked
<1>5. \A s \in kept : from(s) \in Visible /\ moved[from(s)] = s
  OBVIOUS
<1>. HIDE DEF moved, from
<1>6. kept \in SUBSET Slot /\ \A s \in kept : InSlabs(count', s)
  BY <1>4
<1>. HIDE DEF kept
<1>7. /\ cells \in [Slot -> Row] /\ Visible = live /\ live \in SUBSET Slot
      /\ \A i \in live : Table[i] = cells[i] /\ Table[i] # Absent
  BY ExactTable, TableAt DEF TypeOK
<1>8. cells1 \in [Slot -> Row] /\ \A s \in kept : cells1[s] = cells[from(s)]
  BY <1>5, <1>6, <1>7, RowAssumption
<1>9. \A i, j \in live : cells[i].k = cells[j].k => i = j
  BY <1>7, ExactTable DEF KeysDistinct
<1>10. \A i, j \in kept : cells1[i].k = cells1[j].k => i = j
  BY <1>5, <1>7, <1>8, <1>9
<1>. HIDE DEF cells1
<1>11. \A i \in Slot : Table'[i] = IF i \in kept THEN cells1[i] ELSE Absent
  BY <1>2 DEF Table
<1>12. \A i \in kept : cells1[i] # Absent
  BY <1>6, <1>8, MarkAssumption
<1>13. KeysDistinct(Table') /\ Marked(count', Table')
  BY <1>6, <1>10, <1>11 DEF KeysDistinct, Marked
<1>14. TableUnique(Table', uniq')
  BY <1>2, <1>6, <1>8, <1>10, <1>11, <1>12, RebuiltExact DEF TableUnique
<1>15. indexed' => TableIndex(Table', hash')
  BY <1>2, <1>6, <1>11, <1>12 DEF TableIndex, HashBuilt
<1>16. undo' = <<>> /\ hist' = <<>> /\ BatchValid'
  BY <1>1, <1>2 DEF TypeOK, BatchValid
<1>17. Chained'
  <2>1. Len(undo') = 0 /\ Len(hist') = 0
    BY <1>16
  <2>. QED BY <1>2, <1>16, <2>1 DEF Chained
<1>. QED BY <1>13, <1>14, <1>15, <1>16, <1>17, ExactOfTable

-----------------------------------------------------------------------------
(* The theorems.                                                           *)

\* A new file satisfies the invariant.
LEMMA InitExact == ASSUME Init PROVE Exact
<1>1. TypeOK
  BY InitType
<1>2. /\ live = {} /\ todo = <<>> /\ undo = <<>> /\ hist = <<>> /\ phase = "open"
      /\ uniq = [k \in Key |-> NoOwner] /\ indexed = FALSE
  BY Zenon DEF Init
<1>3. \A i \in Slot : Table[i] = Absent
  BY <1>2 DEF Table
<1>4. KeysDistinct(Table) /\ Marked(count, Table)
  BY <1>3 DEF KeysDistinct, Marked
<1>5. Len(undo) = 0 /\ Len(hist) = 0 /\ Len(todo) = 0
  BY <1>2
<1>6. BatchValid /\ Chained
  BY <1>2, <1>5 DEF BatchValid, Chained
<1>7. TableUnique(Table, uniq)
  BY <1>2, <1>3, MarkAssumption DEF TableUnique
<1>. QED BY <1>1, <1>2, <1>4, <1>6, <1>7, MapsOfTable DEF Exact

\* Every write keeps the invariant.
LEMMA WriteExact == ASSUME Faultless, Exact, Write, TypeOK' PROVE Exact'
<1>1. \A i \in Visible : i \in Slot /\ Merged(cells[i]) \in SUBSET Row
  BY ExactTable, VisibleType, MergedType
<1>2. \A r \in Given : r \in Row
  BY RowAssumption
<1>. QED BY <1>1, <1>2, NoFailures, InsertExact, BatchStartExact, BatchChunkExact,
            UpdateExact, UpdateFailsExact, DeleteExact DEF Write

\* Every step keeps the invariant.
LEMMA StepExact == ASSUME Faultless, Exact, [Next]_vars PROVE Exact'
<1>1. TypeOK'
  BY TypeStep, ExactTable
<1>2. CASE Next
  BY <1>1, <1>2, WriteExact, IndexingExact, PhaseExact, RollbackExact, OpenExact, CompactExact,
     FsckExact DEF Next
<1>3. CASE UNCHANGED vars
  <2>1. UNCHANGED <<cells, live, count, total, uniq, indexed, hash, phase, todo, undo, hist>>
    BY <1>3 DEF vars, store, maps
  <2>2. BatchValid' /\ (hist = <<>> => phase' \in {"open", "closed", "closing"})
    BY <2>1, ExactTable DEF BatchValid, Chained
  <2>. QED BY <1>1, <2>1, <2>2, ExactTable, ExactKept
<1>. QED BY <1>2, <1>3

\* RowStore's inductive invariant: keys are distinct, rows lie below the marks,
\* both maps agree with the rows and the undo list leads back table by table
\* (core.py:703-742, 1159-1216, 1857-1923), for files and transactions of any size.
THEOREM ExactInvariant == ASSUME Faultless PROVE Spec => []Exact
<1>1. Init => Exact
  BY InitExact
<1>2. Exact /\ [Next]_vars => Exact'
  BY StepExact
<1>. QED BY <1>1, <1>2, PTL DEF Spec

\* With rows that are encodable and come back as given, the unique map owns
\* exactly the keys of the rows and the hash index lists exactly the rows of
\* each value (core.py:703-742, 1159-1216), in a table of any size.
THEOREM UniqueCorrect == ASSUME Faultless PROVE Spec => []UniqueExact
BY ExactInvariant, PTL DEF Exact

\* Every lookup through the hash index finds the rows that a scan would find
\* (README.md:209), in a table of any size.
THEOREM IndexCorrect == ASSUME Faultless PROVE Spec => []IndexExact
BY ExactInvariant, PTL DEF Exact

\* The undo list leads from the current table back to the one the transaction
\* started from, record by record (core.py:1882-1923), whatever was written,
\* indexed, dropped or checked in between.
THEOREM UndoCorrect == ASSUME Faultless PROVE Spec => []UndoChain
<1>1. ASSUME Exact PROVE UndoChain
  <2>1. undo \in Seq(UndoRecord) /\ hist \in Seq(Tables) /\ Chained
    BY <1>1, ExactTable DEF TypeOK, Tables
  <2>2. ASSUME hist # <<>>, NEW n \in 1..Len(undo)
        PROVE  Undone(undo[n], hist[n + 1]) = hist[n]
    <3>1. Len(undo) \in Nat /\ Len(hist) = Len(undo) + 1
      BY <2>1, <2>2 DEF Chained
    <3>2. n \in 1..Len(hist) /\ n + 1 \in 1..Len(hist)
      BY <3>1
    <3>3. undo[n] \in UndoRecord /\ hist[n] \in Tables /\ hist[n + 1] \in Tables
      BY <2>1, <3>2, ElementOfSeq
    <3>4. Did(undo[n], hist[n], hist[n + 1])
      BY <2>1 DEF Chained
    <3>. QED BY <3>3, <3>4, DidInverse DEF Undone
  <2>. QED BY <2>1, <2>2 DEF UndoChain, Chained
<1>. QED BY <1>1, ExactInvariant, PTL

\* A file that was closed opens again (core.py:760-810, 1632-1681): the rows
\* that its bitmaps and marks show have keys of their own.
THEOREM ReopenCorrect == ASSUME Faultless PROVE Spec => []Reopenable
<1>1. Exact => Reopenable
  BY LoadedVisible DEF Reopenable
<1>. QED BY <1>1, ExactInvariant, PTL

\* The last step of a rollback stands at the first table of the chain.
LEMMA RollbackEnds ==
  ASSUME Faultless, Exact, [Next]_vars, RollingBack, ~RollingBack', hist # <<>>
  PROVE  Table' = hist[1]
<1>1. phase \in {"abort", "closing"} /\ todo = <<>> /\ phase' # phase
  BY ExactTable DEF RollingBack, BatchValid
<1>2. ~UndoUpdateFails
  BY UndoUpdateSucceeds DEF UndoUpdateFails, RollingBack
<1>3. UndoDone
  <2>1. ~Write
    BY <1>1 DEF Write, Insert, InsertFails, BatchStart, BatchChunk, BatchFails, Update, UpdateFails,
                Delete, Ready
  <2>2. ~(CreateIndex \/ DropIndex \/ Begin \/ Commit \/ Abort \/ Close \/ Open \/ Compact \/ Fsck)
    BY <1>1 DEF CreateIndex, DropIndex, Begin, Commit, Abort, Close, Open, Compact, Fsck, Ready, InTx
  <2>3. ~(UndoInsert \/ UndoUpdate \/ UndoDelete)
    BY <1>1 DEF UndoInsert, UndoUpdate, UndoDelete
  <2>4. ~(UNCHANGED vars)
    BY <1>1 DEF vars
  <2>. QED BY <1>2, <2>1, <2>2, <2>3, <2>4 DEF Next, Rollback
<1>4. undo = <<>> /\ Table' = Table
  BY <1>3 DEF UndoDone, store, Table
<1>5. Len(undo) = 0
  BY <1>4
<1>6. Len(hist) = 1 /\ hist[Len(hist)] = Table
  BY <1>5, ExactTable DEF Chained
<1>. QED BY <1>4, <1>6

\* Rollback is atomic (README.md:656): whatever a transaction did, an aborted
\* one, or one that close() interrupts, leaves the table it found, and its
\* rollback never raises half way.
THEOREM RollbackCorrect == ASSUME Faultless PROVE Spec => RollbackRestores
<1>1. Exact /\ [Next]_vars => [RollingBack /\ ~RollingBack' => hist = <<>> \/ Table' = hist[1]]_vars
  BY RollbackEnds
<1>. QED BY <1>1, ExactInvariant, PTL DEF Spec, RollbackRestores

-----------------------------------------------------------------------------
(* Inserts, updates and batches that fail half way because a row cannot be *)
(* encoded: IndexSound, IndexMissesOnlyFailures and RollbackRestoresRows.  *)
(* Instead of Faultless these proofs assume Lossless: a row that           *)
(* encode_row accepts comes back as it was given.                          *)

\* What encode_row accepts comes back as it was given; it may refuse any row.
Lossless == \A r \in Encodable : Stored[r] = r

\* Two entries of a table are alike if they differ in what failed inserts left
\* at most.
BlankRow(x) == x = Absent \/ FromFailure(x)
Like(x, y) == x = y \/ (BlankRow(x) /\ BlankRow(y))

\* Slots above the marks are zero: no refused row reaches a page.
PagesKept ==
  /\ \A i \in Slot : cells[i] \in Encodable /\ (~InSlabs(count, i) => cells[i] = ZeroRow)
  /\ phase = "closed" => ~indexed
  /\ todo # <<>> => phase \in {"open", "tx"}

\* The index has entries below the marks only, so that placing a row meets none.
IndexKept ==
  indexed =>
    /\ \A v \in Val : \A i \in hash[v] : i \in live /\ InSlabs(count, i) /\ cells[i].v = v
    /\ \A i \in live : InSlabs(count, i) => i \in hash[cells[i].v] \/ FromFailure(cells[i])

\* A row deleted in the transaction stays dead until its one record is undone.
UndoKept ==
  /\ \A n \in 1..Len(undo) : undo[n].row \in Encodable /\ InSlabs(count, undo[n].idx)
  /\ \A n \in 1..Len(undo) : undo[n].op = "delete" => undo[n].idx \notin live
  /\ \A m, n \in 1..Len(undo) :
       undo[m].op = "delete" /\ undo[n].op = "delete" /\ undo[m].idx = undo[n].idx => m = n

\* Chained, but for what failed inserts left.
DidAlike(e, before, after) ==
  /\ \A i \in Slot \ {e.idx} : Like(before[i], after[i])
  /\ IF e.op = "insert" THEN BlankRow(before[e.idx]) /\ after[e.idx] = e.row
     ELSE Like(before[e.idx], e.row)
ChainedAlike ==
  /\ hist = <<>> => undo = <<>> /\ phase \in {"open", "closed", "closing"}
  /\ hist # <<>> => Len(hist) = Len(undo) + 1 /\ \A i \in Slot : Like(hist[Len(hist)][i], Table[i])
  /\ \A n \in 1..Len(undo) : DidAlike(undo[n], hist[n], hist[n + 1])

Kept == TypeOK /\ PagesKept /\ IndexKept /\ UndoKept /\ ChainedAlike

-----------------------------------------------------------------------------
(* Alike tables.                                                           *)

\* Being alike is an equivalence.
LEMMA LikeLaws ==
  /\ \A x : Like(x, x)
  /\ \A x, y : Like(x, y) => Like(y, x)
  /\ \A x, y, z : Like(x, y) /\ Like(y, z) => Like(x, z)
BY DEF Like

\* A new file.
LEMMA InitKept == ASSUME Init PROVE Kept
<1>1. TypeOK
  BY InitType
<1>2. /\ cells = [i \in Slot |-> ZeroRow] /\ live = {} /\ phase = "open" /\ indexed = FALSE
      /\ todo = <<>> /\ undo = <<>> /\ hist = <<>>
  BY Zenon DEF Init
<1>3. Len(undo) = 0
  BY <1>2
<1>4. PagesKept
  BY <1>2, RowAssumption DEF PagesKept
<1>5. IndexKept
  BY <1>2 DEF IndexKept
<1>6. UndoKept
  BY <1>2, <1>3 DEF UndoKept
<1>7. ChainedAlike
  BY <1>2, <1>3 DEF ChainedAlike
<1>. QED BY <1>1, <1>4, <1>5, <1>6, <1>7 DEF Kept

\* Nothing recorded: the last table still is like the current one.
LEMMA AlikeKept ==
  ASSUME ChainedAlike, UNCHANGED <<undo, hist>>, \A i \in Slot : Like(Table[i], Table'[i]),
         hist = <<>> => phase' \in {"open", "closed", "closing"}
  PROVE  ChainedAlike'
<1>1. hist # <<>> => \A i \in Slot : Like(hist[Len(hist)][i], Table'[i])
  BY LikeLaws DEF ChainedAlike
<1>2. hist' # <<>> => Len(hist') = Len(undo') + 1 /\ \A i \in Slot : Like(hist'[Len(hist')][i], Table'[i])
  BY <1>1 DEF ChainedAlike
<1>3. \A n \in 1..Len(undo') : DidAlike(undo'[n], hist'[n], hist'[n + 1])
  BY DEF ChainedAlike
<1>. QED BY <1>2, <1>3 DEF ChainedAlike

\* The records that stay keep what they say, in a file that only grows and
\* while no slot of theirs comes to life.
LEMMA RecordsKept ==
  ASSUME UndoKept, undo' = undo, \A i \in Slot : InSlabs(count, i) => InSlabs(count', i), TypeOK,
         \A n \in 1..Len(undo) : undo[n].op = "delete" => undo[n].idx \notin live'
  PROVE  UndoKept'
<1>1. \A n \in 1..Len(undo) : undo[n].idx \in Slot
  BY LenType DEF UndoRecord
<1>. QED BY <1>1 DEF UndoKept

\* Nothing that the index is about has changed.
LEMMA IndexUntouched ==
  ASSUME IndexKept, UNCHANGED <<cells, live, indexed, hash>>, TypeOK,
         \A i \in Slot : InSlabs(count', i) <=> InSlabs(count, i)
  PROVE  IndexKept'
BY DEF IndexKept, TypeOK

-----------------------------------------------------------------------------
(* update, delete, and the index made or dropped.                          *)

\* What the parts of the invariant say of a slot and of a record.
LEMMA KeptParts ==
  ASSUME Kept
  PROVE  /\ TypeOK /\ PagesKept /\ IndexKept /\ UndoKept /\ ChainedAlike
         /\ cells \in [Slot -> Row] /\ live \in SUBSET Slot /\ hash \in [Val -> SUBSET Slot]
         /\ Table \in Tables /\ undo \in Seq(UndoRecord) /\ hist \in Seq(Tables)
         /\ Len(undo) \in Nat /\ \A n \in 1..Len(undo) : undo[n] \in UndoRecord
         /\ \A i \in Slot : /\ i \in live => Table[i] = cells[i]
                            /\ i \notin live => Table[i] = Absent
BY TableType, TableAt, LenType DEF Kept, TypeOK, Tables

\* A row with another value of v moves in the index.
LEMMA MovedKept ==
  ASSUME Kept, NEW i \in live, InSlabs(count, i), NEW m \in Row,
         cells' = [cells EXCEPT ![i] = m], hash' = HashMoved(i, cells[i], m),
         UNCHANGED <<live, count, indexed>>
  PROVE  IndexKept'
<1> SUFFICES ASSUME indexed PROVE IndexKept'
  BY DEF IndexKept
<1>1. /\ i \in Slot /\ cells[i] \in Row /\ cells[i].v \in Val /\ m.v \in Val
      /\ hash \in [Val -> SUBSET Slot]
  BY KeptParts, RowFields
<1>2. \A v \in Val : hash'[v] = IF cells[i].v = m.v THEN hash[v]
                                ELSE (IF v = m.v THEN hash[v] \cup {i}
                                      ELSE IF v = cells[i].v THEN hash[v] \ {i} ELSE hash[v])
  BY <1>1 DEF HashMoved, HashAdd, HashDrop
<1>3. \A j \in Slot : cells'[j] = IF j = i THEN m ELSE cells[j]
  BY <1>1, KeptParts
<1>4. \A v \in Val : \A j \in hash[v] : j \in live /\ InSlabs(count, j) /\ cells[j].v = v
  BY KeptParts DEF IndexKept
<1>5. \A j \in live : InSlabs(count, j) => j \in hash[cells[j].v] \/ FromFailure(cells[j])
  BY KeptParts DEF IndexKept
<1>6. ASSUME NEW v \in Val, NEW j \in hash'[v]
      PROVE  j \in live /\ InSlabs(count, j) /\ cells'[j].v = v
  <2>1. CASE j = i
    <3>1. cells[i].v = m.v => v = m.v
      BY <1>2, <1>4, <1>6, <2>1
    <3>2. cells[i].v # m.v => v = m.v
      <4>1. ASSUME cells[i].v # m.v, v # m.v PROVE FALSE
        BY <1>2, <1>4, <1>6, <2>1, <4>1
      <4>. QED BY <4>1
    <3>. QED BY <1>1, <1>3, <2>1, <3>1, <3>2
  <2>2. CASE j # i
    <3>1. j \in hash[v] /\ j \in Slot
      BY <1>1, <1>2, <1>6, <2>2
    <3>. QED BY <1>3, <1>4, <2>2, <3>1
  <2>. QED BY <2>1, <2>2
<1>7. ASSUME NEW j \in live, InSlabs(count, j)
      PROVE  j \in hash'[cells'[j].v] \/ FromFailure(cells'[j])
  <2>1. j \in Slot /\ cells[j].v \in Val
    BY KeptParts, RowFields
  <2>2. CASE j = i
    <3>1. cells'[j] = m /\ (i \in hash[cells[i].v] \/ FromFailure(cells[i]))
      BY <1>1, <1>3, <1>5, <2>2
    <3>2. CASE cells[i].v = m.v
      BY <1>1, <1>2, <2>2, <3>1, <3>2 DEF FromFailure
    <3>3. CASE cells[i].v # m.v
      BY <1>1, <1>2, <2>2, <3>1, <3>3
    <3>. QED BY <3>2, <3>3
  <2>3. CASE j # i
    <3>1. cells'[j] = cells[j] /\ (j \in hash[cells[j].v] \/ FromFailure(cells[j]))
      BY <1>3, <1>5, <1>7, <2>1, <2>3
    <3>2. \A v \in Val : j \in hash[v] => j \in hash'[v]
      BY <1>2, <2>3
    <3>. QED BY <2>1, <3>1, <3>2
  <2>. QED BY <2>2, <2>3
<1>. QED BY <1>6, <1>7, KeptParts DEF IndexKept, InSlabs

\* A row that dies leaves the index.
LEMMA DroppedKept ==
  ASSUME Kept, NEW i \in Slot, NEW r \in Row, i \in live => Like(cells[i], r) /\ cells[i] # Absent,
         live' = live \ {i}, hash' = HashDrop(hash, i, r.v),
         UNCHANGED <<cells, count, indexed>>
  PROVE  IndexKept'
<1> SUFFICES ASSUME indexed PROVE IndexKept'
  BY DEF IndexKept
<1>1. i \in live => cells[i].v = r.v
  BY RowFields, KeptParts DEF Like, BlankRow, FromFailure
<1>2. \A v \in Val : hash'[v] = IF v = r.v THEN hash[v] \ {i} ELSE hash[v]
  BY KeptParts, RowFields DEF HashDrop
<1>3. \A v \in Val : \A j \in hash[v] : j \in live /\ InSlabs(count, j) /\ cells[j].v = v
  BY KeptParts DEF IndexKept
<1>4. \A j \in live : InSlabs(count, j) => j \in hash[cells[j].v] \/ FromFailure(cells[j])
  BY KeptParts DEF IndexKept
<1>5. ASSUME NEW v \in Val, NEW j \in hash'[v]
      PROVE  j \in live' /\ InSlabs(count, j) /\ cells[j].v = v
  <2>1. j \in hash[v] /\ (v = r.v => j # i)
    BY <1>2, <1>5
  <2>2. j \in live /\ InSlabs(count, j) /\ cells[j].v = v
    BY <1>3, <2>1
  <2>. QED BY <1>1, <2>1, <2>2
<1>6. ASSUME NEW j \in live', InSlabs(count, j)
      PROVE  j \in hash'[cells[j].v] \/ FromFailure(cells[j])
  <2>1. j \in live /\ j # i /\ cells[j].v \in Val
    BY KeptParts, RowFields
  <2>. QED BY <1>2, <1>4, <1>6, <2>1
<1>. QED BY <1>5, <1>6, KeptParts DEF IndexKept, InSlabs

\* A record and its table at the end of the lists.
LEMMA RecordedAlike ==
  ASSUME Kept, phase \in {"open", "tx"}, phase' = phase,
         NEW op \in {"update", "delete"}, NEW i \in live, NEW after \in Tables, InSlabs(count, i),
         Recorded(op, i, after), Table' = after, count' = count,
         \A j \in Slot \ {i} : after[j] = Table[j],
         live' = IF op = "delete" THEN live \ {i} ELSE live
  PROVE  ChainedAlike' /\ UndoKept'
<1>1. i \in Slot /\ Table[i] = cells[i] /\ cells[i] \in Encodable
  BY KeptParts DEF PagesKept
<1>2. CASE ~InTx
  <2>1. phase = "open" /\ undo = <<>> /\ hist = <<>> /\ UNCHANGED <<undo, hist>>
    BY <1>2, KeptParts DEF Recorded, InTx, TypeOK
  <2>2. Len(undo) = 0
    BY <2>1
  <2>. QED BY <2>1, <2>2 DEF ChainedAlike, UndoKept
<1>3. CASE InTx
  <2>. DEFINE rec == [op |-> op, idx |-> i, row |-> cells[i]]
              n1 == Len(undo) + 1
  <2>1. undo' = Append(undo, rec) /\ hist' = Append(hist, after)
    BY <1>3 DEF Recorded
  <2>2. hist # <<>> /\ Len(hist) = n1 /\ \A j \in Slot : Like(hist[n1][j], Table[j])
    BY <1>3, KeptParts DEF ChainedAlike, InTx
  <2>3. /\ Len(undo') = n1 /\ undo'[n1] = rec /\ \A n \in 1..Len(undo) : undo'[n] = undo[n]
        /\ Len(hist') = n1 + 1 /\ hist'[n1 + 1] = after /\ \A n \in 1..n1 : hist'[n] = hist[n]
    BY <2>1, <2>2, KeptParts
  <2>. HIDE DEF rec
  <2>4. rec.op = op /\ rec.idx = i /\ rec.row = cells[i]
    BY DEF rec
  <2>5. DidAlike(rec, hist[n1], after)
    BY <1>1, <2>2, <2>4 DEF DidAlike
  <2>6. ASSUME NEW n \in 1..Len(undo') PROVE DidAlike(undo'[n], hist'[n], hist'[n + 1])
    <3>1. CASE n = n1
      BY <2>2, <2>3, <2>5, <3>1, KeptParts
    <3>2. CASE n # n1
      <4>1. n \in 1..Len(undo) /\ n \in 1..n1 /\ n + 1 \in 1..n1
        BY <2>3, <3>2, KeptParts
      <4>. QED BY <2>3, <4>1, KeptParts DEF ChainedAlike
    <3>. QED BY <3>1, <3>2
  <2>7. ChainedAlike'
    <3>1. hist' # <<>> /\ Len(hist') = Len(undo') + 1 /\ hist'[Len(hist')] = Table'
      BY <2>3, KeptParts
    <3>. QED BY <2>6, <3>1, LikeLaws DEF ChainedAlike
  <2>8. \A n \in 1..Len(undo') : undo'[n].row \in Encodable /\ InSlabs(count, undo'[n].idx)
    BY <1>1, <2>3, <2>4, KeptParts DEF UndoKept
  <2>9. \A n \in 1..Len(undo') : undo'[n].op = "delete" => undo'[n].idx \notin live'
    BY <2>3, <2>4, KeptParts DEF UndoKept
  <2>10. \A n \in 1..Len(undo) : undo[n].op = "delete" => undo[n].idx # i
    BY KeptParts DEF UndoKept
  <2>11. ASSUME NEW m \in 1..Len(undo'), NEW n \in 1..Len(undo'),
                undo'[m].op = "delete", undo'[n].op = "delete", undo'[m].idx = undo'[n].idx
         PROVE  m = n
    <3>1. CASE m \in 1..Len(undo) /\ n \in 1..Len(undo)
      BY <2>3, <2>11, <3>1, KeptParts DEF UndoKept
    <3>2. CASE m = n1 /\ n \in 1..Len(undo)
      BY <2>3, <2>4, <2>10, <2>11, <3>2
    <3>3. CASE n = n1 /\ m \in 1..Len(undo)
      BY <2>3, <2>4, <2>10, <2>11, <3>3
    <3>4. (m \in 1..Len(undo) \/ m = n1) /\ (n \in 1..Len(undo) \/ n = n1)
      BY <2>3, KeptParts
    <3>. QED BY <3>1, <3>2, <3>3, <3>4
  <2>12. UndoKept'
    BY <2>8, <2>9, <2>11 DEF UndoKept
  <2>. QED BY <2>7, <2>12
<1>. QED BY <1>2, <1>3

\* update.
LEMMA UpdateKept ==
  ASSUME Lossless, Kept, NEW i \in Visible, NEW m \in Row, Update(i, m), TypeOK'
  PROVE  Kept'
<1>. DEFINE t1 == [Table EXCEPT ![i] = m]
<1>1. i \in live /\ i \in Slot /\ InSlabs(count, i)
  BY KeptParts DEF Visible, VisibleIn
<1>2. /\ m \in Encodable /\ cells' = [cells EXCEPT ![i] = m] /\ hash' = HashMoved(i, cells[i], m)
      /\ Recorded("update", i, t1) /\ phase \in {"open", "tx"} /\ todo = <<>>
      /\ UNCHANGED <<live, count, indexed, phase, todo>>
  BY DEF Update, Ready, Lossless
<1>3. PagesKept'
  BY <1>1, <1>2, KeptParts DEF PagesKept
<1>4. IndexKept'
  BY <1>1, <1>2, MovedKept
<1>5. t1 \in Tables /\ Table' = t1 /\ \A j \in Slot \ {i} : t1[j] = Table[j]
  <2>1. Table' = [j \in Slot |-> IF j \in live THEN [cells EXCEPT ![i] = m][j] ELSE Absent]
    BY <1>2 DEF Table
  <2>2. t1 \in Tables /\ DOMAIN t1 = Slot
    BY <1>1, KeptParts DEF Tables
  <2>3. \A j \in Slot : t1[j] = Table'[j]
    BY <1>1, <2>1, KeptParts DEF Tables
  <2>. QED BY <1>1, <2>1, <2>2, <2>3, KeptParts DEF Tables
<1>. HIDE DEF t1
<1>6. ChainedAlike' /\ UndoKept'
  BY <1>1, <1>2, <1>5, RecordedAlike
<1>. QED BY <1>3, <1>4, <1>6 DEF Kept

\* A refused update has moved the unique map only.
LEMMA UpdateFailsKept ==
  ASSUME Kept, NEW i, NEW m, UpdateFails(i, m), TypeOK'
  PROVE  Kept'
<1>1. UNCHANGED <<cells, live, count, indexed, hash, phase, todo, undo, hist>>
  BY DEF UpdateFails, store
<1>2. Table' = Table
  BY <1>1 DEF Table
<1>. QED BY <1>1, <1>2 DEF Kept, PagesKept, IndexKept, UndoKept, ChainedAlike

\* delete.
LEMMA DeleteKept ==
  ASSUME Kept, NEW i \in Visible, Delete(i), TypeOK'
  PROVE  Kept'
<1>. DEFINE t1 == [Table EXCEPT ![i] = Absent]
<1>1. i \in live /\ i \in Slot /\ InSlabs(count, i) /\ cells[i] \in Row /\ cells[i] # Absent
  BY KeptParts, RowFields DEF Visible, VisibleIn
<1>2. /\ live' = live \ {i} /\ hash' = HashDrop(hash, i, cells[i].v)
      /\ Recorded("delete", i, t1) /\ phase \in {"open", "tx"}
      /\ UNCHANGED <<cells, count, indexed, phase, todo>>
  BY DEF Delete, Ready
<1>3. PagesKept'
  BY <1>2, KeptParts DEF PagesKept
<1>4. IndexKept'
  BY <1>1, <1>2, LikeLaws, DroppedKept
<1>5. t1 \in Tables /\ Table' = t1 /\ \A j \in Slot \ {i} : t1[j] = Table[j]
  <2>1. Table' = [j \in Slot |-> IF j \in live \ {i} THEN cells[j] ELSE Absent]
    BY <1>2 DEF Table
  <2>2. t1 \in Tables /\ DOMAIN t1 = Slot
    BY <1>1, KeptParts DEF Tables
  <2>3. \A j \in Slot : t1[j] = Table'[j]
    BY <1>1, <2>1, KeptParts DEF Tables
  <2>. QED BY <1>1, <2>1, <2>2, <2>3, KeptParts DEF Tables
<1>. HIDE DEF t1
<1>6. ChainedAlike' /\ UndoKept'
  BY <1>1, <1>2, <1>5, RecordedAlike
<1>. QED BY <1>3, <1>4, <1>6 DEF Kept

\* An index is built from the rows that a scan yields.
LEMMA IndexingKept == ASSUME Kept, CreateIndex \/ DropIndex, TypeOK' PROVE Kept'
<1>1. /\ UNCHANGED <<cells, live, count, phase, todo, undo, hist>> /\ phase \in {"open", "tx"}
      /\ indexed' => hash' = HashBuilt(cells, Visible)
  BY DEF CreateIndex, DropIndex, Ready, store
<1>2. Table' = Table
  BY <1>1 DEF Table
<1>3. IndexKept'
  <2> SUFFICES ASSUME indexed' PROVE IndexKept'
    BY DEF IndexKept
  <2>1. \A v \in Val : hash'[v] = {i \in Visible : cells[i].v = v}
    BY <1>1 DEF HashBuilt
  <2>2. \A i \in live : cells[i].v \in Val
    BY KeptParts, RowFields
  <2>. QED BY <1>1, <2>1, <2>2, KeptParts DEF IndexKept, Visible, VisibleIn
<1>4. PagesKept' /\ UndoKept' /\ ChainedAlike'
  BY <1>1, <1>2, KeptParts DEF PagesKept, UndoKept, ChainedAlike
<1>. QED BY <1>3, <1>4 DEF Kept

-----------------------------------------------------------------------------
(* Transactions.                                                           *)

\* begin, commit, abort and close.
LEMMA PhaseKept == ASSUME Kept, Begin \/ Commit \/ Abort \/ Close, TypeOK' PROVE Kept'
<1>1. UNCHANGED <<cells, live, count, indexed, hash, todo>> /\ todo = <<>>
  BY DEF Begin, Commit, Abort, Close, Ready, store, maps
<1>2. Table' = Table
  BY <1>1 DEF Table
<1>3. phase' # "closed" /\ PagesKept' /\ IndexKept'
  BY <1>1, KeptParts DEF PagesKept, IndexKept, Begin, Commit, EndTx, Abort, Close
<1>4. CASE Begin
  <2>1. undo' = <<>> /\ hist' = <<Table>>
    BY <1>4 DEF Begin
  <2>2. Len(undo') = 0 /\ Len(hist') = 1 /\ hist'[1] = Table /\ hist' # <<>>
    BY <2>1
  <2>. QED BY <1>2, <1>3, <2>2, LikeLaws DEF Kept, UndoKept, ChainedAlike
<1>5. CASE Commit
  <2>1. undo' = <<>> /\ hist' = <<>> /\ phase' = "open"
    BY <1>5 DEF Commit, EndTx
  <2>2. Len(undo') = 0
    BY <2>1
  <2>. QED BY <1>3, <2>1, <2>2 DEF Kept, UndoKept, ChainedAlike
<1>6. CASE Abort \/ Close
  <2>1. UNCHANGED <<undo, hist>> /\ (hist = <<>> => phase' \in {"open", "closed", "closing"})
    BY <1>6, KeptParts DEF Abort, Close, InTx, ChainedAlike
  <2>. QED BY <1>1, <1>2, <1>3, <2>1, KeptParts DEF Kept, UndoKept, ChainedAlike
<1>. QED BY <1>4, <1>5, <1>6

\* The latest record leads from the current table to one like the table before
\* it.
LEMMA LatestAlike ==
  ASSUME Kept, undo # <<>>
  PROVE  /\ Len(undo) \in Nat \ {0} /\ hist # <<>> /\ Len(hist) = Len(undo) + 1
         /\ Latest \in UndoRecord /\ Latest.row \in Encodable /\ InSlabs(count, Latest.idx)
         /\ Latest.op = "delete" => Latest.idx \notin live
         /\ \A j \in Slot \ {Latest.idx} : Like(hist[Len(undo)][j], Table[j])
         /\ IF Latest.op = "insert"
            THEN BlankRow(hist[Len(undo)][Latest.idx]) /\ Like(Latest.row, Table[Latest.idx])
            ELSE Like(hist[Len(undo)][Latest.idx], Latest.row)
<1>1. Len(undo) \in Nat \ {0} /\ Len(undo) \in 1..Len(undo)
  BY KeptParts, EmptySeq
<1>2. hist # <<>> /\ Len(hist) = Len(undo) + 1 /\ \A j \in Slot : Like(hist[Len(undo) + 1][j], Table[j])
  <2>1. hist # <<>>
    BY KeptParts DEF ChainedAlike
  <2>. QED BY <2>1, KeptParts DEF ChainedAlike
<1>3. DidAlike(Latest, hist[Len(undo)], hist[Len(undo) + 1])
  BY <1>1, KeptParts DEF ChainedAlike, Latest
<1>4. /\ Latest \in UndoRecord /\ Latest.row \in Encodable /\ InSlabs(count, Latest.idx)
      /\ Latest.op = "delete" => Latest.idx \notin live
  BY <1>1, KeptParts DEF UndoKept, Latest
<1>5. Latest.idx \in Slot
  BY <1>4 DEF UndoRecord
<1>6. \A j \in Slot \ {Latest.idx} : Like(hist[Len(undo)][j], Table[j])
  BY <1>2, <1>3, LikeLaws DEF DidAlike
<1>7. IF Latest.op = "insert"
      THEN BlankRow(hist[Len(undo)][Latest.idx]) /\ Like(Latest.row, Table[Latest.idx])
      ELSE Like(hist[Len(undo)][Latest.idx], Latest.row)
  <2>1. Like(hist[Len(undo) + 1][Latest.idx], Table[Latest.idx])
    BY <1>2, <1>5
  <2>. QED BY <1>3, <2>1 DEF DidAlike
<1>. QED BY <1>1, <1>2, <1>4, <1>6, <1>7

\* The latest record is applied and dropped.
LEMMA ShortenedKept ==
  ASSUME Kept, undo # <<>>, Shortened, count' = count, phase' = phase,
         \A j \in Slot \ {Latest.idx} : Table'[j] = Table[j],
         Like(hist[Len(undo)][Latest.idx], Table'[Latest.idx]),
         live' \in SUBSET (live \cup IF Latest.op = "delete" THEN {Latest.idx} ELSE {})
  PROVE  UndoKept' /\ ChainedAlike'
<1>. DEFINE n == Len(undo)
<1>1. n \in Nat \ {0} /\ Len(hist) = n + 1 /\ undo \in Seq(UndoRecord) /\ hist \in Seq(Tables) /\ Latest = undo[n]
  BY LatestAlike, KeptParts DEF Latest
<1>2. undo' = SubSeq(undo, 1, n - 1) /\ hist' = SubSeq(hist, 1, n)
  BY <1>1 DEF Shortened
<1>3. /\ Len(undo') = n - 1 /\ \A m \in 1..n - 1 : undo'[m] = undo[m]
      /\ Len(hist') = n /\ \A m \in 1..n : hist'[m] = hist[m]
  <2>. HIDE DEF n
  <2>1. n - 1 \in 0..n /\ n \in 0..n + 1 /\ n = Len(undo)
    BY <1>1 DEF n
  <2>2. Len(undo') = n - 1 /\ \A m \in 1..n - 1 : undo'[m] = undo[m]
    BY <1>1, <1>2, <2>1, Cut
  <2>3. Len(hist') = n /\ \A m \in 1..n : hist'[m] = hist[m]
    BY <1>1, <1>2, <2>1, Cut
  <2>. QED BY <2>2, <2>3
<1>4. ChainedAlike'
  <2>1. hist' # <<>> /\ hist'[n] = hist[n] /\ Len(hist') = Len(undo') + 1
    BY <1>1, <1>3
  <2>2. \A j \in Slot : Like(hist[n][j], Table'[j])
    BY LatestAlike
  <2>3. ASSUME NEW m \in 1..Len(undo') PROVE DidAlike(undo'[m], hist'[m], hist'[m + 1])
    <3>1. m \in 1..n /\ m \in 1..n - 1 /\ m + 1 \in 1..n
      BY <1>1, <1>3
    <3>. QED BY <1>3, <3>1, KeptParts DEF ChainedAlike
  <2>. QED BY <1>1, <1>3, <2>1, <2>2, <2>3 DEF ChainedAlike
<1>5. \A m \in 1..n - 1 : m \in 1..n /\ m # n
  BY <1>1
<1>6. \A m \in 1..n - 1 : undo[m].op = "delete" => undo[m].idx \notin live'
  <2> SUFFICES ASSUME NEW m \in 1..n - 1, undo[m].op = "delete" PROVE undo[m].idx \notin live'
    OBVIOUS
  <2>1. undo[m].idx \notin live
    BY <1>5, KeptParts DEF UndoKept
  <2>2. Latest.op = "delete" => undo[m].idx # Latest.idx
    BY <1>1, <1>5, KeptParts, SMTT(60) DEF UndoKept
  <2>. QED BY <2>1, <2>2
<1>7. UndoKept'
  BY <1>3, <1>5, <1>6, KeptParts DEF UndoKept
<1>. QED BY <1>4, <1>7

\* The undo of an insert.
LEMMA UndoInsertKept == ASSUME Kept, UndoInsert, TypeOK' PROVE Kept'
<1>. DEFINE i == Latest.idx
            r == Latest.row
<1>1. /\ undo # <<>> /\ Latest.op = "insert" /\ Shortened
      /\ live' = live \ {i} /\ hash' = HashDrop(hash, i, r.v)
      /\ UNCHANGED <<cells, count, indexed, phase, todo>>
  BY DEF UndoInsert
<1>2. i \in Slot /\ r \in Row
  BY <1>1, LatestType, KeptParts
<1>3. BlankRow(hist[Len(undo)][i]) /\ Like(r, Table[i])
  BY <1>1, LatestAlike
<1>4. i \in live => Like(cells[i], r) /\ cells[i] # Absent
  BY <1>2, <1>3, KeptParts, LikeLaws, RowFields
<1>5. IndexKept'
  BY <1>1, <1>2, <1>4, DroppedKept
<1>6. Table'[i] = Absent /\ \A j \in Slot \ {i} : Table'[j] = Table[j]
  BY <1>1, <1>2 DEF Table
<1>7. UndoKept' /\ ChainedAlike'
  BY <1>1, <1>3, <1>6, ShortenedKept DEF Like, BlankRow
<1>8. PagesKept'
  BY <1>1, KeptParts DEF PagesKept
<1>. QED BY <1>5, <1>7, <1>8 DEF Kept

\* The undo of an update.
LEMMA UndoUpdateKept == ASSUME Lossless, Kept, UndoUpdate, TypeOK' PROVE Kept'
<1>. DEFINE i == Latest.idx
            r == Latest.row
<1>1. /\ undo # <<>> /\ Latest.op = "update" /\ Shortened
      /\ cells' = [cells EXCEPT ![i] = Stored[r]] /\ hash' = HashMoved(i, cells[i], r)
      /\ i \in live
      /\ UNCHANGED <<live, count, indexed, phase, todo>>
  BY DEF UndoUpdate, RestoreCell, UndoUpdateRaises
<1>2. i \in Slot /\ r \in Row /\ r \in Encodable /\ InSlabs(count, i) /\ Stored[r] = r
  BY <1>1, LatestType, LatestAlike, KeptParts DEF Lossless
<1>3. IndexKept'
  BY <1>1, <1>2, MovedKept
<1>4. Table'[i] = r /\ \A j \in Slot \ {i} : Table'[j] = Table[j]
  BY <1>1, <1>2, KeptParts DEF Table
<1>5. UndoKept' /\ ChainedAlike'
  BY <1>1, <1>4, LatestAlike, ShortenedKept
<1>6. PagesKept'
  BY <1>1, <1>2, KeptParts DEF PagesKept
<1>. QED BY <1>3, <1>5, <1>6 DEF Kept

\* The undo of an update that raises: the records before it are forgotten.
LEMMA UndoUpdateFailsKept == ASSUME Lossless, Kept, UndoUpdateFails, TypeOK' PROVE Kept'
<1>. DEFINE i == Latest.idx
            r == Latest.row
<1>1. /\ undo # <<>> /\ undo' = <<>> /\ hist' = <<>> /\ phase' = "open"
      /\ i \in live => cells' = [cells EXCEPT ![i] = Stored[r]] /\ hash' = HashMoved(i, cells[i], r)
      /\ i \notin live => UNCHANGED <<cells, hash>>
      /\ UNCHANGED <<live, count, indexed, todo>>
  BY DEF UndoUpdateFails, RestoreCell, EndTx
<1>2. i \in Slot /\ r \in Row /\ r \in Encodable /\ InSlabs(count, i) /\ Stored[r] = r
  BY <1>1, LatestType, LatestAlike, KeptParts DEF Lossless
<1>3. IndexKept'
  <2>1. CASE i \in live
    BY <1>1, <1>2, <2>1, MovedKept
  <2>2. CASE i \notin live
    BY <1>1, <2>2, KeptParts, IndexUntouched
  <2>. QED BY <2>1, <2>2
<1>4. Len(undo') = 0
  BY <1>1
<1>5. PagesKept'
  BY <1>1, <1>2, KeptParts DEF PagesKept
<1>. QED BY <1>1, <1>3, <1>4, <1>5 DEF Kept, UndoKept, ChainedAlike

\* The undo of a delete: the row comes back in place.
LEMMA UndoDeleteKept == ASSUME Lossless, Kept, UndoDelete, TypeOK' PROVE Kept'
<1>. DEFINE i == Latest.idx
            r == Latest.row
<1>1. /\ undo # <<>> /\ Latest.op = "delete" /\ Shortened
      /\ cells' = [cells EXCEPT ![i] = Stored[r]] /\ live' = live \cup {i}
      /\ hash' = HashAdd(hash, i, r.v)
      /\ UNCHANGED <<count, indexed, phase, todo>>
  BY DEF UndoDelete, RestoreCell
<1>2. i \in Slot /\ r \in Row /\ r \in Encodable /\ InSlabs(count, i) /\ Stored[r] = r /\ i \notin live
  BY <1>1, LatestType, LatestAlike, KeptParts DEF Lossless
<1>3. \A j \in Slot : cells'[j] = IF j = i THEN r ELSE cells[j]
  BY <1>1, <1>2, KeptParts
<1>4. IndexKept'
  <2> SUFFICES ASSUME indexed PROVE IndexKept'
    BY <1>1 DEF IndexKept
  <2>1. \A v \in Val : hash'[v] = IF v = r.v THEN hash[v] \cup {i} ELSE hash[v]
    BY <1>1, KeptParts, RowFields DEF HashAdd
  <2>2. \A v \in Val : \A j \in hash[v] : j \in live /\ InSlabs(count, j) /\ cells[j].v = v /\ j \in Slot
    BY KeptParts DEF IndexKept
  <2>3. \A j \in live : InSlabs(count, j) => j \in hash[cells[j].v] \/ FromFailure(cells[j])
    BY KeptParts DEF IndexKept
  <2>4. ASSUME NEW v \in Val, NEW j \in hash'[v]
        PROVE  j \in live' /\ InSlabs(count, j) /\ cells'[j].v = v
    <3>1. CASE j = i
      <4>1. v = r.v
        BY <1>2, <2>1, <2>2, <2>4, <3>1
      <4>. QED BY <1>1, <1>2, <1>3, <3>1, <4>1
    <3>2. CASE j # i
      <4>1. j \in hash[v]
        BY <2>1, <2>4, <3>2
      <4>. QED BY <1>1, <1>3, <2>2, <3>2, <4>1
    <3>. QED BY <3>1, <3>2
  <2>5. ASSUME NEW j \in live', InSlabs(count, j)
        PROVE  j \in hash'[cells'[j].v] \/ FromFailure(cells'[j])
    <3>1. CASE j = i
      BY <1>2, <1>3, <2>1, <3>1, RowFields
    <3>2. CASE j # i
      <4>1. j \in live /\ j \in Slot /\ cells'[j] = cells[j] /\ cells[j].v \in Val
        BY <1>1, <1>3, <3>2, KeptParts, RowFields
      <4>. QED BY <2>1, <2>3, <2>5, <4>1
    <3>. QED BY <3>1, <3>2
  <2>. QED BY <1>1, <2>4, <2>5 DEF IndexKept, InSlabs
<1>5. Table'[i] = r /\ \A j \in Slot \ {i} : Table'[j] = Table[j]
  BY <1>1, <1>2, <1>3 DEF Table
<1>6. UndoKept' /\ ChainedAlike'
  BY <1>1, <1>5, LatestAlike, ShortenedKept
<1>7. PagesKept'
  BY <1>1, <1>2, <1>3, KeptParts DEF PagesKept
<1>. QED BY <1>4, <1>6, <1>7 DEF Kept

\* The end of a rollback, and of a close.
LEMMA UndoDoneKept == ASSUME Kept, UndoDone, TypeOK' PROVE Kept'
<1>1. /\ undo = <<>> /\ undo' = <<>> /\ hist' = <<>> /\ phase' \in {"open", "closed"}
      /\ phase' = "open" => UNCHANGED <<indexed, hash>>
      /\ phase' = "closed" => ~indexed'
      /\ UNCHANGED <<cells, live, count, todo>>
      /\ phase \notin {"open", "tx"}
  BY DEF UndoDone, RollingBack, store, maps
<1>2. Len(undo') = 0 /\ todo = <<>>
  BY <1>1, KeptParts DEF PagesKept
<1>3. IndexKept' /\ PagesKept'
  BY <1>1, <1>2, KeptParts DEF IndexKept, PagesKept
<1>. QED BY <1>1, <1>2, <1>3 DEF Kept, UndoKept, ChainedAlike

-----------------------------------------------------------------------------
(* Rows placed by insert and by a chunk of a batch.                        *)

\* What a table shows after rows were placed in it.
LEMMA FilledStored ==
  ASSUME NEW t \in Tables, NEW cnt \in Seq(0..RowsPerSlab), NEW s \in 1..Len(cnt),
         NEW rs \in Seq(Row), cnt[s] + Len(rs) <= RowsPerSlab, Len(cnt) <= MaxSlabs,
         \A j \in 1..Len(rs) : Stored[rs[j]] = rs[j], NEW i \in Slot
  PROVE  Filled(t, cnt, s, rs)[i] =
           IF i \in Fresh(cnt, s, Len(rs)) THEN rs[Position(cnt, s, i)] ELSE t[i]
<1>1. Len(rs) \in Nat
  OBVIOUS
<1>2. i \in Fresh(cnt, s, Len(rs)) => Position(cnt, s, i) \in 1..Len(rs)
  BY <1>1, FreshPositions
<1>3. i \in Fresh(cnt, s, Len(rs)) <=> i[1] = s /\ i[2] \in cnt[s] .. cnt[s] + Len(rs) - 1
  BY DEF Fresh
<1>4. Filled(t, cnt, s, rs)[i] = IF i \in Fresh(cnt, s, Len(rs)) THEN Stored[rs[Position(cnt, s, i)]] ELSE t[i]
  BY <1>3 DEF Filled, Position
<1>. QED BY <1>2, <1>4

\* What an insert's first rows and the slots they go to have to do with each other.
LEMMA PrefixAt ==
  ASSUME NEW t \in Tables, NEW cnt \in Seq(0..RowsPerSlab), NEW s \in 1..Len(cnt),
         NEW rs \in Seq(Row), cnt[s] + Len(rs) <= RowsPerSlab, Len(cnt) <= MaxSlabs,
         \A j \in 1..Len(rs) : Stored[rs[j]] = rs[j],
         NEW j \in 0..Len(rs), NEW i \in Slot
  PROVE  Filled(t, cnt, s, SubSeq(rs, 1, j))[i] =
           IF i \in Fresh(cnt, s, Len(rs)) /\ Position(cnt, s, i) <= j THEN rs[Position(cnt, s, i)] ELSE t[i]
<1>. DEFINE part == SubSeq(rs, 1, j)
            c == cnt[s]
            n == Len(rs)
            p == i[2]
<1>1. n \in Nat /\ c \in 0..RowsPerSlab /\ j \in 0..n /\ c + n <= RowsPerSlab
  BY ElementOfSeq, LenProperties
<1>2. p \in Nat
  BY SizeAssumption DEF Slot
<1>3. part \in Seq(Row) /\ Len(part) = j /\ \A m \in 1..j : part[m] = rs[m]
  OBVIOUS
<1>. HIDE DEF part
<1>4. i \in Fresh(cnt, s, j) <=> i[1] = s /\ c <= p /\ p <= c + j - 1
  BY <1>1, <1>2 DEF Fresh
<1>5. i \in Fresh(cnt, s, Len(rs)) <=> i[1] = s /\ c <= p /\ p <= c + n - 1
  BY <1>1, <1>2 DEF Fresh
<1>6. Position(cnt, s, i) = p - c + 1
  BY DEF Position
<1>. HIDE DEF c, n, p
<1>7. i \in Fresh(cnt, s, j) <=> i \in Fresh(cnt, s, Len(rs)) /\ Position(cnt, s, i) <= j
  BY <1>1, <1>2, <1>4, <1>5, <1>6
<1>8. cnt[s] + Len(part) <= RowsPerSlab
  BY <1>1, <1>3, SizeAssumption DEF c
<1>9. \A m \in 1..Len(part) : Stored[part[m]] = part[m]
  BY <1>1, <1>3 DEF n
<1>10. Filled(t, cnt, s, part)[i] = IF i \in Fresh(cnt, s, j) THEN part[Position(cnt, s, i)] ELSE t[i]
  BY <1>3, <1>8, <1>9, FilledStored
<1>11. i \in Fresh(cnt, s, j) => Position(cnt, s, i) \in 1..j
  BY <1>1, <1>2, <1>4, <1>6, SizeAssumption, SMTT(60)
<1>. QED BY <1>3, <1>7, <1>10, <1>11 DEF part

\* A record leads from any table like the one before it.
LEMMA DidFrom ==
  ASSUME NEW e \in UndoRecord, NEW before, NEW after, NEW other,
         DidAlike(e, before, after), \A i \in Slot : Like(other[i], before[i])
  PROVE  DidAlike(e, other, after)
<1>1. e.idx \in Slot
  BY DEF UndoRecord
<1>2. \A i \in Slot \ {e.idx} : Like(other[i], after[i])
  BY LikeLaws DEF DidAlike
<1>3. Like(other[e.idx], before[e.idx])
  BY <1>1
<1>4. BlankRow(before[e.idx]) => BlankRow(other[e.idx])
  BY <1>3 DEF Like
<1>5. Like(before[e.idx], e.row) => Like(other[e.idx], e.row)
  BY <1>3, LikeLaws
<1>. QED BY <1>2, <1>4, <1>5 DEF DidAlike

\* Records and tables added at the end, one table after each record.
LEMMA AlikeExtended ==
  ASSUME Kept, hist # <<>>,
         NEW recs \in Seq(UndoRecord), NEW tables \in Seq(Tables), Len(recs) = Len(tables),
         undo' = undo \o recs, hist' = hist \o tables,
         \A n \in 1..Len(recs) : DidAlike(recs[n], IF n = 1 THEN Table ELSE tables[n - 1], tables[n]),
         \A i \in Slot : Like((IF recs = <<>> THEN Table ELSE tables[Len(tables)])[i], Table'[i])
  PROVE  ChainedAlike'
<1>1. /\ undo \in Seq(UndoRecord) /\ hist \in Seq(Tables) /\ Len(undo) \in Nat /\ Len(recs) \in Nat
      /\ Len(hist) = Len(undo) + 1 /\ \A i \in Slot : Like(hist[Len(hist)][i], Table[i])
  BY KeptParts DEF ChainedAlike
<1>2. /\ Len(undo') = Len(undo) + Len(recs)
      /\ \A n \in 1..Len(undo') : undo'[n] = IF n <= Len(undo) THEN undo[n] ELSE recs[n - Len(undo)]
  BY <1>1, Joined
<1>3. /\ Len(hist') = Len(undo) + 1 + Len(recs)
      /\ \A n \in 1..Len(hist') : hist'[n] = IF n <= Len(hist) THEN hist[n] ELSE tables[n - Len(hist)]
  BY <1>1, Joined
<1>4. \A i \in Slot : Like(hist'[Len(hist')][i], Table'[i])
  <2>1. CASE recs = <<>>
    <3>1. Len(recs) = 0 /\ hist'[Len(hist')] = hist[Len(hist)]
      BY <1>1, <1>3, <2>1
    <3>. QED BY <1>1, <2>1, <3>1, LikeLaws
  <2>2. CASE recs # <<>>
    <3>1. Len(recs) \in Nat \ {0}
      BY <1>1, <2>2, EmptySeq
    <3>2. hist'[Len(hist')] = tables[Len(tables)]
      BY <1>1, <1>3, <3>1
    <3>. QED BY <2>2, <3>2
  <2>. QED BY <2>1, <2>2
<1>5. ASSUME NEW n \in 1..Len(undo') PROVE DidAlike(undo'[n], hist'[n], hist'[n + 1])
  <2>1. CASE n <= Len(undo)
    <3>1. undo'[n] = undo[n] /\ hist'[n] = hist[n] /\ hist'[n + 1] = hist[n + 1] /\ n \in 1..Len(undo)
      BY <1>1, <1>2, <1>3, <2>1
    <3>. QED BY <3>1, KeptParts DEF ChainedAlike
  <2>2. CASE n > Len(undo)
    <3>. DEFINE m == n - Len(undo)
    <3>1. m \in 1..Len(recs) /\ undo'[n] = recs[m] /\ hist'[n + 1] = tables[m]
      BY <1>1, <1>2, <1>3, <2>2
    <3>2. DidAlike(recs[m], IF m = 1 THEN Table ELSE tables[m - 1], tables[m])
      BY <3>1
    <3>3. CASE m = 1
      <4>1. hist'[n] = hist[Len(hist)]
        BY <1>1, <1>2, <1>3, <3>1, <3>3
      <4>2. recs[m] \in UndoRecord
        BY <3>1, ElementOfSeq
      <4>3. DidAlike(recs[m], Table, tables[m])
        BY <3>2, <3>3
      <4>4. DidAlike(recs[m], hist[Len(hist)], tables[m])
        <5>. HIDE DEF m
        <5>. QED BY <1>1, <4>2, <4>3, DidFrom
      <4>. QED BY <3>1, <4>1, <4>4
    <3>4. CASE m # 1
      <4>1. hist'[n] = tables[m - 1]
        <5>1. n \in 1..Len(hist') /\ ~(n <= Len(hist)) /\ n - Len(hist) = m - 1
          BY <1>1, <1>2, <1>3, <2>2, <3>4
        <5>. QED BY <1>3, <5>1
      <4>. QED BY <3>1, <3>2, <3>4, <4>1
    <3>. QED BY <3>3, <3>4
  <2>. QED BY <1>1, <1>2, <2>1, <2>2
<1>6. hist' # <<>> /\ Len(hist') = Len(undo') + 1
  BY <1>1, <1>2, <1>3
<1>. QED BY <1>4, <1>5, <1>6 DEF ChainedAlike

\* Rows placed above the mark of a slab.
LEMMA PlaceKept ==
  ASSUME Lossless, Kept, phase \in {"open", "tx"},
         NEW cnt \in Seq(0..RowsPerSlab), Len(cnt) \in Len(count)..MaxSlabs,
         \A i \in Slot : InSlabs(count, i) <=> InSlabs(cnt, i),
         NEW s \in 1..Len(cnt), NEW rs \in Seq(Encodable), cnt[s] + Len(rs) <= RowsPerSlab,
         Place(cnt, s, rs), TypeOK'
  PROVE  Kept'
<1>. DEFINE at(j) == At(cnt, s, j)
            pos(i) == Position(cnt, s, i)
            fresh == Fresh(cnt, s, Len(rs))
            prefix(j) == Filled(Table, cnt, s, SubSeq(rs, 1, j))
<1>1. /\ Len(rs) \in Nat /\ Len(cnt) <= MaxSlabs /\ cnt[s] \in 0..RowsPerSlab /\ Len(cnt) \in Nat
      /\ \A j \in 1..Len(rs) : rs[j] \in Encodable
      /\ \A j \in 1..Len(rs) : rs[j] \in Row /\ rs[j].v \in Val /\ Stored[rs[j]] = rs[j]
  <2>1. Len(rs) \in Nat /\ Len(cnt) \in Nat /\ cnt[s] \in 0..RowsPerSlab
        /\ \A j \in 1..Len(rs) : rs[j] \in Encodable
    BY ElementOfSeq, LenProperties
  <2>2. Encodable \in SUBSET Row /\ Len(cnt) <= MaxSlabs
    BY <2>1, RowAssumption, SizeAssumption, KeptParts, LenType
  <2>. QED BY <2>1, <2>2, RowFields DEF Lossless
<1>2. rs \in Seq(Row)
  BY RowAssumption
<1>3. /\ cells' = Filled(cells, cnt, s, rs) /\ live' = live \cup fresh
      /\ count' = [cnt EXCEPT ![s] = @ + Len(rs)]
      /\ UNCHANGED <<indexed, phase>>
  BY DEF Place
<1>4. indexed => hash' = [v \in Val |-> hash[v] \cup {at(j) : j \in {n \in 1..Len(rs) : rs[n].v = v}}]
  BY DEF Place, At
<1>5. /\ \A j \in 1..Len(rs) : at(j) \in fresh /\ pos(at(j)) = j /\ ~InSlabs(cnt, at(j))
      /\ \A i \in fresh : i \in Slot /\ pos(i) \in 1..Len(rs) /\ at(pos(i)) = i
  BY <1>1, FreshPositions
<1>6. \A i \in Slot : cells'[i] = IF i \in fresh THEN rs[pos(i)] ELSE cells[i]
  <2>1. cells \in Tables /\ \A j \in 1..Len(rs) : Stored[rs[j]] = rs[j]
    BY <1>1, KeptParts DEF Tables
  <2>. QED BY <1>1, <1>2, <1>3, <2>1, FilledStored, SMTT(60)
<1>7. \A i \in Slot : Table'[i] = IF i \in fresh THEN rs[pos(i)] ELSE Table[i]
  BY <1>3, <1>6 DEF Table
<1>8. \A i \in fresh : ~InSlabs(count, i) /\ BlankRow(Table[i])
  <2>1. \A i \in fresh : i \in Slot /\ ~InSlabs(count, i)
    BY <1>5
  <2>. QED BY <2>1, KeptParts DEF PagesKept, BlankRow, FromFailure
<1>9. /\ \A i \in fresh : InSlabs(count', i)
      /\ \A i \in Slot : InSlabs(count, i) => InSlabs(count', i)
      /\ \A i \in Slot : InSlabs(count', i) => i \in fresh \/ InSlabs(count, i)
  <2>. DEFINE c == cnt[s]
              n == Len(rs)
  <2>1. /\ Len(count') = Len(cnt) /\ count'[s] = c + n
        /\ \A m \in 1..Len(cnt) : m # s => count'[m] = cnt[m]
    BY <1>3
  <2>2. c \in Nat /\ n \in Nat
    BY <1>1
  <2>3. ASSUME NEW i \in Slot, i[1] <= Len(cnt)
        PROVE  /\ i[1] \in 1..Len(cnt) /\ i[2] \in Nat
               /\ i \in fresh <=> i[1] = s /\ c <= i[2] /\ i[2] <= c + n - 1
    <3>1. i[1] \in 1..Len(cnt) /\ i[2] \in Nat
      BY <1>1, <2>3, SizeAssumption DEF Slot
    <3>. QED BY <2>2, <3>1 DEF Fresh
  <2>4. \A i \in fresh : i \in Slot /\ i[1] <= Len(cnt)
    BY <1>1 DEF Fresh
  <2>. HIDE DEF fresh, c, n
  <2>5. \A i \in fresh : InSlabs(count', i)
    BY <2>1, <2>2, <2>3, <2>4 DEF InSlabs
  <2>6. ASSUME NEW i \in Slot, InSlabs(cnt, i) PROVE InSlabs(count', i)
    <3>1. i[1] \in 1..Len(cnt) /\ i[2] \in Nat /\ i[2] < cnt[i[1]]
      BY <2>3, <2>6 DEF InSlabs
    <3>2. CASE i[1] = s
      BY <2>1, <2>2, <3>1, <3>2 DEF InSlabs, c
    <3>3. CASE i[1] # s
      BY <2>1, <3>1, <3>3 DEF InSlabs
    <3>. QED BY <3>2, <3>3
  <2>7. ASSUME NEW i \in Slot, InSlabs(count', i), i \notin fresh PROVE InSlabs(cnt, i)
    <3>1. i[1] \in 1..Len(cnt) /\ i[2] \in Nat /\ i[2] < count'[i[1]]
      BY <2>1, <2>3, <2>7 DEF InSlabs
    <3>2. CASE i[1] = s
      BY <2>1, <2>2, <2>3, <2>7, <3>1, <3>2 DEF InSlabs, c
    <3>3. CASE i[1] # s
      BY <2>1, <3>1, <3>3 DEF InSlabs
    <3>. QED BY <3>2, <3>3
  <2>. QED BY <2>5, <2>6, <2>7
<1>. HIDE DEF at, pos, fresh
<1>10. PagesKept'
  <2>1. \A i \in Slot : cells'[i] \in Encodable
    BY <1>1, <1>5, <1>6, KeptParts DEF PagesKept
  <2>2. \A i \in Slot : ~InSlabs(count', i) => cells'[i] = ZeroRow
    BY <1>6, <1>9, KeptParts DEF PagesKept
  <2>3. phase' \in {"open", "tx"}
    BY <1>3
  <2>. QED BY <2>1, <2>2, <2>3 DEF PagesKept
<1>11. IndexKept'
  <2> SUFFICES ASSUME indexed PROVE IndexKept'
    BY <1>3 DEF IndexKept
  <2>1. \A v \in Val : \A i \in hash[v] : i \in live /\ InSlabs(count, i) /\ cells[i].v = v /\ i \in Slot
    BY KeptParts DEF IndexKept
  <2>2. \A i \in live : InSlabs(count, i) => i \in hash[cells[i].v] \/ FromFailure(cells[i])
    BY KeptParts DEF IndexKept
  <2>3. \A v \in Val : \A i : i \in hash'[v] <=> i \in hash[v] \/ \E j \in 1..Len(rs) : rs[j].v = v /\ i = at(j)
    BY <1>4
  <2>4. ASSUME NEW v \in Val, NEW i \in hash'[v]
        PROVE  i \in live' /\ InSlabs(count', i) /\ cells'[i].v = v
    <3>1. CASE i \in hash[v]
      BY <1>3, <1>6, <1>8, <1>9, <2>1, <3>1
    <3>2. CASE \E j \in 1..Len(rs) : rs[j].v = v /\ i = at(j)
      BY <1>3, <1>5, <1>6, <1>9, <3>2
    <3>. QED BY <2>3, <2>4, <3>1, <3>2
  <2>5. ASSUME NEW i \in live', InSlabs(count', i)
        PROVE  i \in hash'[cells'[i].v] \/ FromFailure(cells'[i])
    <3>1. CASE i \in fresh
      <4>1. pos(i) \in 1..Len(rs) /\ at(pos(i)) = i /\ cells'[i] = rs[pos(i)] /\ rs[pos(i)].v \in Val
        BY <1>1, <1>5, <1>6, <3>1
      <4>. QED BY <2>3, <4>1
    <3>2. CASE i \notin fresh
      <4>1. i \in live /\ i \in Slot /\ cells'[i] = cells[i] /\ InSlabs(count, i) /\ cells[i].v \in Val
        BY <1>3, <1>6, <1>9, <2>5, <3>2, KeptParts, RowFields
      <4>. QED BY <2>2, <2>3, <4>1
    <3>. QED BY <3>1, <3>2
  <2>. QED BY <2>4, <2>5 DEF IndexKept
<1>12. ASSUME ~InTx PROVE UndoKept' /\ ChainedAlike'
  <2>1. phase = "open" /\ undo = <<>> /\ hist = <<>> /\ UNCHANGED <<undo, hist, phase>>
    BY <1>12, KeptParts DEF Place, InTx, TypeOK
  <2>2. Len(undo) = 0
    BY <2>1
  <2>. QED BY <2>1, <2>2 DEF UndoKept, ChainedAlike
<1>13. ASSUME InTx PROVE UndoKept' /\ ChainedAlike'
  <2>. DEFINE recs == [j \in 1..Len(rs) |-> [op |-> "insert", idx |-> at(j), row |-> rs[j]]]
              tables == [j \in 1..Len(rs) |-> prefix(j)]
  <2>1. undo' = undo \o recs /\ hist' = hist \o tables
    BY <1>13 DEF Place, at, At
  <2>2. \A j \in 0..Len(rs) : \A i \in Slot :
          prefix(j)[i] = IF i \in fresh /\ pos(i) <= j THEN rs[pos(i)] ELSE Table[i]
    <3>1. Table \in Tables /\ cnt[s] + Len(rs) <= RowsPerSlab /\ Len(cnt) <= MaxSlabs
      BY <1>1, KeptParts
    <3>2. \A j \in 1..Len(rs) : Stored[rs[j]] = rs[j]
      BY <1>1
    <3> HIDE DEF prefix, fresh, pos
    <3>3. ASSUME NEW j \in 0..Len(rs), NEW i \in Slot
          PROVE  Filled(Table, cnt, s, SubSeq(rs, 1, j))[i] =
                   IF i \in Fresh(cnt, s, Len(rs)) /\ Position(cnt, s, i) <= j
                   THEN rs[Position(cnt, s, i)] ELSE Table[i]
      BY <1>2, <3>1, <3>2, PrefixAt
    <3>. QED BY <3>3 DEF prefix, fresh, pos
  <2>3. \A j \in 0..Len(rs) : prefix(j) \in Tables
    <3> SUFFICES ASSUME NEW j \in 0..Len(rs) PROVE prefix(j) \in Tables
      OBVIOUS
    <3>1. \A i \in Slot : prefix(j)[i] \in Row \cup {Absent}
      BY <1>1, <1>5, <2>2, KeptParts, SMTT(60) DEF Tables
    <3>2. prefix(j) = [i \in Slot |-> prefix(j)[i]]
      BY DEF Filled
    <3>. HIDE DEF prefix
    <3>. QED BY <3>1, <3>2 DEF Tables
  <2>. HIDE DEF prefix
  <2>4. /\ recs \in Seq(UndoRecord) /\ tables \in Seq(Tables)
        /\ Len(recs) = Len(rs) /\ Len(tables) = Len(rs)
    BY <1>1, <1>5, <2>3 DEF UndoRecord
  <2>5. \A n \in 1..Len(rs) : recs[n].idx = at(n) /\ recs[n].op = "insert" /\ recs[n].row = rs[n]
    OBVIOUS
  <2>6. \A n \in 1..Len(rs) : tables[n] = prefix(n)
    OBVIOUS
  <2>. HIDE DEF recs, tables
  <2>7. ASSUME NEW n \in 1..Len(rs)
        PROVE  DidAlike(recs[n], IF n = 1 THEN Table ELSE tables[n - 1], tables[n])
    <3>. DEFINE before == IF n = 1 THEN Table ELSE tables[n - 1]
    <3>1. \A i \in Slot : before[i] = IF i \in fresh /\ pos(i) <= n - 1 THEN rs[pos(i)] ELSE Table[i]
      <4>1. CASE n = 1
        BY <1>1, <1>5, <4>1
      <4>2. CASE n # 1
        <5>1. n - 1 \in 1..Len(rs) /\ n - 1 \in 0..Len(rs)
          BY <1>1, <4>2
        <5>2. before = prefix(n - 1)
          BY <2>6, <4>2, <5>1
        <5>. HIDE DEF before
        <5>. QED BY <2>2, <5>1, <5>2
      <4>. QED BY <4>1, <4>2
    <3>. HIDE DEF before
    <3>2. \A i \in Slot : tables[n][i] = IF i \in fresh /\ pos(i) <= n THEN rs[pos(i)] ELSE Table[i]
      BY <1>1, <2>2, <2>6
    <3>3. \A i \in Slot \ {at(n)} : before[i] = tables[n][i]
      BY <1>1, <1>5, <3>1, <3>2
    <3>4. at(n) \in fresh /\ at(n) \in Slot /\ pos(at(n)) = n
      BY <1>5
    <3>5. BlankRow(before[at(n)])
      BY <1>1, <1>8, <3>1, <3>4
    <3>6. tables[n][at(n)] = rs[n]
      BY <1>1, <3>2, <3>4
    <3>7. DidAlike(recs[n], before, tables[n])
      BY <2>5, <3>3, <3>5, <3>6, LikeLaws DEF DidAlike
    <3>. QED BY <3>7 DEF before
  <2>8. \A i \in Slot : (IF recs = <<>> THEN Table ELSE tables[Len(tables)])[i] = Table'[i]
    <3>1. CASE recs = <<>>
      <4>1. Len(rs) = 0
        BY <2>4, <3>1
      <4>2. \A i \in fresh : FALSE
        BY <1>5, <4>1
      <4>. QED BY <1>7, <3>1, <4>2
    <3>2. CASE recs # <<>>
      <4>1. Len(rs) \in 1..Len(rs) /\ Len(rs) \in 0..Len(rs)
        BY <1>1, <2>4, <3>2, EmptySeq
      <4>2. tables[Len(tables)] = prefix(Len(rs))
        BY <2>4, <2>6, <4>1
      <4>3. \A i \in Slot : prefix(Len(rs))[i] = IF i \in fresh THEN rs[pos(i)] ELSE Table[i]
        BY <1>1, <1>5, <2>2, <4>1
      <4>. QED BY <1>7, <3>2, <4>2, <4>3
    <3>. QED BY <3>1, <3>2
  <2>9. hist # <<>>
    BY <1>13, KeptParts DEF ChainedAlike, InTx
  <2>10. ChainedAlike'
    <3>1. \A n \in 1..Len(recs) : DidAlike(recs[n], IF n = 1 THEN Table ELSE tables[n - 1], tables[n])
      BY <2>4, <2>7
    <3>2. \A i \in Slot : Like((IF recs = <<>> THEN Table ELSE tables[Len(tables)])[i], Table'[i])
      BY <2>8, LikeLaws
    <3>3. Len(recs) = Len(tables)
      BY <2>4
    <3>. QED BY <2>1, <2>4, <2>9, <3>1, <3>2, <3>3, AlikeExtended
  <2>11. /\ Len(undo') = Len(undo) + Len(rs)
         /\ \A n \in 1..Len(undo') : undo'[n] = IF n <= Len(undo) THEN undo[n] ELSE recs[n - Len(undo)]
    <3>1. undo \in Seq(UndoRecord) /\ recs \in Seq(UndoRecord) /\ Len(recs) = Len(rs)
      BY <2>4, KeptParts
    <3>. QED BY <2>1, <3>1, Joined
  <2>12. \A n \in 1..Len(undo') :
           \/ n \in 1..Len(undo) /\ undo'[n] = undo[n]
           \/ n - Len(undo) \in 1..Len(rs) /\ undo'[n] = recs[n - Len(undo)]
    BY <1>1, <2>11, KeptParts
  <2>13. ASSUME NEW n \in 1..Len(undo') PROVE undo'[n].row \in Encodable /\ InSlabs(count', undo'[n].idx)
    <3>1. CASE n \in 1..Len(undo) /\ undo'[n] = undo[n]
      BY <1>9, <3>1, KeptParts DEF UndoKept, UndoRecord
    <3>2. CASE n - Len(undo) \in 1..Len(rs) /\ undo'[n] = recs[n - Len(undo)]
      <4>1. PICK m \in 1..Len(rs) : undo'[n] = recs[m]
        BY <3>2
      <4>2. undo'[n].idx = at(m) /\ undo'[n].row = rs[m] /\ at(m) \in fresh
        BY <1>5, <2>5, <4>1
      <4>. QED BY <1>1, <1>9, <4>2
    <3>. QED BY <2>12, <3>1, <3>2
  <2>14. \A n \in 1..Len(undo') : undo'[n].op = "delete" => n \in 1..Len(undo) /\ undo'[n] = undo[n]
    BY <2>5, <2>12
  <2>15. ASSUME NEW n \in 1..Len(undo'), undo'[n].op = "delete" PROVE undo'[n].idx \notin live'
    <3>1. undo[n].idx \notin live /\ InSlabs(count, undo[n].idx) /\ undo'[n] = undo[n]
      BY <2>14, <2>15, KeptParts DEF UndoKept
    <3>. QED BY <1>3, <1>8, <3>1
  <2>16. UndoKept'
    BY <2>13, <2>14, <2>15, KeptParts DEF UndoKept
  <2>. QED BY <2>10, <2>16
<1>. QED BY <1>10, <1>11, <1>12, <1>13 DEF Kept

\* insert.
LEMMA InsertKept == ASSUME Lossless, Kept, NEW r \in Row, Insert(r), TypeOK' PROVE Kept'
<1>1. /\ phase \in {"open", "tx"} /\ r \in Encodable
      /\ Len(Expanded) <= MaxSlabs /\ Place(Expanded, Len(Expanded), <<r>>)
  BY DEF Insert, Ready
<1>2. /\ Expanded \in Seq(0..RowsPerSlab) /\ Len(Expanded) \in Len(count)..MaxSlabs
      /\ Len(Expanded) \in 1..Len(Expanded) /\ Expanded[Len(Expanded)] < RowsPerSlab
      /\ \A i \in Slot : InSlabs(count, i) <=> InSlabs(Expanded, i)
  BY <1>1, KeptParts, ExpandedType, ExpandedSlabs
<1>3. <<r>> \in Seq(Encodable) /\ Len(<<r>>) = 1
  BY <1>1
<1>4. Expanded[Len(Expanded)] + Len(<<r>>) <= RowsPerSlab
  <2>1. Expanded[Len(Expanded)] \in 0..RowsPerSlab
    BY <1>2, ElementOfSeq
  <2>. QED BY <1>2, <1>3, <2>1, SizeAssumption
<1>. QED BY <1>1, <1>2, <1>3, <1>4, PlaceKept

\* A chunk of a batch that can be encoded.
LEMMA BatchChunkKept ==
  ASSUME Lossless, Kept, NEW s \in 1..Len(count), BatchChunk(s), TypeOK'
  PROVE  Kept'
<1>. DEFINE n == ChunkLen(s)
            rs == SubSeq(todo, 1, n)
<1>1. /\ todo # <<>> /\ todo \in Seq(Row) /\ phase \in {"open", "tx"}
      /\ Place(count, s, rs) /\ HasSpace(s) /\ \A j \in 1..n : todo[j] \in Encodable
  BY KeptParts DEF BatchChunk, ChunkEncodable, PagesKept, TypeOK
<1>2. n \in 1..Len(todo) /\ count[s] + n <= RowsPerSlab /\ Len(todo) \in Nat
  <2>1. Len(todo) \in Nat \ {0} /\ count[s] \in 0..RowsPerSlab
    BY <1>1, EmptySeq, KeptParts, LenType
  <2>2. FreeIn(s) > 0 /\ FreeIn(s) = RowsPerSlab - count[s]
    BY <1>1 DEF HasSpace, FreeIn
  <2>. QED BY <2>1, <2>2, SizeAssumption DEF ChunkLen
<1>. HIDE DEF n
<1>3. rs \in Seq(Encodable) /\ Len(rs) = n
  <2>1. Len(rs) = n /\ \A j \in 1..n : rs[j] = todo[j]
    BY <1>1, <1>2
  <2>2. \A j \in 1..n : todo[j] \in Encodable
    BY <1>1
  <2>. QED BY <1>1, <1>2, <2>2, SubSeqProperties
<1>. HIDE DEF rs
<1>4. count \in Seq(0..RowsPerSlab) /\ Len(count) \in Len(count)..MaxSlabs
  BY KeptParts DEF TypeOK
<1>5. count[s] + Len(rs) <= RowsPerSlab
  BY <1>2, <1>3
<1>. QED BY <1>1, <1>3, <1>4, <1>5, PlaceKept

-----------------------------------------------------------------------------
(* Failures, growth and reopening: zero rows come to light.                *)

\* Slots above the marks come to life or come below the marks.
LEMMA ShownKept ==
  ASSUME Kept, TypeOK', UNCHANGED <<cells, undo, hist>>, indexed => hash' = hash, indexed' = indexed,
         NEW new \in SUBSET Slot, live' = live \cup new, \A i \in new : ~InSlabs(count, i),
         \A i \in Slot : InSlabs(count, i) => InSlabs(count', i),
         hist = <<>> => phase' \in {"open", "closed", "closing"},
         phase' = "closed" => ~indexed, todo' # <<>> => phase' \in {"open", "tx"}
  PROVE  Kept'
<1>1. PagesKept'
  BY KeptParts DEF PagesKept
<1>2. \A i \in Slot : InSlabs(count, i) \/ FromFailure(cells[i])
  BY KeptParts DEF PagesKept, FromFailure
<1>3. IndexKept'
  <2> SUFFICES ASSUME indexed PROVE IndexKept'
    BY DEF IndexKept
  <2>1. \A v \in Val : \A i \in hash[v] : i \in live /\ InSlabs(count, i) /\ cells[i].v = v /\ i \in Slot
    BY KeptParts DEF IndexKept
  <2>2. \A i \in live : InSlabs(count, i) => i \in hash[cells[i].v] \/ FromFailure(cells[i])
    BY KeptParts DEF IndexKept
  <2>3. ASSUME NEW i \in live' PROVE i \in hash[cells[i].v] \/ FromFailure(cells[i])
    BY <1>2, <2>2, KeptParts
  <2>. QED BY <2>1, <2>3 DEF IndexKept
<1>4. ASSUME NEW n \in 1..Len(undo), undo[n].op = "delete" PROVE undo[n].idx \notin live'
  BY <1>4, KeptParts DEF UndoKept
<1>5. UndoKept'
  BY <1>4, KeptParts, RecordsKept
<1>6. \A i \in Slot : Like(Table[i], Table'[i])
  <2> SUFFICES ASSUME NEW i \in Slot PROVE Like(Table[i], Table'[i])
    OBVIOUS
  <2>1. CASE i \in new
    <3>1. Table'[i] = cells[i] /\ BlankRow(cells[i]) /\ (Table[i] = Absent \/ Table[i] = cells[i])
      BY <1>2, <2>1, KeptParts DEF Table, BlankRow
    <3>. QED BY <3>1 DEF Like, BlankRow
  <2>2. CASE i \notin new
    BY <2>2, LikeLaws DEF Table
  <2>. QED BY <2>1, <2>2
<1>7. ChainedAlike'
  BY <1>6, KeptParts, AlikeKept
<1>. QED BY <1>1, <1>3, <1>5, <1>7 DEF Kept

\* insert of a row that cannot be encoded.
LEMMA InsertFailsKept == ASSUME Kept, NEW r \in Row, InsertFails(r), TypeOK' PROVE Kept'
<1>. DEFINE s == Len(Expanded)
            new == Fresh(Expanded, s, 1)
<1>1. /\ Len(Expanded) <= MaxSlabs /\ live' = live \cup new
      /\ count' = [Expanded EXCEPT ![s] = @ + 1]
      /\ phase \in {"open", "tx"} /\ todo' = <<>> /\ phase' = phase
      /\ UNCHANGED <<cells, indexed, hash, undo, hist>>
  BY DEF InsertFails, Ready, maps
<1>2. /\ Expanded \in Seq(0..RowsPerSlab) /\ s \in 1..Len(Expanded) /\ Expanded[s] \in 0..RowsPerSlab
      /\ Expanded[s] + 1 <= RowsPerSlab
      /\ \A i \in Slot : InSlabs(count, i) <=> InSlabs(Expanded, i)
  <2>1. Expanded \in Seq(0..RowsPerSlab) /\ s \in 1..Len(Expanded) /\ Expanded[s] < RowsPerSlab
    BY <1>1, KeptParts, ExpandedType
  <2>2. Expanded[s] \in 0..RowsPerSlab
    BY <2>1, ElementOfSeq
  <2>. QED BY <2>1, <2>2, KeptParts, ExpandedSlabs, SizeAssumption
<1>3. \A i \in new : i \in Slot /\ ~InSlabs(count, i)
  BY <1>1, <1>2, FreshPositions
<1>4. ASSUME NEW i \in Slot, InSlabs(Expanded, i) PROVE InSlabs(count', i)
  <2>1. /\ Len(count') = Len(Expanded) /\ count'[s] = Expanded[s] + 1
        /\ \A m \in 1..Len(Expanded) : m # s => count'[m] = Expanded[m]
    BY <1>1, <1>2
  <2>2. i[1] \in 1..Len(Expanded) /\ i[2] \in Nat
    BY <1>2, <1>4, SizeAssumption DEF InSlabs, Slot
  <2>. QED BY <1>2, <1>4, <2>1, <2>2 DEF InSlabs
<1>5. phase' # "closed" /\ (hist = <<>> => phase' = "open")
  BY <1>1, KeptParts DEF ChainedAlike
<1>. HIDE DEF new, s
<1>. QED BY <1>1, <1>2, <1>3, <1>4, <1>5, ShownKept

\* The growth before a batch shows no slot.
LEMMA BatchStartKept ==
  ASSUME Kept, NEW n \in Nat, NEW rs \in [1..n -> Row], BatchStart(rs), TypeOK'
  PROVE  Kept'
<1>1. /\ count' = count \o [j \in 1..Growth(Len(rs)) |-> 0]
      /\ phase \in {"open", "tx"} /\ phase' = phase
      /\ UNCHANGED <<cells, live, indexed, hash, undo, hist>>
  BY DEF BatchStart, Ready, maps, tx
<1>2. Growth(Len(rs)) \in Nat
  <2>1. Len(rs) = n
    OBVIOUS
  <2>. QED BY <2>1, KeptParts, GrowthType
<1>3. count \in Seq(0..RowsPerSlab)
  BY KeptParts DEF TypeOK
<1>4. Len(count') >= Len(count) /\ \A s \in 1..Len(count) : count'[s] = count[s]
  <2>. DEFINE new == [j \in 1..Growth(Len(rs)) |-> 0]
  <2>1. new \in Seq(0..RowsPerSlab) /\ Len(new) \in Nat
    BY <1>2, SizeAssumption
  <2>. HIDE DEF new
  <2>2. count' = count \o new
    BY <1>1 DEF new
  <2>. QED BY <1>3, <2>1, <2>2, Joined
<1>5. ASSUME NEW i \in Slot, InSlabs(count, i) PROVE InSlabs(count', i)
  <2>1. i[1] \in 1..Len(count) /\ Len(count) \in Nat
    BY <1>3, <1>5, SizeAssumption DEF InSlabs, Slot
  <2>2. Len(count') \in Nat
    BY SizeAssumption DEF TypeOK
  <2>. QED BY <1>4, <1>5, <2>1, <2>2 DEF InSlabs
<1>6. phase' # "closed" /\ (hist = <<>> => phase' = "open")
  BY <1>1, KeptParts DEF ChainedAlike
<1>7. /\ live' = live \cup {} /\ phase' \in {"open", "tx"}
      /\ UNCHANGED <<cells, indexed, hash, undo, hist>>
  BY <1>1
<1>8. {} \in SUBSET Slot /\ \A i \in {} : ~InSlabs(count, i)
  OBVIOUS
<1>. QED BY <1>5, <1>6, <1>7, <1>8, ShownKept

\* A chunk that cannot be encoded.
LEMMA BatchFailsKept ==
  ASSUME Kept, NEW s \in 1..Len(count), BatchFails(s), TypeOK'
  PROVE  Kept'
<1>. DEFINE n == ChunkLen(s)
            new == {<<s, count[s] + j - 1>> : j \in {m \in 1..n : \A k \in 1..m : todo[k] \in Encodable}}
<1>1. /\ todo # <<>> /\ todo \in Seq(Row) /\ phase \in {"open", "tx"} /\ HasSpace(s)
      /\ live' = live \cup new /\ todo' = <<>> /\ phase' = phase
      /\ UNCHANGED <<cells, count, indexed, hash, undo, hist>>
  BY KeptParts DEF BatchFails, PagesKept, TypeOK, maps, tx
<1>2. n \in Nat /\ count[s] + n <= RowsPerSlab
  <2>1. Len(todo) \in Nat /\ count[s] \in 0..RowsPerSlab
    BY <1>1, KeptParts, LenType
  <2>2. FreeIn(s) > 0 /\ FreeIn(s) = RowsPerSlab - count[s]
    BY <1>1 DEF HasSpace, FreeIn
  <2>. QED BY <2>1, <2>2, SizeAssumption DEF ChunkLen
<1>. HIDE DEF n
<1>3. count \in Seq(0..RowsPerSlab) /\ Len(count) <= MaxSlabs
  BY KeptParts DEF TypeOK
<1>4. \A j \in 1..n : <<s, count[s] + j - 1>> \in Slot /\ ~InSlabs(count, <<s, count[s] + j - 1>>)
  <2>1. \A j \in 1..n : At(count, s, j) \in Slot /\ ~InSlabs(count, At(count, s, j))
    BY <1>2, <1>3, FreshPositions
  <2>. QED BY <2>1 DEF At
<1>5. new \in SUBSET Slot /\ \A i \in new : ~InSlabs(count, i)
  BY <1>4
<1>6. phase' # "closed" /\ (hist = <<>> => phase' = "open")
  BY <1>1, KeptParts DEF ChainedAlike
<1>. HIDE DEF new
<1>. QED BY <1>1, <1>5, <1>6, ShownKept

\* Opening counts every slab but the last as full.
LEMMA OpenKept == ASSUME Kept, Open, TypeOK' PROVE Kept'
<1>1. /\ phase = "closed" /\ phase' = "open" /\ count' = Loaded
      /\ UNCHANGED <<cells, live, indexed, hash, todo, undo, hist>>
  BY DEF Open
<1>2. ~indexed /\ todo = <<>>
  BY <1>1, KeptParts DEF PagesKept
<1>3. ASSUME NEW i \in Slot, InSlabs(count, i) PROVE InSlabs(Loaded, i)
  <2>1. i[1] \in 1..Len(count) /\ i[2] \in 0..RowsPerSlab - 1
    BY <1>3, KeptParts, LenType, SizeAssumption DEF InSlabs, Slot
  <2>2. Len(Loaded) = Len(count) /\ Loaded[i[1]] \in {count[i[1]], RowsPerSlab}
    BY <2>1, KeptParts, LoadedType DEF Loaded
  <2>. QED BY <1>3, <2>1, <2>2, SizeAssumption DEF InSlabs
<1>4. live' = live \cup {}
  BY <1>1
<1>5. \A i \in Slot : InSlabs(count, i) => InSlabs(count', i)
  BY <1>1, <1>3 DEF InSlabs
<1>6. todo' = <<>> /\ phase' # "closed"
  BY <1>1, <1>2
<1>7. {} \in SUBSET Slot /\ \A i \in {} : ~InSlabs(count, i)
  OBVIOUS
<1>. QED BY <1>1, <1>4, <1>5, <1>6, <1>7, ShownKept

\* compact: the rows of the new file, and an index of them.
LEMMA CompactKept == ASSUME Kept, Compact, TypeOK' PROVE Kept'
<1>. DEFINE n == Cardinality(Visible)
            moved == [i \in Visible |-> Nth(Rank(i))]
            from(s) == CHOOSE i \in Visible : moved[i] = s
            kept == {moved[i] : i \in Visible}
            cells1 == [s \in Slot |-> IF s \in kept THEN cells[from(s)] ELSE ZeroRow]
<1>1. TypeOK /\ n \in 0..MaxSlabs * RowsPerSlab
  BY VisibleCount, KeptParts
<1>2. /\ cells' = cells1 /\ live' = kept
      /\ count' = [s \in 1..SlabsFor(n) |->
                    IF s < SlabsFor(n) THEN RowsPerSlab ELSE n - (s - 1) * RowsPerSlab]
      /\ hash' = IF indexed THEN HashBuilt(cells1, kept) ELSE hash
      /\ UNCHANGED <<indexed, phase, todo, undo, hist>> /\ phase = "open" /\ todo = <<>>
  BY DEF Compact
<1>3. \A i \in Visible : moved[i] = Nth(Rank(i)) /\ Rank(i) \in Nat /\ Rank(i) < n
  BY <1>1, RankType
<1>. HIDE DEF n
<1>4. \A i \in Visible : moved[i] \in Slot /\ InSlabs(count', moved[i])
  BY <1>1, <1>2, <1>3, NthType, NthMarked
<1>5. \A s \in kept : from(s) \in Visible
  OBVIOUS
<1>. HIDE DEF moved, from
<1>6. kept \in SUBSET Slot /\ \A s \in kept : InSlabs(count', s)
  BY <1>4
<1>. HIDE DEF kept
<1>7. /\ cells \in [Slot -> Row] /\ Visible \in SUBSET Slot
      /\ \A i \in Slot : cells[i] \in Encodable
  BY <1>1, KeptParts, VisibleType DEF PagesKept
<1>8. /\ \A s \in Slot : cells1[s] = IF s \in kept THEN cells[from(s)] ELSE ZeroRow
      /\ \A s \in Slot : cells1[s] \in Encodable
  BY <1>5, <1>6, <1>7, RowAssumption
<1>. HIDE DEF cells1
<1>9. PagesKept'
  BY <1>2, <1>6, <1>8 DEF PagesKept
<1>10. IndexKept'
  <2> SUFFICES ASSUME indexed PROVE IndexKept'
    BY <1>2 DEF IndexKept
  <2>1. \A v \in Val : hash'[v] = {i \in kept : cells1[i].v = v}
    BY <1>2 DEF HashBuilt
  <2>2. \A i \in kept : cells1[i].v \in Val
    BY <1>6, <1>8, RowAssumption, RowFields
  <2>. QED BY <1>2, <1>6, <2>1, <2>2 DEF IndexKept
<1>11. undo' = <<>> /\ hist' = <<>>
  BY <1>1, <1>2 DEF TypeOK
<1>12. Len(undo') = 0 /\ phase' = "open"
  BY <1>2, <1>11
<1>13. UndoKept' /\ ChainedAlike'
  BY <1>11, <1>12 DEF UndoKept, ChainedAlike
<1>. QED BY <1>9, <1>10, <1>13 DEF Kept

\* fsck moves the unique map only.
LEMMA FsckKept == ASSUME Kept, Fsck, TypeOK' PROVE Kept'
<1>1. UNCHANGED <<cells, live, count, indexed, hash, phase, todo, undo, hist>>
  BY DEF Fsck, store
<1>2. Table' = Table
  BY <1>1 DEF Table
<1>. QED BY <1>1, <1>2 DEF Kept, PagesKept, IndexKept, UndoKept, ChainedAlike

-----------------------------------------------------------------------------
(* The theorems.                                                           *)

\* Every write keeps the invariant, those that fail half way too.
LEMMA WriteKept == ASSUME Lossless, Kept, Write, TypeOK' PROVE Kept'
<1>1. \A i \in Visible : Merged(cells[i]) \in SUBSET Row
  BY KeptParts, VisibleType, MergedType
<1>2. \A r \in Given : r \in Row
  BY RowAssumption
<1>3. ASSUME NEW n \in 1..MaxBatch, NEW rs \in [1..n -> Given], BatchStart(rs) PROVE Kept'
  BY <1>2, <1>3, BatchStartKept, SizeAssumption
<1>. QED BY <1>1, <1>2, <1>3, InsertKept, InsertFailsKept, BatchChunkKept, BatchFailsKept,
            UpdateKept, UpdateFailsKept, DeleteKept DEF Write

\* Every step keeps the invariant.
LEMMA StepKept == ASSUME Lossless, Kept, [Next]_vars PROVE Kept'
<1>1. TypeOK'
  BY TypeStep, KeptParts
<1>2. CASE Next
  BY <1>1, <1>2, WriteKept, IndexingKept, PhaseKept, UndoInsertKept, UndoUpdateKept, UndoUpdateFailsKept,
     UndoDeleteKept, UndoDoneKept, OpenKept, CompactKept, FsckKept DEF Next, Rollback
<1>3. CASE UNCHANGED vars
  <2>1. UNCHANGED <<cells, live, count, total, uniq, indexed, hash, phase, todo, undo, hist>>
    BY <1>3 DEF vars, store, maps
  <2>2. Table' = Table
    BY <2>1 DEF Table
  <2>. QED BY <1>1, <2>1, <2>2 DEF Kept, PagesKept, IndexKept, UndoKept, ChainedAlike
<1>. QED BY <1>2, <1>3

\* RowStore's invariant under failing writes (core.py:275-299, 955-1130): pages
\* hold encoded rows and zero rows above the marks, index entries lie below the
\* marks, a deleted row stays dead while a record can bring it back, and the
\* undo list leads back but for zero rows, in files of any size.
THEOREM KeptInvariant == ASSUME Lossless PROVE Spec => []Kept
<1>1. Init => Kept
  BY InitKept
<1>2. Kept /\ [Next]_vars => Kept'
  BY StepKept
<1>. QED BY <1>1, <1>2, PTL DEF Spec

\* Even when inserts, batches and updates fail half way, an index entry points
\* to a live row with its value (core.py:955-1130, 1159-1216), in a table of any
\* size.
THEOREM IndexSoundCorrect == ASSUME Lossless PROVE Spec => []IndexSound
<1>1. Kept => IndexSound
  BY KeptParts DEF IndexKept, IndexSound
<1>. QED BY <1>1, KeptInvariant, PTL

\* The rows that a lookup through the index does not find are those that failed
\* inserts and batches left (core.py:275-299), and no others.
THEOREM IndexMissesCorrect == ASSUME Lossless PROVE Spec => []IndexMissesOnlyFailures
<1>1. Kept => IndexMissesOnlyFailures
  BY KeptParts DEF IndexKept, IndexMissesOnlyFailures, Visible, VisibleIn
<1>. QED BY <1>1, KeptInvariant, PTL

\* The last step of a rollback stands at the first table, but for zero rows.
LEMMA RollbackEndsAlike ==
  ASSUME Kept, UndoDone, hist # <<>>
  PROVE  \A i \in Slot : Like(hist[1][i], Table'[i])
<1>1. undo = <<>> /\ Table' = Table
  BY DEF UndoDone, store, Table
<1>2. Len(undo) = 0
  BY <1>1
<1>3. Len(hist) = 1 /\ \A i \in Slot : Like(hist[Len(hist)][i], Table[i])
  BY <1>2, KeptParts DEF ChainedAlike
<1>. QED BY <1>1, <1>3

\* Rollback is atomic for rows (README.md:656, core.py:1882-1923) even when
\* writes of the transaction failed half way: it restores every row and leaves
\* none of its own, but for the zero rows of failed writes.
THEOREM RollbackRowsCorrect == ASSUME Lossless PROVE Spec => RollbackRestoresRows
<1>1. ASSUME Kept, UndoDone, hist # <<>>, NEW i \in Slot
      PROVE  Table'[i] = hist[1][i] \/ (Blank(Table', i) /\ Blank(hist[1], i))
  BY <1>1, RollbackEndsAlike DEF Like, BlankRow, Blank
<1>2. Kept /\ [Next]_vars =>
        [UndoDone /\ hist # <<>> =>
           \A i \in Slot : \/ Table'[i] = hist[1][i]
                           \/ Blank(Table', i) /\ Blank(hist[1], i)]_vars
  BY <1>1
<1>. QED BY <1>2, KeptInvariant, PTL DEF Spec, RollbackRestoresRows

-----------------------------------------------------------------------------
(* Slots in numbers.                                                       *)

\* n numbers in a row.
LEMMA IntervalCount ==
  ASSUME NEW a \in Nat, NEW n \in Nat
  PROVE  IsFiniteSet(a .. a + n - 1) /\ Cardinality(a .. a + n - 1) = n
<1>1. PICK b \in Int : b = a + n - 1
  OBVIOUS
<1>2. IsFiniteSet(a..b) /\ Cardinality(a..b) = IF a > b THEN 0 ELSE b - a + 1
  BY FS_Interval
<1>. QED BY <1>1, <1>2

\* n rows at the mark of a slab take n slots.
LEMMA FreshCount ==
  ASSUME NEW cnt \in Seq(0..RowsPerSlab), NEW s \in 1..Len(cnt), NEW n \in Nat,
         cnt[s] + n <= RowsPerSlab, Len(cnt) <= MaxSlabs
  PROVE  IsFiniteSet(Fresh(cnt, s, n)) /\ Cardinality(Fresh(cnt, s, n)) = n
<1>1. cnt[s] \in Nat /\ s \in 1..MaxSlabs
  BY SizeAssumption
<1>. DEFINE places == cnt[s] .. cnt[s] + n - 1
<1>2. places \subseteq 0..RowsPerSlab - 1
  BY <1>1, SizeAssumption, SMTT(60)
<1>3. IsFiniteSet(places) /\ Cardinality(places) = n
  BY <1>1, IntervalCount
<1>4. IsFiniteSet({s}) /\ Cardinality({s}) = 1
  BY FS_Singleton
<1>5. Fresh(cnt, s, n) = {s} \X places
  BY <1>1, <1>2 DEF Fresh, Slot
<1>. HIDE DEF places
<1>6. IsFiniteSet({s} \X places) /\ Cardinality({s} \X places) = 1 * n
  BY <1>3, <1>4, FS_Product
<1>. QED BY <1>5, <1>6

\* Slabs that a file does not have yet hold RowsPerSlab rows each.
LEMMA SlabsCount ==
  ASSUME NEW a \in Nat, NEW g \in Nat, a + g <= MaxSlabs
  PROVE  LET new == {i \in Slot : i[1] \in a + 1 .. a + g}
         IN  IsFiniteSet(new) /\ Cardinality(new) = g * RowsPerSlab
<1>. DEFINE slabs == a + 1 .. a + g
            places == 0..RowsPerSlab - 1
<1>1. IsFiniteSet(slabs) /\ Cardinality(slabs) = g
  BY FS_Interval
<1>2. IsFiniteSet(places) /\ Cardinality(places) = RowsPerSlab
  BY FS_Interval, SizeAssumption
<1>3. slabs \subseteq 1..MaxSlabs
  BY SizeAssumption
<1>4. {i \in Slot : i[1] \in slabs} = slabs \X places
  BY <1>3 DEF Slot
<1>. HIDE DEF slabs, places
<1>5. IsFiniteSet(slabs \X places) /\ Cardinality(slabs \X places) = g * RowsPerSlab
  BY <1>1, <1>2, FS_Product
<1>. QED BY <1>4, <1>5 DEF slabs

-----------------------------------------------------------------------------
(* A batch fits the file that was grown for it.                            *)

\* The slots above the marks of the slabs.
Free(cnt) == {i \in Slot : i[1] <= Len(cnt) /\ i[2] >= cnt[i[1]]}

LEMMA FreeFinite == \A cnt : IsFiniteSet(Free(cnt)) /\ Cardinality(Free(cnt)) \in Nat
<1>1. \A cnt : Free(cnt) \in SUBSET Slot
  BY DEF Free
<1>. QED BY <1>1, SlotFinite, FS_Subset, FS_CardinalityType

\* The marks of a file that grew by g slabs.
LEMMA MarksGrown ==
  ASSUME NEW cnt \in Seq(0..RowsPerSlab), NEW g \in Nat
  PROVE  LET grown == cnt \o [j \in 1..g |-> 0]
         IN  /\ Len(grown) = Len(cnt) + g
             /\ \A n \in 1..Len(cnt) + g : grown[n] = IF n <= Len(cnt) THEN cnt[n] ELSE 0
<1>. DEFINE zeros == [j \in 1..g |-> 0]
<1>1. zeros \in Seq(0..RowsPerSlab) /\ Len(zeros) = g /\ \A j \in 1..g : zeros[j] = 0
  BY SizeAssumption
<1>. HIDE DEF zeros
<1>2. /\ Len(cnt \o zeros) = Len(cnt) + g
      /\ \A n \in 1..Len(cnt) + g : (cnt \o zeros)[n] = IF n <= Len(cnt) THEN cnt[n] ELSE zeros[n - Len(cnt)]
  BY <1>1, Joined
<1>3. \A n \in 1..Len(cnt) + g : n <= Len(cnt) \/ n - Len(cnt) \in 1..g
  OBVIOUS
<1>4. \A n \in 1..Len(cnt) + g : (cnt \o zeros)[n] = IF n <= Len(cnt) THEN cnt[n] ELSE 0
  BY <1>1, <1>2, <1>3
<1>. QED BY <1>2, <1>4 DEF zeros

\* Growing a file by g slabs frees their slots.
LEMMA FreeGrown ==
  ASSUME NEW cnt \in Seq(0..RowsPerSlab), NEW g \in Nat, Len(cnt) + g <= MaxSlabs
  PROVE  Cardinality(Free(cnt \o [j \in 1..g |-> 0])) = Cardinality(Free(cnt)) + g * RowsPerSlab
<1>. DEFINE zeros == [j \in 1..g |-> 0]
            new == {i \in Slot : i[1] \in Len(cnt) + 1 .. Len(cnt) + g}
<1>2. /\ Len(cnt \o zeros) = Len(cnt) + g
      /\ \A n \in 1..Len(cnt) + g : (cnt \o zeros)[n] = IF n <= Len(cnt) THEN cnt[n] ELSE 0
  BY MarksGrown
<1>. HIDE DEF zeros
<1>3. Len(cnt) \in Nat /\ \A i \in Slot : i[1] \in Nat \ {0} /\ i[2] \in Nat
  BY SizeAssumption DEF Slot
<1>4. Free(cnt \o zeros) = Free(cnt) \cup new
  <2>1. ASSUME NEW i \in Slot
        PROVE  i \in Free(cnt \o zeros) <=> i \in Free(cnt) \/ i \in new
    <3>1. CASE i[1] <= Len(cnt)
      BY <1>2, <1>3, <3>1 DEF Free
    <3>2. CASE i[1] > Len(cnt) /\ i[1] <= Len(cnt) + g
      <4>1. i[1] \in 1..Len(cnt) + g /\ ~(i[1] <= Len(cnt))
        BY <1>3, <3>2
      <4>2. (cnt \o zeros)[i[1]] = 0
        BY <1>2, <4>1
      <4>. QED BY <1>2, <1>3, <3>2, <4>1, <4>2 DEF Free
    <3>3. CASE i[1] > Len(cnt) + g
      BY <1>2, <1>3, <3>3 DEF Free
    <3>. QED BY <1>3, <3>1, <3>2, <3>3
  <2>2. Free(cnt \o zeros) \subseteq Slot /\ Free(cnt) \subseteq Slot /\ new \subseteq Slot
    BY DEF Free
  <2>. HIDE DEF new
  <2>. QED BY <2>1, <2>2
<1>5. Free(cnt) \cap new = {}
  BY <1>3 DEF Free
<1>6. IsFiniteSet(new) /\ Cardinality(new) = g * RowsPerSlab
  BY <1>3, SlabsCount
<1>. HIDE DEF new
<1>7. Cardinality(Free(cnt) \cup new) = Cardinality(Free(cnt)) + Cardinality(new) - Cardinality({})
  BY <1>5, <1>6, FreeFinite, FS_Union
<1>8. g * RowsPerSlab \in Nat /\ Cardinality({}) = 0
  BY FS_EmptySet, SizeAssumption
<1>9. Cardinality(Free(cnt \o zeros)) = Cardinality(Free(cnt)) + g * RowsPerSlab
  BY <1>4, <1>6, <1>7, <1>8, FreeFinite
<1>. QED BY <1>9 DEF zeros

\* Placing n rows at the mark of a slab takes n of the free slots.
LEMMA FreeTaken ==
  ASSUME NEW cnt \in Seq(0..RowsPerSlab), NEW s \in 1..Len(cnt), NEW n \in Nat,
         cnt[s] + n <= RowsPerSlab, Len(cnt) <= MaxSlabs
  PROVE  Cardinality(Free([cnt EXCEPT ![s] = @ + n])) = Cardinality(Free(cnt)) - n
<1>. DEFINE after == [cnt EXCEPT ![s] = @ + n]
            fresh == Fresh(cnt, s, n)
<1>1. /\ Len(after) = Len(cnt)
      /\ \A m \in 1..Len(cnt) : cnt[m] \in Nat /\ after[m] = IF m = s THEN cnt[m] + n ELSE cnt[m]
  BY SizeAssumption
<1>. HIDE DEF after
<1>2. \A i \in Slot : i[1] \in Nat \ {0} /\ i[2] \in Nat
  BY SizeAssumption DEF Slot
<1>3. Free(after) = Free(cnt) \ fresh /\ fresh \subseteq Free(cnt)
  BY <1>1, <1>2, SMTT(60) DEF Free, Fresh
<1>4. IsFiniteSet(fresh) /\ Cardinality(fresh) = n
  BY FreshCount
<1>. HIDE DEF fresh
<1>5. Cardinality(Free(cnt) \ fresh) = Cardinality(Free(cnt)) - Cardinality(fresh)
  BY <1>3, <1>4, FreeFinite, FS_Difference, Free(cnt) \cap fresh = fresh
<1>. QED BY <1>3, <1>4, <1>5 DEF after

\* What is owed to a batch: room for the rows it has still to place, and the
\* lock until it has placed them.
BatchRoom == TypeOK /\ (todo # <<>> => phase \in {"open", "tx"}) /\ Len(todo) <= Cardinality(Free(count))

\* The growth before the first row is enough for all of them (core.py:1031-1034).
LEMMA BatchStartRoom ==
  ASSUME BatchRoom, NEW n \in 1..MaxBatch, NEW rs \in [1..n -> Given], BatchStart(rs), TypeOK'
  PROVE  BatchRoom'
<1>. DEFINE free == Cardinality(Free(count))
            g == Growth(n)
<1>1. n \in Nat /\ Len(rs) = n /\ free \in Nat /\ count \in Seq(0..RowsPerSlab)
  BY FreeFinite, SizeAssumption DEF BatchRoom, TypeOK
<1>2. /\ phase \in {"open", "tx"} /\ phase' = phase /\ todo' = rs
      /\ count' = count \o [j \in 1..g |-> 0] /\ Len(count) + g <= MaxSlabs
  BY <1>1 DEF BatchStart, Ready, tx
<1>3. g \in Nat
  BY <1>1, GrowthType DEF BatchRoom
<1>4. Cardinality(Free(count')) = free + g * RowsPerSlab
  BY <1>1, <1>2, <1>3, FreeGrown
<1>5. n <= free + g * RowsPerSlab
  <2>1. FreeSlots = free
    BY DEF FreeSlots, Free
  <2>2. CASE n > free
    <3>1. n - free \in Nat \ {0} /\ g = (n - free + RowsPerSlab - 1) \div RowsPerSlab
      BY <1>1, <2>1, <2>2 DEF Growth
    <3>2. n - free <= g * RowsPerSlab
      BY <3>1, Ceiling, SizeAssumption
    <3>3. g * RowsPerSlab \in Nat
      BY <1>3, SizeAssumption
    <3>. QED BY <1>1, <3>2, <3>3
  <2>3. CASE n <= free
    <3>1. g * RowsPerSlab \in Nat
      BY <1>3, SizeAssumption
    <3>. QED BY <1>1, <2>3, <3>1
  <2>. QED BY <1>1, <2>2, <2>3
<1>. HIDE DEF free, g
<1>6. Len(todo') <= Cardinality(Free(count'))
  BY <1>1, <1>2, <1>4, <1>5
<1>. QED BY <1>2, <1>6 DEF BatchRoom, Free

\* A chunk takes as many free slots as it places rows.
LEMMA BatchChunkRoom ==
  ASSUME BatchRoom, NEW s \in 1..Len(count), BatchChunk(s), TypeOK'
  PROVE  BatchRoom'
<1>. DEFINE n == ChunkLen(s)
            rs == SubSeq(todo, 1, n)
<1>1. TypeOK /\ count \in Seq(0..RowsPerSlab) /\ Len(count) <= MaxSlabs /\ todo \in Seq(Row)
  BY DEF BatchRoom, TypeOK
<1>2. count[s] \in 0..RowsPerSlab /\ todo # <<>> /\ FreeIn(s) > 0 /\ Len(todo) \in Nat
  BY <1>1, LenType DEF BatchChunk, HasSpace
<1>3. n \in 0..Len(todo) /\ count[s] + n <= RowsPerSlab
  BY <1>2, SizeAssumption DEF ChunkLen, FreeIn
<1>4. /\ Place(count, s, rs) /\ todo' = SubSeq(todo, n + 1, Len(todo))
  BY DEF BatchChunk
<1>. HIDE DEF n
<1>5. Len(rs) = n /\ Len(todo') = Len(todo) - n
  BY <1>1, <1>2, <1>3, <1>4
<1>6. count' = [count EXCEPT ![s] = @ + n] /\ phase' = phase
  BY <1>4, <1>5 DEF Place
<1>7. Cardinality(Free(count')) = Cardinality(Free(count)) - n
  <2>1. n \in Nat
    BY <1>2, <1>3
  <2>2. Cardinality(Free([count EXCEPT ![s] = @ + n])) = Cardinality(Free(count)) - n
    BY <1>1, <1>3, <2>1, FreeTaken
  <2>. QED BY <1>6, <2>2
<1>8. Len(todo') <= Cardinality(Free(count'))
  <2>1. Len(todo) <= Cardinality(Free(count))
    BY DEF BatchRoom
  <2>. QED BY <1>2, <1>3, <1>5, <1>7, <2>1, FreeFinite
<1>. QED BY <1>2, <1>6, <1>8 DEF BatchRoom, Free

\* Every other step leaves nothing to place, or the batch and the file alone.
LEMMA IdleRoom ==
  ASSUME BatchRoom, TypeOK',
         todo' = <<>> \/ UNCHANGED <<todo, count, phase>>
  PROVE  BatchRoom'
<1>1. CASE todo' = <<>>
  <2>1. Len(todo') = 0
    BY <1>1
  <2>2. Cardinality(Free(count')) \in Nat
    BY FreeFinite
  <2>. QED BY <1>1, <2>1, <2>2 DEF BatchRoom, Free
<1>2. CASE UNCHANGED <<todo, count, phase>>
  BY <1>2 DEF BatchRoom, Free
<1>. QED BY <1>1, <1>2

\* Every step keeps what is owed to the batch.
LEMMA RoomStep == ASSUME BatchRoom, [Next]_vars PROVE BatchRoom'
<1>1. TypeOK /\ TypeOK' /\ (phase \notin {"open", "tx"} => todo = <<>>)
  BY TypeStep DEF BatchRoom
<1>2. CASE Write
  <2>1. CASE \E n \in 1..MaxBatch : \E rs \in [1..n -> Given] : BatchStart(rs)
    BY <1>1, <2>1, BatchStartRoom
  <2>2. CASE \E s \in 1..Len(count) : BatchChunk(s)
    BY <1>1, <2>2, BatchChunkRoom
  <2>3. CASE \E s \in 1..Len(count) : BatchFails(s)
    BY <1>1, <2>3, IdleRoom DEF BatchFails
  <2>4. CASE \E r \in Given : Insert(r) \/ InsertFails(r)
    BY <1>1, <2>4, IdleRoom DEF Insert, InsertFails, Ready
  <2>5. CASE \E i \in Visible : \E m \in Merged(cells[i]) : Update(i, m) \/ UpdateFails(i, m)
    BY <1>1, <2>5, IdleRoom DEF Update, UpdateFails, Ready
  <2>6. CASE \E i \in Visible : Delete(i)
    BY <1>1, <2>6, IdleRoom DEF Delete, Ready
  <2>. QED BY <1>2, <2>1, <2>2, <2>3, <2>4, <2>5, <2>6 DEF Write
<1>3. CASE CreateIndex \/ DropIndex \/ Fsck \/ Close
  BY <1>1, <1>3, IdleRoom DEF CreateIndex, DropIndex, Fsck, Close, Ready
<1>4. CASE Begin \/ Commit \/ Abort \/ Compact
  BY <1>1, <1>4, IdleRoom DEF Begin, Commit, Abort, Compact
<1>5. CASE Rollback
  BY <1>1, <1>5, IdleRoom
  DEF Rollback, UndoInsert, UndoUpdate, UndoUpdateFails, UndoDelete, UndoDone, RollingBack
<1>6. CASE Open
  BY <1>1, <1>6, IdleRoom DEF Open
<1>7. CASE UNCHANGED vars
  BY <1>1, <1>7, IdleRoom DEF vars, store
<1>. QED BY <1>2, <1>3, <1>4, <1>5, <1>6, <1>7 DEF Next

\* The slabs that batch_insert adds before it places its first row hold the
\* whole batch (core.py:1031-1046): its safety net, one more slab, is never
\* needed, for slabs, files and batches of any size, rows that fail to encode
\* included.
THEOREM BatchCorrect == Spec => []BatchFits
<1>1. Init => BatchRoom
  <2>1. Init => TypeOK /\ todo = <<>> /\ Len(todo) = 0
    BY InitType DEF Init
  <2>. QED BY <2>1, FreeFinite DEF BatchRoom
<1>2. BatchRoom /\ [Next]_vars => BatchRoom'
  BY RoomStep
<1>3. BatchRoom => BatchFits
  BY DEF BatchRoom, BatchFits, FreeSlots, Free
<1>. QED BY <1>1, <1>2, <1>3, PTL DEF Spec

-----------------------------------------------------------------------------
(* The row counter.                                                        *)

Counted == total = Cardinality(live)

\* There are finitely many rows.
LEMMA LiveFinite == ASSUME TypeOK PROVE IsFiniteSet(live) /\ Cardinality(live) \in Nat
<1>1. live \in SUBSET Slot
  BY DEF TypeOK
<1>. QED BY <1>1, SlotFinite, FS_Subset, FS_CardinalityType

\* Rows are placed in slots that no row has, above the marks.
LEMMA PlaceCounted ==
  ASSUME Exact, Counted, NEW cnt \in Seq(0..RowsPerSlab), Len(cnt) <= MaxSlabs,
         \A i \in Slot : InSlabs(count, i) <=> InSlabs(cnt, i),
         NEW s \in 1..Len(cnt), NEW rs \in Seq(Row), cnt[s] + Len(rs) <= RowsPerSlab,
         Place(cnt, s, rs)
  PROVE  Counted'
<1>. DEFINE fresh == Fresh(cnt, s, Len(rs))
<1>1. Len(rs) \in Nat /\ live' = live \cup fresh /\ total' = total + Len(rs)
  BY DEF Place
<1>2. IsFiniteSet(fresh) /\ Cardinality(fresh) = Len(rs)
  BY <1>1, FreshCount
<1>3. ASSUME NEW i \in fresh, i \in live PROVE FALSE
  <2>1. i \in Slot /\ ~InSlabs(cnt, i)
    BY <1>1, <1>3, FreshPositions
  <2>2. Table[i] # Absent
    BY <1>3, <2>1, ExactTable, TableAt
  <2>. QED BY <2>1, <2>2, ExactTable DEF Marked
<1>4. live \cap fresh = {}
  BY <1>3
<1>. HIDE DEF fresh
<1>5. Cardinality(live \cup fresh) = Cardinality(live) + Cardinality(fresh) - Cardinality({})
  <2>1. IsFiniteSet(live)
    BY ExactTable, LiveFinite
  <2>. QED BY <1>2, <1>4, <2>1, FS_Union
<1>. QED BY <1>1, <1>2, <1>5, ExactTable, LiveFinite, FS_EmptySet DEF Counted

\* insert and a chunk of batch_insert count their rows.
LEMMA InsertCounted == ASSUME Exact, Counted, NEW r \in Row, Insert(r) PROVE Counted'
<1>1. Len(Expanded) <= MaxSlabs /\ Place(Expanded, Len(Expanded), <<r>>)
  BY DEF Insert
<1>2. /\ Expanded \in Seq(0..RowsPerSlab) /\ Len(Expanded) \in 1..Len(Expanded)
      /\ Expanded[Len(Expanded)] < RowsPerSlab
      /\ \A i \in Slot : InSlabs(count, i) <=> InSlabs(Expanded, i)
  BY <1>1, ExactTable, ExpandedType, ExpandedSlabs
<1>3. <<r>> \in Seq(Row) /\ Len(<<r>>) = 1
  OBVIOUS
<1>4. Expanded[Len(Expanded)] + Len(<<r>>) <= RowsPerSlab
  <2>1. Expanded[Len(Expanded)] \in 0..RowsPerSlab
    BY <1>2, ElementOfSeq
  <2>. QED BY <1>2, <1>3, <2>1, SizeAssumption
<1>. QED BY <1>1, <1>2, <1>3, <1>4, PlaceCounted

LEMMA BatchChunkCounted == ASSUME Exact, Counted, NEW s \in 1..Len(count), BatchChunk(s) PROVE Counted'
<1>. DEFINE n == ChunkLen(s)
            rs == SubSeq(todo, 1, n)
<1>1. /\ count \in Seq(0..RowsPerSlab) /\ Len(count) <= MaxSlabs /\ todo \in Seq(Row) /\ Len(todo) \in Nat
      /\ count[s] \in 0..RowsPerSlab /\ FreeIn(s) > 0 /\ Place(count, s, rs)
  BY ExactTable, LenType DEF TypeOK, BatchChunk, HasSpace
<1>2. n \in 0..Len(todo) /\ count[s] + n <= RowsPerSlab
  BY <1>1, SizeAssumption, SMTT(60) DEF ChunkLen, FreeIn
<1>. HIDE DEF n
<1>3. rs \in Seq(Row) /\ Len(rs) = n
  BY <1>1, <1>2
<1>. QED BY <1>1, <1>2, <1>3, PlaceCounted

\* delete, and the undo of an insert, take one row off.
LEMMA RowLost ==
  ASSUME TypeOK, Counted, NEW i \in live, live' = live \ {i}, total' = total - 1
  PROVE  Counted'
BY LiveFinite, FS_RemoveElement DEF Counted

\* The undo of a delete adds one.
LEMMA RowBack ==
  ASSUME TypeOK, Counted, NEW i, i \notin live, live' = live \cup {i}, total' = total + 1
  PROVE  Counted'
BY LiveFinite, FS_AddElement DEF Counted

\* A rollback counts every row that it takes away or brings back.
LEMMA RollbackCounted == ASSUME Faultless, Exact, Counted, Rollback PROVE Counted'
<1>1. TypeOK
  BY ExactTable
<1>2. CASE UndoInsert
  <2>1. undo # <<>> /\ Latest.op = "insert" /\ live' = live \ {Latest.idx} /\ total' = total - 1
    BY <1>2 DEF UndoInsert
  <2>2. Latest.idx \in Slot /\ Table[Latest.idx] \in Row
    BY <2>1, UndoneTable
  <2>3. Latest.idx \in live
    BY <1>1, <2>2, TableAt, RowFields
  <2>. QED BY <1>1, <2>1, <2>3, RowLost
<1>3. CASE UndoDelete
  <2>1. undo # <<>> /\ Latest.op = "delete" /\ live' = live \cup {Latest.idx} /\ total' = total + 1
    BY <1>3 DEF UndoDelete
  <2>2. Latest.idx \notin live
    BY <2>1, UndoneTable
  <2>. QED BY <1>1, <2>1, <2>2, RowBack
<1>4. CASE UndoUpdate \/ UndoUpdateFails \/ UndoDone
  BY <1>4 DEF UndoUpdate, UndoUpdateFails, UndoDone, store, Counted
<1>. QED BY <1>2, <1>3, <1>4 DEF Rollback

-----------------------------------------------------------------------------
(* compact.                                                                *)

\* Iteration order is a strict order of the slots.
LEMMA BeforeOrder ==
  /\ \A i \in Slot : ~Before(i, i)
  /\ \A i, j, k \in Slot : Before(i, j) /\ Before(j, k) => Before(i, k)
  /\ \A i, j \in Slot : i # j => Before(i, j) \/ Before(j, i)
<1>1. \A i \in Slot : i[1] \in Nat /\ i[2] \in Nat /\ i = <<i[1], i[2]>>
  BY SizeAssumption DEF Slot
<1>2. \A i, j \in Slot : i # j => i[1] # j[1] \/ i[2] # j[2]
  BY <1>1
<1>. QED BY <1>1, <1>2 DEF Before

\* A later row has a higher rank.
LEMMA RankGrows ==
  ASSUME TypeOK, NEW i \in Visible, NEW j \in Visible, Before(i, j)
  PROVE  Rank(i) < Rank(j)
<1>. DEFINE lower(x) == {k \in Visible : Before(k, x)}
<1>1. Visible \in SUBSET Slot /\ IsFiniteSet(Visible)
  BY VisibleType, VisibleCount
<1>2. i \notin lower(i) /\ lower(i) \cup {i} \in SUBSET lower(j)
  BY <1>1, BeforeOrder
<1>3. IsFiniteSet(lower(i)) /\ IsFiniteSet(lower(j))
  BY <1>1, FS_Subset
<1>. HIDE DEF lower
<1>4. Cardinality(lower(i) \cup {i}) = Cardinality(lower(i)) + 1
  BY <1>2, <1>3, FS_AddElement
<1>5. Cardinality(lower(i) \cup {i}) <= Cardinality(lower(j))
  BY <1>2, <1>3, FS_Subset
<1>6. Cardinality(lower(i)) \in Nat /\ Cardinality(lower(j)) \in Nat
  BY <1>3, FS_CardinalityType
<1>. QED BY <1>4, <1>5, <1>6 DEF Rank, lower

\* Different rows are written to different slots.
LEMMA MovedApart ==
  ASSUME TypeOK, NEW i \in Visible, NEW j \in Visible, Nth(Rank(i)) = Nth(Rank(j))
  PROVE  i = j
<1>1. Rank(i) \in Nat /\ Rank(j) \in Nat
  BY RankType
<1>2. Rank(i) = Rank(j)
  <2>. DEFINE q(m) == m \div RowsPerSlab
              r(m) == m % RowsPerSlab
  <2>1. \A m \in Nat : q(m) \in Nat /\ r(m) \in Nat /\ m = RowsPerSlab * q(m) + r(m)
    BY DivMod, SizeAssumption
  <2>2. q(Rank(i)) + 1 = q(Rank(j)) + 1 /\ r(Rank(i)) = r(Rank(j))
    BY DEF Nth
  <2>. HIDE DEF q, r
  <2>3. q(Rank(i)) = q(Rank(j))
    BY <1>1, <2>1, <2>2
  <2>. QED BY <1>1, <2>1, <2>2, <2>3
<1>3. ~Before(i, j) /\ ~Before(j, i)
  BY <1>1, <1>2, RankGrows
<1>. QED BY <1>3, VisibleType, BeforeOrder

\* compact writes as many rows as it read.
LEMMA CompactCounted == ASSUME TypeOK, Compact PROVE Counted'
<1>. DEFINE moved == [i \in Visible |-> Nth(Rank(i))]
            kept == {moved[i] : i \in Visible}
<1>1. live' = kept /\ total' = Cardinality(Visible)
  BY DEF Compact
<1>2. moved \in Bijection(Visible, kept)
  <2>1. moved \in [Visible -> kept] /\ \A t \in kept : \E i \in Visible : moved[i] = t
    OBVIOUS
  <2>2. \A i, j \in Visible : moved[i] = moved[j] => i = j
    BY MovedApart
  <2>. HIDE DEF moved, kept
  <2>. QED BY <2>1, <2>2 DEF Bijection, Injection, Surjection, IsInjective
<1>3. Cardinality(kept) = Cardinality(Visible)
  <2>1. ExistsBijection(Visible, kept)
    BY <1>2 DEF ExistsBijection
  <2>. HIDE DEF kept
  <2>. QED BY <2>1, VisibleCount, FS_Bijection
<1>. QED BY <1>1, <1>3 DEF Counted

-----------------------------------------------------------------------------

\* Every step keeps the counter.
LEMMA CountedStep == ASSUME Faultless, Exact, Counted, [Next]_vars PROVE Counted'
<1>1. TypeOK /\ Visible \in SUBSET live /\ Visible \in SUBSET Slot
  BY ExactTable, VisibleType
<1>2. CASE Write
  <2>1. CASE \E r \in Given : Insert(r)
    BY <2>1, InsertCounted, RowAssumption
  <2>2. CASE \E s \in 1..Len(count) : BatchChunk(s)
    BY <2>2, BatchChunkCounted
  <2>3. CASE \E i \in Visible : Delete(i)
    BY <1>1, <2>3, RowLost DEF Delete
  <2>4. CASE \E n \in 1..MaxBatch : \E rs \in [1..n -> Given] : BatchStart(rs)
    BY <2>4 DEF BatchStart, Counted
  <2>5. CASE \E i \in Visible : \E m \in Merged(cells[i]) : Update(i, m) \/ UpdateFails(i, m)
    BY <2>5 DEF Update, UpdateFails, store, Counted
  <2>. QED BY <1>2, <2>1, <2>2, <2>3, <2>4, <2>5, NoFailures DEF Write
<1>3. CASE CreateIndex \/ DropIndex \/ Fsck \/ Begin \/ Commit \/ Abort \/ Close
  BY <1>3 DEF CreateIndex, DropIndex, Fsck, Begin, Commit, Abort, Close, store, Counted
<1>4. CASE Rollback
  BY <1>4, RollbackCounted
<1>5. CASE Open
  BY <1>5 DEF Open, Counted
<1>6. CASE Compact
  BY <1>1, <1>6, CompactCounted
<1>7. CASE UNCHANGED vars
  BY <1>7 DEF vars, store, Counted
<1>. QED BY <1>2, <1>3, <1>4, <1>5, <1>6, <1>7 DEF Next

\* What fsck compares (core.py:1531-1536) always agrees, with rows that encode
\* and come back as given: the row counter, the liveness bytes and the rows
\* that a scan yields, through batches, rollbacks, compaction and reopening.
THEOREM CountCorrect == ASSUME Faultless PROVE Spec => []CountExact
<1>1. Init => Counted
  BY FS_EmptySet DEF Init, Counted
<1>2. Exact /\ Counted /\ [Next]_vars => Counted'
  BY CountedStep
<1>3. Exact /\ Counted => CountExact
  BY ExactTable DEF Counted, CountExact
<1>. QED BY <1>1, <1>2, <1>3, ExactInvariant, PTL DEF Spec

-----------------------------------------------------------------------------
(* Full slabs.                                                             *)

\* The free slots of the slabs before the last one.
Below(cnt) == {i \in Slot : i[1] < Len(cnt) /\ i[2] >= cnt[i[1]]}

LEMMA BelowFinite == \A cnt : IsFiniteSet(Below(cnt)) /\ Cardinality(Below(cnt)) \in Nat
<1>1. \A cnt : Below(cnt) \in SUBSET Slot
  BY DEF Below
<1>. QED BY <1>1, SlotFinite, FS_Subset, FS_CardinalityType

\* There are none exactly if these slabs are full.
LEMMA BelowFull ==
  ASSUME NEW cnt \in Seq(0..RowsPerSlab), Len(cnt) <= MaxSlabs
  PROVE  Below(cnt) = {} <=> \A s \in 1..Len(cnt) - 1 : cnt[s] = RowsPerSlab
<1>1. Len(cnt) \in Nat /\ \A s \in 1..Len(cnt) : cnt[s] \in 0..RowsPerSlab
  BY ElementOfSeq, LenProperties
<1>2. ASSUME Below(cnt) = {}, NEW s \in 1..Len(cnt) - 1, cnt[s] # RowsPerSlab PROVE FALSE
  <2>. DEFINE p == cnt[s]
  <2>1. p \in 0..RowsPerSlab - 1 /\ s \in 1..MaxSlabs /\ s < Len(cnt)
    BY <1>1, <1>2, SizeAssumption
  <2>2. <<s, p>> \in Slot
    BY <2>1 DEF Slot
  <2>3. <<s, p>> \in Below(cnt)
    BY <2>1, <2>2 DEF Below
  <2>. QED BY <1>2, <2>3
<1>3. ASSUME \A s \in 1..Len(cnt) - 1 : cnt[s] = RowsPerSlab PROVE Below(cnt) = {}
  <2>1. \A i \in Slot : i[1] \in Nat \ {0} /\ i[2] \in Nat /\ i[2] < RowsPerSlab
    BY SizeAssumption DEF Slot
  <2>2. \A i \in Slot : i[1] < Len(cnt) => cnt[i[1]] = RowsPerSlab
    BY <1>1, <1>3, <2>1
  <2>. QED BY <2>1, <2>2, SizeAssumption DEF Below
<1>. QED BY <1>2, <1>3

\* A batch fills them before it is done.
Filling == Below(count) = {} \/ Cardinality(Below(count)) < Len(todo)

\* insert grows the file when its last slab is full.
LEMMA InsertFilling == ASSUME Exact, Filling, NEW r \in Row, Insert(r) PROVE Filling'
<1>. DEFINE s == Len(Expanded)
<1>1. /\ todo = <<>> /\ todo' = <<>> /\ Len(Expanded) <= MaxSlabs
      /\ Place(Expanded, Len(Expanded), <<r>>)
  BY DEF Insert, Ready
<1>2. /\ count \in Seq(0..RowsPerSlab) /\ Len(count) \in Nat \ {0} /\ Len(count) <= MaxSlabs
      /\ \A m \in 1..Len(count) : count[m] \in 0..RowsPerSlab
      /\ Expanded \in Seq(0..RowsPerSlab)
  BY <1>1, ExactTable, LenType, ExpandedType DEF TypeOK
<1>3. \A m \in 1..Len(count) - 1 : count[m] = RowsPerSlab
  <2>1. Len(todo) = 0
    BY <1>1
  <2>2. Below(count) = {}
    BY <2>1, BelowFinite DEF Filling
  <2>. QED BY <1>2, <2>2, BelowFull
<1>4. \A m \in 1..s - 1 : Expanded[m] = RowsPerSlab
  <2>1. CASE LastFull
    <3>1. Expanded = Append(count, 0) /\ count[Len(count)] = RowsPerSlab
      BY <1>2, <2>1, SizeAssumption DEF Expanded, LastFull
    <3>2. s = Len(count) + 1 /\ \A m \in 1..Len(count) : Expanded[m] = count[m]
      BY <1>2, <3>1
    <3>. QED BY <1>2, <1>3, <3>1, <3>2
  <2>2. CASE ~LastFull
    BY <1>3, <2>2 DEF Expanded
  <2>. QED BY <2>1, <2>2
<1>5. count' = [Expanded EXCEPT ![s] = @ + 1] /\ Len(<<r>>) = 1
  BY <1>1 DEF Place
<1>6. Len(count') = s /\ \A m \in 1..s - 1 : count'[m] = RowsPerSlab
  BY <1>2, <1>4, <1>5
<1>7. Below(count') = {}
  <2>1. \A i \in Slot : i[1] \in Nat \ {0} /\ i[2] \in Nat /\ i[2] < RowsPerSlab
    BY SizeAssumption DEF Slot
  <2>2. s \in Nat
    BY <1>2
  <2>. HIDE DEF s
  <2>. QED BY <1>6, <2>1, <2>2, SizeAssumption DEF Below
<1>. QED BY <1>7 DEF Filling, Below

\* The growth before a batch leaves fewer free slots below the last slab than
\* the batch has rows: one slab less would not hold them all.
LEMMA BatchStartFilling ==
  ASSUME Exact, Filling, NEW n \in 1..MaxBatch, NEW rs \in [1..n -> Given], BatchStart(rs)
  PROVE  Filling'
<1>1. TypeOK /\ n \in Nat \ {0} /\ Len(rs) = n
  BY ExactTable, SizeAssumption
<1>2. count \in Seq(0..RowsPerSlab) /\ Len(count) \in Nat \ {0} /\ Len(count) <= MaxSlabs
  BY <1>1, LenType DEF TypeOK
<1>3. PICK free \in Nat : free = Cardinality(Free(count)) /\ free = FreeSlots
  BY FreeFinite DEF FreeSlots, Free
<1>4. PICK g \in Nat : g = Growth(n)
  BY <1>1, GrowthType
<1>5. /\ todo = <<>> /\ todo' = rs
      /\ count' = count \o [j \in 1..g |-> 0] /\ Len(count) + g <= MaxSlabs
  BY <1>1, <1>4 DEF BatchStart, Ready
<1>6. Below(count) = {}
  <2>1. Len(todo) = 0
    BY <1>5
  <2>. QED BY <2>1, BelowFinite DEF Filling
<1>7. CASE g = 0
  <2>1. count' = count
    BY <1>2, <1>5, <1>7
  <2>. QED BY <1>6, <2>1 DEF Filling, Below
<1>8. CASE g # 0
  <2>1. n - free \in Nat \ {0} /\ g = (n - free + RowsPerSlab - 1) \div RowsPerSlab
    BY <1>1, <1>3, <1>4, <1>8 DEF Growth
  <2>2. (g - 1) * RowsPerSlab < n - free /\ (g - 1) * RowsPerSlab \in Nat
    BY <1>4, <1>8, <2>1, Ceiling, SizeAssumption
  <2>3. PICK h \in Nat : h = g - 1
    BY <1>8
  <2>. DEFINE fewer == count \o [j \in 1..h |-> 0]
  <2>4. Cardinality(Free(fewer)) = free + h * RowsPerSlab
    <3>1. Len(count) + h <= MaxSlabs
      BY <1>2, <1>4, <1>5, <2>3, SizeAssumption
    <3>2. Cardinality(Free(count \o [j \in 1..h |-> 0])) = Cardinality(Free(count)) + h * RowsPerSlab
      BY <1>2, <2>3, <3>1, FreeGrown
    <3>. QED BY <1>3, <3>2
  <2>5. Below(count') \in SUBSET Free(fewer)
    <3>1. /\ Len(count') = Len(count) + g
          /\ \A m \in 1..Len(count) + g : count'[m] = IF m <= Len(count) THEN count[m] ELSE 0
      BY <1>2, <1>5, MarksGrown
    <3>2. /\ Len(fewer) = Len(count) + h
          /\ \A m \in 1..Len(count) + h : fewer[m] = IF m <= Len(count) THEN count[m] ELSE 0
      BY <1>2, MarksGrown
    <3>. HIDE DEF fewer
    <3>3. ASSUME NEW i \in Below(count') PROVE i \in Free(fewer)
      <4>1. i \in Slot /\ i[1] \in Nat \ {0} /\ i[1] < Len(count') /\ i[2] >= count'[i[1]]
        BY SizeAssumption DEF Below, Slot
      <4>2. i[1] \in 1..Len(count) + h /\ i[1] \in 1..Len(count) + g
        BY <1>2, <2>3, <3>1, <4>1
      <4>3. count'[i[1]] = fewer[i[1]]
        BY <3>1, <3>2, <4>2
      <4>. QED BY <3>2, <4>1, <4>2, <4>3 DEF Free
    <3>. QED BY <3>3
  <2>6. Cardinality(Below(count')) <= Cardinality(Free(fewer))
    BY <2>5, FreeFinite, FS_Subset
  <2>7. Len(todo') = n
    BY <1>1, <1>5
  <2>. HIDE DEF fewer
  <2>8. Cardinality(Below(count')) < Len(todo')
    BY <1>1, <2>1, <2>2, <2>3, <2>4, <2>6, <2>7, BelowFinite
  <2>. QED BY <2>8 DEF Filling, Below
<1>. QED BY <1>7, <1>8

\* A chunk fills the first slab with space, or is the batch's last one.
LEMMA BatchChunkFilling ==
  ASSUME Exact, Filling, NEW s \in 1..Len(count), BatchChunk(s)
  PROVE  Filling'
<1>. DEFINE n == ChunkLen(s)
            rs == SubSeq(todo, 1, n)
            fresh == Fresh(count, s, n)
<1>1. /\ count \in Seq(0..RowsPerSlab) /\ Len(count) \in Nat \ {0} /\ Len(count) <= MaxSlabs
      /\ \A m \in 1..Len(count) : count[m] \in 0..RowsPerSlab
      /\ todo \in Seq(Row) /\ Len(todo) \in Nat
      /\ FreeIn(s) > 0 /\ \A m \in 1..s - 1 : FreeIn(m) <= 0
      /\ Place(count, s, rs) /\ todo' = SubSeq(todo, n + 1, Len(todo))
  BY ExactTable, LenType DEF TypeOK, BatchChunk, HasSpace
<1>2. n \in 0..Len(todo) /\ count[s] + n <= RowsPerSlab
  <2>1. count[s] \in 0..RowsPerSlab /\ FreeIn(s) > 0 /\ Len(todo) \in Nat
    BY <1>1
  <2>. QED BY <2>1, SizeAssumption DEF ChunkLen, FreeIn
<1>. HIDE DEF n
<1>3. Len(rs) = n /\ Len(todo') = Len(todo) - n
  BY <1>1, <1>2
<1>4. count' = [count EXCEPT ![s] = @ + n]
  BY <1>1, <1>3 DEF Place
<1>5. /\ Len(count') = Len(count)
      /\ \A m \in 1..Len(count) : count'[m] = IF m = s THEN count[m] + n ELSE count[m]
  BY <1>1, <1>4
<1>6. \A i \in Slot : i[1] \in Nat \ {0} /\ i[2] \in Nat /\ i[2] < RowsPerSlab
  BY SizeAssumption DEF Slot
<1>7. CASE s = Len(count)
  <2>1. \A m \in 1..Len(count) - 1 : count'[m] = RowsPerSlab
    BY <1>1, <1>5, <1>7, SizeAssumption DEF FreeIn
  <2>2. Below(count') = {}
    <3>1. ASSUME NEW i \in Below(count') PROVE FALSE
      <4>1. i \in Slot /\ i[1] < Len(count) /\ i[2] >= count'[i[1]]
        BY <1>5, <3>1 DEF Below
      <4>2. i[1] \in 1..Len(count) - 1
        BY <1>1, <1>6, <4>1
      <4>3. count'[i[1]] = RowsPerSlab
        BY <2>1, <4>2
      <4>. QED BY <1>6, <4>1, <4>3, SizeAssumption
    <3>. QED BY <3>1
  <2>. QED BY <2>2 DEF Filling, Below
<1>8. CASE s # Len(count)
  <2>1. s < Len(count)
    BY <1>1, <1>8
  <2>2. fresh \in SUBSET Below(count)
    BY <2>1 DEF Fresh, Below
  <2>3. Below(count') = Below(count) \ fresh
    <3>1. ASSUME NEW i \in Slot PROVE i \in Below(count') <=> i \in Below(count) /\ i \notin fresh
      <4>1. CASE i[1] < Len(count)
        <5>1. i[1] \in 1..Len(count) /\ i[2] \in Nat /\ count[i[1]] \in Nat /\ n \in Nat
          <6>1. i[1] \in 1..Len(count)
            BY <1>1, <1>6, <4>1
          <6>2. n \in Nat
            BY <1>1, <1>2
          <6>. QED BY <1>1, <1>6, <6>1, <6>2, SizeAssumption
        <5>2. /\ i \in Below(count') <=> i[2] >= count'[i[1]]
              /\ i \in Below(count) <=> i[2] >= count[i[1]]
          BY <1>5, <4>1 DEF Below
        <5>3. i \in fresh <=> i[1] = s /\ i[2] \in count[s] .. count[s] + n - 1
          BY DEF Fresh
        <5>4. CASE i[1] = s
          <6>1. count'[i[1]] = count[s] + n
            BY <1>5, <5>1, <5>4
          <6>. QED BY <5>1, <5>2, <5>3, <5>4, <6>1
        <5>5. CASE i[1] # s
          <6>1. count'[i[1]] = count[i[1]]
            BY <1>5, <5>1, <5>5
          <6>. QED BY <5>2, <5>3, <5>5, <6>1
        <5>. QED BY <5>4, <5>5
      <4>2. CASE ~(i[1] < Len(count))
        BY <1>5, <4>2 DEF Below
      <4>. QED BY <4>1, <4>2
    <3>. QED BY <3>1 DEF Below
  <2>4. IsFiniteSet(fresh) /\ Cardinality(fresh) = n
    BY <1>1, <1>2, FreshCount
  <2>. HIDE DEF fresh
  <2>5. Cardinality(Below(count) \ fresh) = Cardinality(Below(count)) - n
    BY <2>2, <2>4, BelowFinite, FS_Difference, Below(count) \cap fresh = fresh
  <2>6. Below(count) # {}
    <3>. DEFINE p == count[s]
    <3>1. p \in 0..RowsPerSlab - 1 /\ s \in 1..MaxSlabs
      BY <1>1, SizeAssumption DEF FreeIn
    <3>2. <<s, p>> \in Slot
      BY <3>1 DEF Slot
    <3>3. p >= count[s]
      BY <1>1
    <3>. HIDE DEF p
    <3>4. <<s, p>> \in Below(count)
      BY <2>1, <3>2, <3>3 DEF Below
    <3>. QED BY <3>4
  <2>7. Cardinality(Below(count)) < Len(todo) /\ Cardinality(Below(count)) \in Nat
    BY <2>6, BelowFinite DEF Filling
  <2>8. Cardinality(Below(count')) < Len(todo')
    BY <1>1, <1>2, <1>3, <2>3, <2>5, <2>7
  <2>. QED BY <2>8 DEF Filling, Below
<1>. QED BY <1>7, <1>8

\* A reopened or compacted file has full slabs only, but for the last.
LEMMA FullFilling ==
  ASSUME TypeOK', \A s \in 1..Len(count') - 1 : count'[s] = RowsPerSlab
  PROVE  Filling'
<1>1. count' \in Seq(0..RowsPerSlab) /\ Len(count') <= MaxSlabs
  BY SizeAssumption DEF TypeOK
<1>2. Below(count') = {}
  BY <1>1, BelowFull
<1>. QED BY <1>2 DEF Filling, Below

\* Every step keeps the slabs full, or a batch filling them.
LEMMA FillingStep == ASSUME Faultless, Exact, Filling, [Next]_vars PROVE Filling'
<1>1. TypeOK /\ TypeOK' /\ Len(count) \in Nat
  BY ExactTable, TypeStep, LenType DEF TypeOK
<1>2. CASE Write
  <2>1. CASE \E r \in Given : Insert(r)
    BY <2>1, InsertFilling, RowAssumption
  <2>2. CASE \E s \in 1..Len(count) : BatchChunk(s)
    BY <2>2, BatchChunkFilling
  <2>3. CASE \E i \in Visible : Delete(i)
    BY <2>3 DEF Delete, Filling, Below
  <2>4. CASE \E n \in 1..MaxBatch : \E rs \in [1..n -> Given] : BatchStart(rs)
    BY <2>4, BatchStartFilling
  <2>5. CASE \E i \in Visible : \E m \in Merged(cells[i]) : Update(i, m) \/ UpdateFails(i, m)
    BY <2>5 DEF Update, UpdateFails, store, Filling, Below
  <2>. QED BY <1>2, <2>1, <2>2, <2>3, <2>4, <2>5, NoFailures DEF Write
<1>3. CASE CreateIndex \/ DropIndex \/ Fsck \/ Begin \/ Commit \/ Abort \/ Close
  BY <1>3 DEF CreateIndex, DropIndex, Fsck, Begin, Commit, Abort, Close, store, Filling, Below
<1>4. CASE Rollback
  BY <1>4 DEF Rollback, UndoInsert, UndoUpdate, UndoUpdateFails, UndoDelete, UndoDone, store, Filling, Below
<1>5. CASE Open
  <2>1. count' = Loaded
    BY <1>5 DEF Open
  <2>2. \A s \in 1..Len(count') - 1 : count'[s] = RowsPerSlab
    BY <1>1, <2>1 DEF Loaded
  <2>. QED BY <1>1, <2>2, FullFilling
<1>6. CASE Compact
  <2>. DEFINE m == SlabsFor(Cardinality(Visible))
  <2>1. count' = [s \in 1..m |-> IF s < m THEN RowsPerSlab ELSE Cardinality(Visible) - (s - 1) * RowsPerSlab]
    BY <1>6 DEF Compact
  <2>2. Len(count') = m /\ m \in Nat
    <3>1. m \in Nat
      BY <1>1, VisibleCount, SlabsForType
    <3>. HIDE DEF m
    <3>. QED BY <2>1, <3>1
  <2>. HIDE DEF m
  <2>3. \A s \in 1..Len(count') - 1 : count'[s] = RowsPerSlab
    BY <2>1, <2>2
  <2>. QED BY <1>1, <2>3, FullFilling
<1>7. CASE UNCHANGED vars
  BY <1>7 DEF vars, store, Filling, Below
<1>. QED BY <1>2, <1>3, <1>4, <1>5, <1>6, <1>7 DEF Next

\* A new file has one slab, the last.
LEMMA InitFilling == ASSUME Init PROVE Filling
<1>1. Len(count) = 1
  BY DEF Init
<1>2. \A i \in Slot : i[1] \in Nat \ {0}
  BY SizeAssumption DEF Slot
<1>3. Below(count) = {}
  BY <1>1, <1>2 DEF Below
<1>. QED BY <1>3 DEF Filling

\* core.py:786-789 counts every slab but the last as full when it opens a file:
\* with rows that encode and come back as given, they are.
THEOREM SlabsFullCorrect == ASSUME Faultless PROVE Spec => []SlabsFull
<1>1. Init => Filling
  BY InitFilling
<1>2. Exact /\ Filling /\ [Next]_vars => Filling'
  BY FillingStep
<1>3. Exact /\ Filling => SlabsFull
  <2>1. ASSUME Exact, Filling, todo = <<>> PROVE \A s \in 1..Len(count) - 1 : count[s] = RowsPerSlab
    <3>1. count \in Seq(0..RowsPerSlab) /\ Len(count) <= MaxSlabs
      BY <2>1, ExactTable, SizeAssumption DEF TypeOK
    <3>2. Len(todo) = 0
      BY <2>1
    <3>3. Below(count) = {}
      BY <2>1, <3>2, BelowFinite DEF Filling
    <3>. QED BY <3>1, <3>3, BelowFull
  <2>. QED BY <2>1 DEF SlabsFull
<1>. QED BY <1>1, <1>2, <1>3, ExactInvariant, PTL DEF Spec

-----------------------------------------------------------------------------
(* The refinement.                                                         *)

\* The refinement mapping, as RowStore gives it to Promise.
Shown == IF RollingBack /\ hist # <<>> THEN hist[1] ELSE Table
Used == {i \in Slot : InSlabs(count, i)}
Saved == IF InTx THEN hist[1] ELSE <<>>

\* A step that changes none of the three does not show.
LEMMA Stutters ==
  ASSUME UNCHANGED <<Shown, Used, Saved>>
  PROVE  UNCHANGED Promise!vars
BY DEF Promise!vars, Shown, Used, Saved

\* Outside a rollback the table is what get() shows.
LEMMA ShownTable ==
  /\ phase \notin {"abort", "closing"} => Shown = Table
  /\ phase' \notin {"abort", "closing"} => Shown' = Table'
BY DEF Shown, RollingBack

\* Tables added to the history leave its first one in place.
LEMMA FirstKept ==
  ASSUME TypeOK, hist # <<>>, NEW added \in Seq(Tables), hist' = hist \o added
  PROVE  hist' # <<>> /\ hist'[1] = hist[1]
<1>1. hist \in Seq(Tables)
  BY DEF TypeOK, Tables
<1>2. Len(hist) \in Nat \ {0} /\ Len(added) \in Nat
  BY <1>1, EmptySeq
<1>3. /\ Len(hist') = Len(hist) + Len(added)
      /\ \A n \in 1..Len(hist) + Len(added) :
           hist'[n] = IF n <= Len(hist) THEN hist[n] ELSE added[n - Len(hist)]
  BY <1>1, Joined
<1>. QED BY <1>2, <1>3

\* A transaction has a first table, and it is a table.
LEMMA FirstTable ==
  ASSUME Exact, InTx
  PROVE  hist # <<>> /\ hist[1] \in Tables
<1>1. hist # <<>> /\ hist \in Seq(Tables)
  BY ExactTable DEF Chained, InTx, TypeOK, Tables
<1>2. 1 \in 1..Len(hist)
  BY <1>1, EmptySeq
<1>. QED BY <1>1, <1>2, ElementOfSeq

\* No table is the value of saved outside a transaction.
LEMMA TableNotEmpty == \A t \in Tables : t # <<>>
<1>1. <<1, 0>> \in Slot
  BY SizeAssumption DEF Slot
<1>2. DOMAIN <<>> = {}
  OBVIOUS
<1>. QED BY <1>1, <1>2 DEF Tables

-----------------------------------------------------------------------------
(* The steps that show.                                                    *)

\* Placing rows hands out the slots above the mark and nothing else.
LEMMA PlaceRefines ==
  ASSUME Faultless, Exact, phase \in {"open", "tx"}, TypeOK', Exact',
         NEW cnt \in Seq(0..RowsPerSlab), Len(cnt) <= MaxSlabs,
         \A i \in Slot : InSlabs(count, i) <=> InSlabs(cnt, i),
         NEW s \in 1..Len(cnt), NEW rs \in Seq(Row), Len(rs) > 0, cnt[s] + Len(rs) <= RowsPerSlab,
         Place(cnt, s, rs)
  PROVE  Promise!InsertRows
<1>. DEFINE new == Fresh(cnt, s, Len(rs))
            pos(i) == Position(cnt, s, i)
<1>1. /\ Len(rs) \in Nat \ {0} /\ cnt[s] \in Nat
      /\ \A i \in Slot : i[1] \in Nat \ {0} /\ i[2] \in Nat
  BY SizeAssumption DEF Slot
<1>2. /\ cells' = Filled(cells, cnt, s, rs) /\ live' = live \cup new
      /\ count' = [cnt EXCEPT ![s] = @ + Len(rs)] /\ phase' = phase
  BY DEF Place
<1>3. /\ At(cnt, s, 1) \in new
      /\ \A i \in new : i \in Slot /\ pos(i) \in 1..Len(rs) /\ At(cnt, s, pos(i)) = i
      /\ \A j \in 1..Len(rs) : ~InSlabs(cnt, At(cnt, s, j))
  BY <1>1, FreshPositions
<1>4. new \in (SUBSET (Slot \ Used)) \ {{}}
  <2>1. \A i \in new : i \in Slot /\ ~InSlabs(cnt, i)
    BY <1>3
  <2>. HIDE DEF new
  <2>. QED BY <1>3, <2>1 DEF Used
<1>5. /\ cells \in Tables /\ live \in SUBSET Slot
      /\ \A i \in Slot : Filled(cells, cnt, s, rs)[i] = IF i \in new THEN rs[pos(i)] ELSE cells[i]
  <2>1. cells \in Tables /\ live \in SUBSET Slot
    BY ExactTable DEF TypeOK, Tables
  <2>. QED BY <2>1, FilledAt
<1>6. /\ \A i \in Slot \ new : Table'[i] = Table[i]
      /\ \A i \in new : Table'[i] # Absent
  BY <1>2, <1>3, <1>5, RowFields DEF Table
<1>7. Table' \in Tables /\ KeysDistinct(Table')
  BY DEF Exact, TypeOK, Table, Tables
<1>8. Used' = Used \cup new
  <2>1. Len(count') = Len(cnt) /\ \A m \in 1..Len(cnt) : count'[m] = IF m = s THEN cnt[m] + Len(rs) ELSE cnt[m]
    BY <1>1, <1>2
  <2>2. ASSUME NEW i \in Slot PROVE InSlabs(count', i) <=> InSlabs(cnt, i) \/ i \in new
    <3>1. i \in new <=> i[1] = s /\ i[2] \in cnt[s] .. cnt[s] + Len(rs) - 1
      BY DEF Fresh
    <3>2. CASE i[1] = s
      <4>1. count'[i[1]] = cnt[s] + Len(rs) /\ i[1] <= Len(cnt)
        BY <2>1, <3>2
      <4>. QED BY <1>1, <2>1, <3>1, <3>2, <4>1 DEF InSlabs
    <3>3. CASE i[1] # s
      <4>1. i[1] <= Len(cnt) => count'[i[1]] = cnt[i[1]]
        BY <1>1, <2>1, <3>3
      <4>. QED BY <2>1, <3>1, <3>3, <4>1 DEF InSlabs
    <3>. QED BY <3>2, <3>3
  <2>3. \A i \in Slot : i \in Used' <=> i \in Used \/ i \in new
    BY <2>2 DEF Used
  <2>. QED BY <1>3, <2>3 DEF Used
<1>9. Saved' = Saved
  <2>1. CASE InTx
    <3>. DEFINE added == [j \in 1..Len(rs) |-> Filled(Table, cnt, s, SubSeq(rs, 1, j))]
    <3>1. hist' = hist \o added
      BY <2>1 DEF Place
    <3>2. ASSUME NEW j \in 1..Len(rs) PROVE Filled(Table, cnt, s, SubSeq(rs, 1, j)) \in Tables
      <4>1. SubSeq(rs, 1, j) \in Seq(Row) /\ Table \in [Slot -> Row \cup {Absent}]
        BY <1>1, ExactTable DEF Tables
      <4>. DEFINE part == SubSeq(rs, 1, j)
      <4>. HIDE DEF part
      <4>2. part \in Seq(Row)
        BY <4>1 DEF part
      <4>3. Filled(Table, cnt, s, part) \in [Slot -> Row \cup {Absent}]
        BY <4>1, <4>2, FilledType
      <4>. QED BY <4>3 DEF Tables, part
    <3>3. added \in Seq(Tables)
      BY <1>1, <3>2
    <3>. HIDE DEF added
    <3>4. hist # <<>> /\ TypeOK
      BY <2>1, FirstTable, ExactTable
    <3>. QED BY <1>2, <3>1, <3>3, <3>4, FirstKept DEF Saved, InTx
  <2>2. CASE ~InTx
    BY <1>2, <2>2 DEF Saved, InTx
  <2>. QED BY <2>1, <2>2
<1>10. Shown = Table /\ Shown' = Table'
  BY <1>2, ShownTable
<1>. HIDE DEF new
<1>11. Promise!Present(Shown') = Promise!Present(Shown) \cup new
  BY <1>3, <1>6, <1>10 DEF Promise!Present
<1>12. Promise!KeysDistinct(Shown')
  BY <1>7, <1>10 DEF Promise!KeysDistinct, Promise!Present, KeysDistinct
<1>13. Shown' \in Promise!Table
  BY <1>7, <1>10 DEF Promise!Table, Tables
<1>14. \A i \in Slot \ new : Shown'[i] = Shown[i]
  BY <1>6, <1>10
<1>. QED BY <1>4, <1>8, <1>9, <1>11, <1>12, <1>13, <1>14 DEF Promise!InsertRows, Shown, Used, Saved

\* insert hands out one index.
LEMMA InsertRefines ==
  ASSUME Faultless, Exact, TypeOK', Exact', NEW r \in Row, Insert(r)
  PROVE  Promise!InsertRows
<1>1. /\ phase \in {"open", "tx"} /\ Len(Expanded) <= MaxSlabs
      /\ Place(Expanded, Len(Expanded), <<r>>)
  BY DEF Insert, Ready
<1>2. /\ Expanded \in Seq(0..RowsPerSlab) /\ Len(Expanded) \in 1..Len(Expanded)
      /\ Expanded[Len(Expanded)] < RowsPerSlab
      /\ \A i \in Slot : InSlabs(count, i) <=> InSlabs(Expanded, i)
  BY <1>1, ExactTable, ExpandedType, ExpandedSlabs
<1>3. <<r>> \in Seq(Row) /\ Len(<<r>>) = 1
  OBVIOUS
<1>4. Expanded[Len(Expanded)] + Len(<<r>>) <= RowsPerSlab
  <2>1. Expanded[Len(Expanded)] \in 0..RowsPerSlab
    BY <1>2, ElementOfSeq
  <2>. QED BY <1>2, <1>3, <2>1, SizeAssumption
<1>. DEFINE rs == <<r>>
<1>5. /\ Place(Expanded, Len(Expanded), rs) /\ rs \in Seq(Row) /\ Len(rs) > 0
      /\ Expanded[Len(Expanded)] + Len(rs) <= RowsPerSlab
  BY <1>1, <1>3, <1>4
<1>. HIDE DEF rs
<1>. QED BY <1>1, <1>2, <1>5, PlaceRefines

\* A chunk hands out as many as it has rows.
LEMMA BatchChunkRefines ==
  ASSUME Faultless, Exact, TypeOK', Exact', NEW s \in 1..Len(count), BatchChunk(s)
  PROVE  Promise!InsertRows
<1>. DEFINE n == ChunkLen(s)
            rs == SubSeq(todo, 1, n)
<1>1. /\ todo # <<>> /\ todo \in Seq(Row) /\ phase \in {"open", "tx"}
      /\ Place(count, s, rs) /\ FreeIn(s) > 0 /\ FreeIn(s) = RowsPerSlab - count[s]
      /\ count \in Seq(0..RowsPerSlab) /\ Len(count) <= MaxSlabs /\ count[s] \in 0..RowsPerSlab
  BY ExactTable, LenType, SMTT(60) DEF BatchChunk, BatchValid, TypeOK, HasSpace, FreeIn
<1>2. n \in 1..Len(todo) /\ count[s] + n <= RowsPerSlab
  <2>1. Len(todo) \in Nat \ {0}
    BY <1>1, EmptySeq
  <2>. QED BY <1>1, <2>1, SizeAssumption DEF ChunkLen
<1>. HIDE DEF n
<1>3. rs \in Seq(Row) /\ Len(rs) = n /\ n > 0
  BY <1>1, <1>2
<1>4. count[s] + Len(rs) <= RowsPerSlab
  BY <1>2, <1>3
<1>. HIDE DEF rs
<1>5. \A i \in Slot : InSlabs(count, i) <=> InSlabs(count, i)
  OBVIOUS
<1>6. rs \in Seq(Row) /\ Len(rs) > 0
  BY <1>3
<1>. QED BY <1>1, <1>4, <1>5, <1>6, PlaceRefines

\* update and delete record one table.
LEMMA RecordedSaved ==
  ASSUME Exact, phase \in {"open", "tx"}, phase' = phase,
         NEW op, NEW i, NEW after \in Tables, Recorded(op, i, after)
  PROVE  Saved' = Saved
<1>1. CASE InTx
  <2>1. hist # <<>> /\ TypeOK /\ hist \in Seq(Tables)
    BY <1>1, FirstTable, ExactTable DEF TypeOK, Tables
  <2>2. hist' = hist \o <<after>> /\ <<after>> \in Seq(Tables)
    <3>1. hist' = Append(hist, after)
      BY <1>1 DEF Recorded
    <3>. QED BY <2>1, <3>1
  <2>3. hist'[1] = hist[1]
    BY <2>1, <2>2, FirstKept
  <2>. QED BY <1>1, <2>3 DEF Saved, InTx
<1>2. CASE ~InTx
  BY <1>2 DEF Saved, InTx
<1>. QED BY <1>1, <1>2

\* update is an update of the table, at the row's own index.
LEMMA UpdateRefines ==
  ASSUME Faultless, Exact, TypeOK', Exact', NEW i \in Slot, NEW m \in Row, Update(i, m)
  PROVE  Promise!UpdateRow(i)
<1>. DEFINE t1 == [Table EXCEPT ![i] = m]
<1>1. /\ phase \in {"open", "tx"} /\ i \in live /\ cells' = [cells EXCEPT ![i] = m]
      /\ Recorded("update", i, t1)
      /\ UNCHANGED <<live, count, phase>>
  BY DEF Update, Ready, Faultless
<1>2. Table' = t1 /\ Table \in Tables /\ KeysDistinct(t1) /\ Table[i] # Absent
  <2>1. Table' = t1 /\ Table \in Tables /\ Table[i] # Absent
    BY <1>1, ExactTable, TableAt DEF Table, TypeOK
  <2>. QED BY <2>1 DEF Exact
<1>3. t1 \in Tables
  BY <1>2 DEF Tables
<1>4. Saved' = Saved
  BY <1>1, <1>3, RecordedSaved
<1>5. Shown = Table /\ Shown' = t1 /\ Used' = Used
  BY <1>1, <1>2, ShownTable DEF Used
<1>6. Promise!KeysDistinct(Shown') /\ i \in Promise!Present(Shown)
  BY <1>2, <1>5 DEF Promise!KeysDistinct, Promise!Present, KeysDistinct
<1>. QED BY <1>4, <1>5, <1>6 DEF Promise!UpdateRow, Shown, Used, Saved

\* delete is a deletion from it.
LEMMA DeleteRefines ==
  ASSUME Exact, NEW i \in Slot, Delete(i)
  PROVE  Promise!DeleteRow(i)
<1>. DEFINE t1 == [Table EXCEPT ![i] = Absent]
<1>1. /\ phase \in {"open", "tx"} /\ i \in live /\ live' = live \ {i}
      /\ Recorded("delete", i, t1) /\ UNCHANGED <<cells, count, phase>>
  BY DEF Delete, Ready
<1>2. Table' = t1 /\ Table \in Tables /\ Table[i] # Absent
  BY <1>1, ExactTable, TableAt DEF Table, TypeOK
<1>3. t1 \in Tables
  BY <1>2 DEF Tables
<1>4. Saved' = Saved
  BY <1>1, <1>3, RecordedSaved
<1>5. Shown = Table /\ Shown' = t1 /\ Used' = Used
  BY <1>1, <1>2, ShownTable DEF Used
<1>6. i \in Promise!Present(Shown)
  BY <1>2, <1>5 DEF Promise!Present
<1>. QED BY <1>4, <1>5, <1>6 DEF Promise!DeleteRow, Shown, Used, Saved

\* A transaction saves the table it starts from, forgets it at a commit, and
\* goes back to it when its rollback starts.
LEMMA TransactionRefines ==
  ASSUME Exact, Begin \/ Commit \/ Abort \/ Close
  PROVE  Promise!Begin \/ Promise!Commit \/ Promise!Abort \/ UNCHANGED <<Shown, Used, Saved>>
<1>1. UNCHANGED <<cells, live, count>> /\ Table' = Table /\ Used' = Used
  BY DEF Begin, Commit, Abort, Close, store, Table, Used
<1>2. CASE Begin
  <2>1. phase = "open" /\ phase' = "tx" /\ hist' = <<Table>>
    BY <1>2 DEF Begin
  <2>2. Saved = <<>> /\ Saved' = Table /\ Shown = Table /\ Shown' = Table
    BY <1>1, <2>1, ShownTable DEF Saved, InTx
  <2>3. Promise!Begin
    BY <1>1, <2>2 DEF Promise!Begin, Shown, Used, Saved
  <2>. QED BY <2>3
<1>3. CASE Commit
  <2>1. InTx /\ phase = "tx" /\ phase' = "open"
    BY <1>3 DEF Commit, EndTx, InTx
  <2>2. Saved # <<>> /\ Saved' = <<>> /\ Shown = Table /\ Shown' = Table
    BY <1>1, <2>1, ShownTable, FirstTable, TableNotEmpty DEF Saved, InTx
  <2>3. Promise!Commit
    BY <1>1, <2>2 DEF Promise!Commit, Shown, Used, Saved
  <2>. QED BY <2>3
<1>4. CASE (Abort \/ Close) /\ InTx
  <2>1. phase = "tx" /\ phase' \in {"abort", "closing"} /\ hist' = hist
    BY <1>4 DEF Abort, Close, InTx
  <2>2. hist # <<>> /\ hist[1] \in Tables
    BY <1>4, FirstTable
  <2>3. Saved = hist[1] /\ Saved # <<>> /\ Saved' = <<>> /\ Shown' = hist[1]
    BY <2>1, <2>2, TableNotEmpty DEF Saved, Shown, InTx, RollingBack
  <2>4. Promise!Abort
    BY <1>1, <2>3 DEF Promise!Abort, Shown, Used, Saved
  <2>. QED BY <2>4
<1>5. CASE Close /\ ~InTx
  <2>1. phase = "open" /\ phase' = "closing" /\ hist' = hist
    BY <1>5 DEF Close, Ready, InTx
  <2>2. hist' = <<>>
    BY <2>1, ExactTable DEF TypeOK
  <2>. QED BY <1>1, <2>1, <2>2 DEF Shown, Saved, RollingBack, InTx
<1>6. Abort => InTx
  BY DEF Abort
<1>. QED BY <1>2, <1>3, <1>4, <1>5, <1>6

\* Undoing records does not show: the abort already did.
LEMMA RollbackRefines ==
  ASSUME Faultless, Exact, Rollback
  PROVE  UNCHANGED <<Shown, Used, Saved>>
<1>1. phase \in {"abort", "closing"} /\ count' = count /\ hist \in Seq(Tables)
  BY ExactTable DEF Rollback, UndoInsert, UndoUpdate, UndoUpdateFails, UndoDelete, UndoDone, RollingBack,
                    store, TypeOK, Tables
<1>2. Used' = Used /\ Saved = <<>>
  BY <1>1 DEF Used, Saved, InTx
<1>3. CASE UndoInsert \/ UndoUpdate \/ UndoDelete
  <2>1. undo # <<>> /\ phase' = phase /\ hist' = SubSeq(hist, 1, Len(hist) - 1)
    BY <1>3 DEF UndoInsert, UndoUpdate, UndoDelete, Shortened
  <2>2. hist # <<>> /\ Len(undo) \in Nat \ {0} /\ Len(hist) = Len(undo) + 1
    BY <2>1, ExactTable, ChainEnd
  <2>3. Len(hist) - 1 \in 0..Len(hist) /\ 1 \in 1..Len(hist) - 1
    BY <2>2
  <2>4. Len(hist') = Len(hist) - 1 /\ \A n \in 1..Len(hist) - 1 : hist'[n] = hist[n]
    BY <1>1, <2>1, <2>3, Cut
  <2>5. hist' # <<>> /\ hist'[1] = hist[1]
    BY <2>2, <2>3, <2>4
  <2>. QED BY <1>1, <1>2, <2>1, <2>2, <2>5 DEF Shown, Saved, RollingBack, InTx
<1>4. CASE UndoDone
  <2>1. undo = <<>> /\ phase' \in {"open", "closed"} /\ Table' = Table
    BY <1>4 DEF UndoDone, store, Table
  <2>2. hist # <<>> => hist[1] = Table
    <3>1. Len(undo) = 0
      BY <2>1
    <3>2. hist # <<>> => Len(hist) = 1 /\ hist[Len(hist)] = Table
      BY <3>1, ExactTable DEF Chained
    <3>. QED BY <3>2
  <2>. QED BY <1>2, <2>1, <2>2 DEF Shown, Saved, RollingBack, InTx
<1>5. ~UndoUpdateFails
  BY <1>1, UndoUpdateSucceeds DEF UndoUpdateFails
<1>. QED BY <1>3, <1>4, <1>5 DEF Rollback

\* A reopened file has handed out what it had handed out before it was closed:
\* its slabs are full, but for the last.
LEMMA OpenRefines ==
  ASSUME Exact, Filling, Open
  PROVE  UNCHANGED <<Shown, Used, Saved>>
<1>1. phase = "closed" /\ phase' = "open" /\ count' = Loaded /\ Table' = Table
  BY DEF Open, Table
<1>2. count \in Seq(0..RowsPerSlab) /\ Len(count) \in Nat \ {0} /\ Len(count) <= MaxSlabs /\ todo = <<>>
  BY <1>1, ExactTable, LenType DEF TypeOK, BatchValid
<1>3. \A s \in 1..Len(count) - 1 : count[s] = RowsPerSlab
  <2>1. Len(todo) = 0
    BY <1>2
  <2>2. Below(count) = {}
    BY <2>1, BelowFinite DEF Filling
  <2>. QED BY <1>2, <2>2, BelowFull
<1>4. Len(Loaded) = Len(count) /\ \A s \in 1..Len(count) : Loaded[s] = count[s]
  BY <1>2, <1>3 DEF Loaded
<1>5. \A i \in Slot : InSlabs(count', i) <=> InSlabs(count, i)
  <2>1. \A i \in Slot : i[1] \in Nat \ {0}
    BY SizeAssumption DEF Slot
  <2>. QED BY <1>1, <1>2, <1>4, <2>1 DEF InSlabs
<1>. QED BY <1>1, <1>5, ShownTable DEF Used, Saved, InTx

\* Growing the file before a batch hands out nothing.
LEMMA BatchStartRefines ==
  ASSUME Exact, NEW n \in 1..MaxBatch, NEW rs \in [1..n -> Given], BatchStart(rs)
  PROVE  UNCHANGED <<Shown, Used, Saved>>
<1>1. n \in Nat /\ Len(rs) = n /\ count \in Seq(0..RowsPerSlab) /\ Len(count) \in Nat
  BY ExactTable, SizeAssumption DEF TypeOK
<1>2. PICK g \in Nat : g = Growth(n)
  BY <1>1, ExactTable, GrowthType
<1>3. count' = count \o [j \in 1..g |-> 0] /\ UNCHANGED <<cells, live, phase, hist>>
  BY <1>1, <1>2 DEF BatchStart, tx
<1>4. /\ Len(count') = Len(count) + g
      /\ \A m \in 1..Len(count) + g : count'[m] = IF m <= Len(count) THEN count[m] ELSE 0
  BY <1>1, <1>3, MarksGrown
<1>5. ASSUME NEW i \in Slot PROVE InSlabs(count', i) <=> InSlabs(count, i)
  <2>1. i[1] \in Nat \ {0} /\ i[2] \in Nat
    BY SizeAssumption DEF Slot
  <2>2. CASE i[1] <= Len(count)
    <3>1. count'[i[1]] = count[i[1]]
      BY <1>1, <1>2, <1>4, <2>1, <2>2
    <3>. QED BY <1>1, <1>2, <1>4, <2>1, <2>2, <3>1 DEF InSlabs
  <2>3. CASE ~(i[1] <= Len(count))
    <3>1. i[1] <= Len(count') => count'[i[1]] = 0
      BY <1>1, <1>2, <1>4, <2>1, <2>3
    <3>. QED BY <2>1, <2>3, <3>1 DEF InSlabs
  <2>. QED BY <2>2, <2>3
<1>. QED BY <1>3, <1>5 DEF Shown, Used, Saved, RollingBack, InTx, Table

-----------------------------------------------------------------------------
(* compact.                                                                *)

\* Every rank below the number of rows is the rank of a row.
LEMMA RankOnto ==
  ASSUME TypeOK, NEW m \in Nat, m < Cardinality(Visible)
  PROVE  \E i \in Visible : Rank(i) = m
<1>. SUFFICES ASSUME \A i \in Visible : Rank(i) # m PROVE FALSE
  OBVIOUS
<1>1. PICK n \in Nat \ {0} : n = Cardinality(Visible) /\ IsFiniteSet(Visible) /\ m < n
  BY VisibleCount, FS_CardinalityType
<1>. DEFINE others == (0..n - 1) \ {m}
            rank == [i \in Visible |-> Rank(i)]
<1>2. IsFiniteSet(others) /\ Cardinality(others) < n
  <2>. DEFINE ranks == 0..n - 1
  <2>1. IsFiniteSet(ranks) /\ Cardinality(ranks) = n
    <3>1. ranks = 0 .. 0 + n - 1
      OBVIOUS
    <3>. QED BY <3>1, IntervalCount
  <2>2. m \in ranks
    BY <1>1
  <2>. HIDE DEF ranks
  <2>3. IsFiniteSet(ranks \ {m}) /\ Cardinality(ranks \ {m}) = n - 1
    BY <2>1, <2>2, FS_RemoveElement
  <2>. QED BY <2>3 DEF ranks
<1>3. \A i \in Visible : Rank(i) \in others
  BY <1>1, RankType
<1>. HIDE DEF others
<1>4. rank \in [Visible -> others]
  BY <1>3
<1>5. \E i, j \in Visible : i # j /\ rank[i] = rank[j]
  <2>. HIDE DEF rank
  <2>. QED BY <1>1, <1>2, <1>4, FS_PigeonHole
<1>. QED BY <1>5, MovedApart

\* The number of a slot, and back.
LEMMA SlotNumber ==
  ASSUME NEW i \in Slot
  PROVE  LET m == (i[1] - 1) * RowsPerSlab + i[2] IN m \in Nat /\ Nth(m) = i
<1>1. PICK q \in Nat, r \in 0..RowsPerSlab - 1 : i = <<q + 1, r>> /\ i[1] = q + 1 /\ i[2] = r
  <2>1. i[1] - 1 \in Nat /\ i[2] \in 0..RowsPerSlab - 1 /\ i = <<i[1], i[2]>>
    BY SizeAssumption DEF Slot
  <2>2. PICK q \in Nat : q = i[1] - 1
    BY <2>1
  <2>3. i[1] = q + 1
    <3>1. i[1] \in Nat
      BY SizeAssumption DEF Slot
    <3>. QED BY <2>2, <3>1
  <2>. QED BY <2>1, <2>3
<1>2. PICK m \in Nat : m = q * RowsPerSlab + r
  BY SizeAssumption
<1>3. m \div RowsPerSlab = q /\ m % RowsPerSlab = r
  BY <1>2, DivUnique, SizeAssumption
<1>4. (i[1] - 1) * RowsPerSlab + i[2] = m
  BY <1>1, <1>2
<1>5. Nth(m) = i
  BY <1>1, <1>3 DEF Nth
<1>. QED BY <1>4, <1>5

\* A slot below the marks of a compacted file has the number of one of its rows.
LEMMA MarkedNumber ==
  ASSUME NEW n \in 0..MaxSlabs * RowsPerSlab, NEW cnt,
         cnt = [s \in 1..SlabsFor(n) |->
                 IF s < SlabsFor(n) THEN RowsPerSlab ELSE n - (s - 1) * RowsPerSlab],
         NEW i \in Slot, InSlabs(cnt, i)
  PROVE  (i[1] - 1) * RowsPerSlab + i[2] < n
<1>1. PICK m \in 1..MaxSlabs : m = SlabsFor(n)
  BY SlabsForType
<1>2. i[1] \in 1..m /\ i[2] \in 0..RowsPerSlab - 1 /\ i[2] < cnt[i[1]]
  <2>1. Len(cnt) = m
    BY <1>1
  <2>2. i[1] \in Nat \ {0} /\ i[2] \in 0..RowsPerSlab - 1
    BY SizeAssumption DEF Slot
  <2>3. i[1] <= m /\ i[2] < cnt[i[1]]
    BY <2>1 DEF InSlabs
  <2>. QED BY <2>2, <2>3, SizeAssumption
<1>3. PICK s \in 1..m, p \in 0..RowsPerSlab - 1 : s = i[1] /\ p = i[2]
  BY <1>2
<1>4. CASE s = m
  <2>1. p < n - (s - 1) * RowsPerSlab
    BY <1>1, <1>2, <1>3, <1>4
  <2>2. (s - 1) * RowsPerSlab \in Int /\ n \in Int
    BY SizeAssumption
  <2>. QED BY <1>3, <2>1, <2>2, SizeAssumption, SMTT(60)
<1>5. CASE s # m
  <2>1. n # 0
    BY <1>1, <1>5 DEF SlabsFor
  <2>2. (m - 1) * RowsPerSlab < n
    <3>1. m = (n + RowsPerSlab - 1) \div RowsPerSlab
      BY <1>1, <2>1 DEF SlabsFor
    <3>2. n \in Nat \ {0}
      BY <2>1, SizeAssumption
    <3>. QED BY <3>1, <3>2, Ceiling, SizeAssumption
  <2>3. s * RowsPerSlab <= (m - 1) * RowsPerSlab
    <3>1. s <= m - 1 /\ s \in Nat /\ m \in Nat
      BY <1>5, SizeAssumption
    <3>. QED BY <3>1, SizeAssumption
  <2>4. (s - 1) * RowsPerSlab + p < s * RowsPerSlab
    BY SizeAssumption
  <2>5. PICK a \in Int, b \in Int, c \in Int :
           a = (s - 1) * RowsPerSlab /\ b = s * RowsPerSlab /\ c = (m - 1) * RowsPerSlab
    BY SizeAssumption
  <2>6. c < n /\ b <= c /\ a + p < b
    BY <2>2, <2>3, <2>4, <2>5
  <2>7. a + p < n
    BY <2>5, <2>6, SizeAssumption
  <2>. QED BY <1>3, <2>5, <2>7
<1>. QED BY <1>4, <1>5

\* compact moves every row to an index of its own, and hands out no other.
LEMMA CompactRefines ==
  ASSUME Exact, TypeOK', Compact
  PROVE  Promise!Compact
<1>. DEFINE n == Cardinality(Visible)
            moved == [i \in Visible |-> Nth(Rank(i))]
            from(s) == CHOOSE i \in Visible : moved[i] = s
            kept == {moved[i] : i \in Visible}
            cells1 == [s \in Slot |-> IF s \in kept THEN cells[from(s)] ELSE ZeroRow]
<1>1. TypeOK /\ n \in 0..MaxSlabs * RowsPerSlab
  BY VisibleCount, ExactTable
<1>2. /\ cells' = cells1 /\ live' = kept
      /\ count' = [s \in 1..SlabsFor(n) |->
                    IF s < SlabsFor(n) THEN RowsPerSlab ELSE n - (s - 1) * RowsPerSlab]
      /\ phase = "open" /\ phase' = "open"
  BY DEF Compact
<1>3. \A i \in Visible : /\ moved[i] = Nth(Rank(i)) /\ Rank(i) \in Nat /\ Rank(i) < n
                         /\ moved[i] \in Slot /\ InSlabs(count', moved[i])
  <2>1. \A i \in Visible : moved[i] = Nth(Rank(i)) /\ Rank(i) \in Nat /\ Rank(i) < n
    BY <1>1, RankType
  <2>. HIDE DEF n
  <2>. QED BY <1>1, <1>2, <2>1, NthType, NthMarked
<1>4. \A i, j \in Visible : moved[i] = moved[j] => i = j
  BY <1>1, MovedApart
<1>5. ASSUME NEW i \in Slot, InSlabs(count', i) PROVE i \in kept
  <2>1. PICK m \in Nat : m = (i[1] - 1) * RowsPerSlab + i[2] /\ Nth(m) = i
    BY SlotNumber
  <2>2. m < n
    <3>. HIDE DEF n
    <3>. QED BY <1>1, <1>2, <1>5, <2>1, MarkedNumber
  <2>3. PICK j \in Visible : Rank(j) = m
    BY <1>1, <2>2, RankOnto
  <2>. QED BY <2>1, <2>3
<1>6. kept \in SUBSET Slot /\ Used' = kept
  <2>1. kept \in SUBSET Slot /\ \A s \in kept : InSlabs(count', s)
    BY <1>3
  <2>. HIDE DEF kept
  <2>. QED BY <1>5, <2>1 DEF Used
<1>7. \A i \in Visible : from(moved[i]) = i
  BY <1>4
<1>8. /\ Visible = live /\ live \in SUBSET Slot /\ Table \in Tables
      /\ \A i \in Slot : /\ i \in live => Table[i] = cells[i] /\ Table[i] # Absent
                         /\ i \notin live => Table[i] = Absent
  BY ExactTable, TableAt DEF TypeOK
<1>9. \A i \in Visible : moved[i] \in kept
  OBVIOUS
<1>. HIDE DEF moved, from, kept
<1>10. \A i \in Visible : cells'[moved[i]] = cells[i]
  BY <1>2, <1>6, <1>7, <1>9
<1>11. /\ Table' \in Tables
       /\ \A s \in Slot : Table'[s] # Absent <=> s \in kept
       /\ \A i \in Visible : Table'[moved[i]] = Table[i]
  <2>1. cells' \in [Slot -> Row] /\ Table' \in Tables
    BY DEF TypeOK, Table, Tables
  <2>2. \A s \in Slot : Table'[s] # Absent <=> s \in kept
    BY <1>2, <2>1, MarkAssumption DEF Table
  <2>3. \A i \in Visible : Table'[moved[i]] = cells'[moved[i]]
    BY <1>2, <1>6, <1>9 DEF Table
  <2>. QED BY <1>8, <1>10, <2>1, <2>2, <2>3
<1>12. Shown = Table /\ Shown' = Table' /\ Saved = <<>> /\ Saved' = <<>>
  BY <1>2, ShownTable DEF Saved, InTx
<1>13. Promise!Present(Shown) = Visible /\ Promise!Present(Shown') = kept
  BY <1>6, <1>8, <1>11, <1>12 DEF Promise!Present
<1>14. moved \in [Promise!Present(Shown) -> Slot]
  BY <1>3, <1>13 DEF moved
<1>15. kept = {moved[i] : i \in Promise!Present(Shown)}
  BY <1>13 DEF kept
<1>16. Shown' \in Promise!Table
  BY <1>11, <1>12 DEF Promise!Table, Tables
<1>17. /\ \A i, j \in Promise!Present(Shown) : moved[i] = moved[j] => i = j
       /\ \A i \in Promise!Present(Shown) : Shown'[moved[i]] = Shown[i]
       /\ Promise!Present(Shown') = Used'
  BY <1>4, <1>6, <1>11, <1>12, <1>13
<1>. HIDE DEF kept
<1>18. \E move \in [Promise!Present(Shown) -> Slot] :
         /\ \A i, j \in Promise!Present(Shown) : move[i] = move[j] => i = j
         /\ Used' = {move[i] : i \in Promise!Present(Shown)}
         /\ \A i \in Promise!Present(Shown) : Shown'[move[i]] = Shown[i]
  BY <1>6, <1>14, <1>15, <1>17
<1>. QED BY <1>12, <1>16, <1>17, <1>18 DEF Promise!Compact, Shown, Used, Saved

-----------------------------------------------------------------------------

\* Every step of RowStore is a step of the table, or does not show.
LEMMA StepRefines ==
  ASSUME Faultless, Exact, Filling, [Next]_vars
  PROVE  [Promise!Next]_(Promise!vars)
<1>1. TypeOK' /\ Exact' /\ Visible \in SUBSET Slot
  BY ExactTable, TypeStep, StepExact, VisibleType
<1>2. CASE Write
  <2>1. CASE \E r \in Given : Insert(r)
    BY <1>1, <2>1, InsertRefines, RowAssumption DEF Promise!Next
  <2>2. CASE \E s \in 1..Len(count) : BatchChunk(s)
    BY <1>1, <2>2, BatchChunkRefines DEF Promise!Next
  <2>3. CASE \E n \in 1..MaxBatch : \E rs \in [1..n -> Given] : BatchStart(rs)
    BY <2>3, BatchStartRefines, Stutters
  <2>4. CASE \E i \in Visible : \E m \in Merged(cells[i]) : Update(i, m)
    <3>1. PICK i \in Slot, m \in Row : Update(i, m)
      BY <1>1, <2>4, ExactTable, MergedType
    <3>. QED BY <1>1, <3>1, UpdateRefines DEF Promise!Next
  <2>5. CASE \E i \in Visible : \E m \in Merged(cells[i]) : UpdateFails(i, m)
    <3>1. UNCHANGED <<cells, live, count, phase, hist>>
      BY <2>5 DEF UpdateFails, store
    <3>. QED BY <3>1, Stutters DEF Shown, Used, Saved, RollingBack, InTx, Table
  <2>6. CASE \E i \in Visible : Delete(i)
    <3>1. PICK i \in Slot : Delete(i)
      BY <1>1, <2>6
    <3>. QED BY <3>1, DeleteRefines DEF Promise!Next
  <2>. QED BY <1>2, <2>1, <2>2, <2>3, <2>4, <2>5, <2>6, NoFailures DEF Write
<1>3. CASE CreateIndex \/ DropIndex \/ Fsck
  <2>1. UNCHANGED <<cells, live, count, phase, hist>>
    BY <1>3 DEF CreateIndex, DropIndex, Fsck, store
  <2>. QED BY <2>1, Stutters DEF Shown, Used, Saved, RollingBack, InTx, Table
<1>4. CASE Begin \/ Commit \/ Abort \/ Close
  BY <1>4, TransactionRefines, Stutters DEF Promise!Next
<1>5. CASE Rollback
  BY <1>5, RollbackRefines, Stutters
<1>6. CASE Open
  BY <1>6, OpenRefines, Stutters
<1>7. CASE Compact
  BY <1>1, <1>7, CompactRefines DEF Promise!Next
<1>8. CASE UNCHANGED vars
  <2>1. UNCHANGED <<cells, live, count, phase, hist>>
    BY <1>8 DEF vars, store
  <2>. QED BY <2>1, Stutters DEF Shown, Used, Saved, RollingBack, InTx, Table
<1>. QED BY <1>2, <1>3, <1>4, <1>5, <1>6, <1>7, <1>8 DEF Next

\* A new file is the empty table.
LEMMA InitRefines == ASSUME Init PROVE Promise!Init
<1>1. Table = [i \in Slot |-> Absent] /\ phase = "open"
  BY DEF Init, Table
<1>2. \A i \in Slot : ~InSlabs(count, i)
  <2>1. count = <<0>> /\ Len(count) = 1
    BY DEF Init
  <2>2. \A i \in Slot : i[1] \in Nat \ {0} /\ i[2] \in Nat
    BY SizeAssumption DEF Slot
  <2>. QED BY <2>1, <2>2 DEF InSlabs
<1>3. Shown = [i \in Slot |-> Absent] /\ Used = {} /\ Saved = <<>>
  BY <1>1, <1>2, ShownTable DEF Used, Saved, InTx
<1>. QED BY <1>3 DEF Promise!Init, Shown, Used, Saved

\* The row store implements the table that it promises its writer (core.py:
\* 920-1216, 1560-1681, 1857-1923): indices are handed out once, keys stay
\* unique, an abort is atomic, compact moves rows to indices of their own, and
\* nothing else shows, in files and transactions of any size.
THEOREM RefinementCorrect == ASSUME Faultless PROVE Spec => Implements
<1>1. Init => Promise!Init /\ Filling
  BY InitRefines, InitFilling
<1>2. Exact /\ Filling /\ [Next]_vars => Filling' /\ [Promise!Next]_(Promise!vars)
  BY FillingStep, StepRefines
<1>. QED BY <1>1, <1>2, ExactInvariant, PTL DEF Spec, Implements, Promise!Spec
=============================================================================
