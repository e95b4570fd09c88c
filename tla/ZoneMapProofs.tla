---------------------------- MODULE ZoneMapProofs ---------------------------
(***************************************************************************)
(* Two theorems about range_find, for every number of slabs, rows and undo *)
(* records, with readers that overlap writers and rows that fail to encode.*)
(*                                                                         *)
(* It never skips a slab for a row that its zone map knows (PruningSound). *)
(* ZoneInv is inductive; each action has a lemma.  Most steps only widen   *)
(* bounds, which Grown says of two states of the zone maps.                *)
(*                                                                         *)
(* With a range index it lists each settled row of a range once and no     *)
(* other (RangeIndexExact).  What bisect, insort and discard do to a sorted*)
(* list is proved first; then each action keeps ItemsInv.  Between a page  *)
(* and the index call that follows it, ItemsInv says that the list has the *)
(* old value of the row still, under the arguments of the call; and of the *)
(* undo list, that it has the values by which a rollback finds its entries.*)
(***************************************************************************)
EXTENDS ZoneMap, GeneralLemmas

\* A slot lies in the slab that // says.
LEMMA SlabType ==
  ASSUME NEW i \in Slot
  PROVE  /\ i \in Nat /\ SlabOf(i) \in Slab
         /\ SlabOf(i) * RowsPerSlab <= i /\ i < (SlabOf(i) + 1) * RowsPerSlab
<1>1. i \in Nat /\ i < MaxSlabs * RowsPerSlab
  BY SizeAssumption DEF Slot, Capacity
<1>2. /\ i \div RowsPerSlab \in Nat /\ i % RowsPerSlab \in 0..RowsPerSlab - 1
      /\ i = RowsPerSlab * (i \div RowsPerSlab) + (i % RowsPerSlab)
  BY <1>1, DivMod, SizeAssumption
<1>3. i \div RowsPerSlab < MaxSlabs
  BY <1>1, DivBelow, SizeAssumption
<1>4. (i \div RowsPerSlab + 1) * RowsPerSlab = RowsPerSlab * (i \div RowsPerSlab) + RowsPerSlab
  BY <1>2, SizeAssumption
<1>. QED BY <1>1, <1>2, <1>3, <1>4, SizeAssumption DEF SlabOf, Slab

\* Rows below the mark lie in slabs that the file has.
LEMMA SlabCounted ==
  ASSUME NEW n \in 0..MaxRows, NEW i \in Slot, i < n
  PROVE  SlabOf(i) < SlabCount(n)
<1>1. n \in Nat \ {0} /\ i \in Nat
  BY SlabType, SizeAssumption
<1>2. SlabCount(n) \in Nat /\ n <= SlabCount(n) * RowsPerSlab
  BY <1>1, Ceiling, SizeAssumption DEF SlabCount
<1>3. i < SlabCount(n) * RowsPerSlab
  BY <1>1, <1>2, SizeAssumption
<1>. QED BY <1>1, <1>2, <1>3, DivBelow, SizeAssumption DEF SlabOf

\* _zone_widen takes the value in and leaves none out.
LEMMA WidenedIn ==
  ASSUME NEW z \in Zone, NEW v \in Val
  PROVE  /\ Widened(z, v) \in Zone /\ Widened(z, v).built = z.built
         /\ In(Widened(z, v), v)
         /\ \A w \in Val : In(z, w) => In(Widened(z, v), w)
<1>1. v \in Int /\ v # None
  BY SizeAssumption, MarkAssumption
<1>2. (z.lo # None => z.lo \in Int) /\ (z.hi # None => z.hi \in Int)
  BY SizeAssumption DEF Zone
<1>3. /\ Widened(z, v).built = z.built
      /\ Widened(z, v).lo = (IF z.lo = None \/ v < z.lo THEN v ELSE z.lo)
      /\ Widened(z, v).hi = (IF z.hi = None \/ v > z.hi THEN v ELSE z.hi)
  <2>1. \A a, b : /\ [z EXCEPT !.lo = a, !.hi = b].built = z.built
                  /\ [z EXCEPT !.lo = a, !.hi = b].lo = a
                  /\ [z EXCEPT !.lo = a, !.hi = b].hi = b
    BY DEF Zone
  <2>. QED BY <2>1 DEF Widened
<1>4. Widened(z, v) \in Zone /\ Widened(z, v).built = z.built
  <2>1. \A a, b \in Val \cup {None} : [z EXCEPT !.lo = a, !.hi = b] \in Zone
    BY DEF Zone
  <2>2. z.lo \in Val \cup {None} /\ z.hi \in Val \cup {None}
    BY DEF Zone
  <2>3. /\ (IF z.lo = None \/ v < z.lo THEN v ELSE z.lo) \in Val \cup {None}
        /\ (IF z.hi = None \/ v > z.hi THEN v ELSE z.hi) \in Val \cup {None}
    BY <2>2
  <2>. QED BY <1>3, <2>1, <2>3 DEF Widened
<1>5. In(Widened(z, v), v)
  BY <1>1, <1>2, <1>3 DEF In
<1>6. ASSUME NEW w \in Val, In(z, w) PROVE In(Widened(z, v), w)
  <2>1. w \in Int
    BY SizeAssumption
  <2>. QED BY <1>1, <1>2, <1>3, <1>6, <2>1 DEF In
<1>. QED BY <1>4, <1>5, <1>6

\* No map is built or thrown away, and none leaves a value out.
Grown(z1, z2) ==
  \A s \in Slab : /\ z2[s].built = z1[s].built
                  /\ \A w \in Val : In(z1[s], w) => In(z2[s], w)

\* The maps after a row was written, or read by a build.
LEMMA ZoneWidened ==
  ASSUME zone \in [Slab -> Zone], NEW s \in Slab, NEW v \in Val
  PROVE  LET z2 == [zone EXCEPT ![s] = Widened(@, v)]
         IN  z2 \in [Slab -> Zone] /\ Grown(zone, z2) /\ In(z2[s], v)
BY WidenedIn DEF Grown

\* The same of a write, which finds the map built or not.
LEMMA ZoneAfterGrown ==
  ASSUME zone \in [Slab -> Zone], NEW i \in Slot, NEW v \in Val
  PROVE  /\ ZoneAfter(i, v) \in [Slab -> Zone] /\ Grown(zone, ZoneAfter(i, v))
         /\ zone[SlabOf(i)].built => In(ZoneAfter(i, v)[SlabOf(i)], v)
<1>1. CASE zone[SlabOf(i)].built
  BY <1>1, ZoneWidened, SlabType DEF ZoneAfter
<1>2. CASE ~zone[SlabOf(i)].built
  BY <1>2 DEF ZoneAfter, Grown
<1>. QED BY <1>1, <1>2

\* What the invariant says of slots: all of them are row indices.
LEMMA RestorableType ==
  ASSUME RowsTypeOK
  PROVE  /\ Restorable \in SUBSET Slot /\ Deletes \in SUBSET (1..Len(undo))
         /\ Len(undo) \in Nat /\ \A n \in 1..Len(undo) : undo[n] \in UndoRecord /\ undo[n].idx \in Slot
<1>1. live \in SUBSET Slot /\ undo \in Seq(UndoRecord)
  BY DEF RowsTypeOK
<1>2. Len(undo) \in Nat /\ \A n \in 1..Len(undo) : undo[n] \in UndoRecord
  BY <1>1
<1>3. \A n \in 1..Len(undo) : undo[n].idx \in Slot
  BY <1>2 DEF UndoRecord
<1>4. Deletes \in SUBSET (1..Len(undo))
  BY DEF Deletes
<1>. QED BY <1>1, <1>2, <1>3, <1>4 DEF Restorable

-----------------------------------------------------------------------------
(* Writers.                                                                *)

\* A row that is being inserted is unknown to the maps until its page is written.
LEMMA InsertTakeInv == ASSUME ZoneInv, NEW v \in Val, InsertTake(v) PROVE ZoneInv'
<1>1. top \in Slot /\ top + 1 \in 0..MaxRows /\ top \in Nat
  BY SizeAssumption DEF ZoneInv, RowsTypeOK, InsertTake, Slot, Capacity
<1>2. write' \in RowWrite /\ write'.op = "insert" /\ write'.idx = top /\ ~write'.wide
  BY <1>1 DEF InsertTake, RowWrite
<1>3. RowsTypeOK'
  <2>1. \A i \in live' : i < top'
    BY <1>1, SlabType DEF ZoneInv, RowsTypeOK, InsertTake
  <2>. QED BY <1>1, <1>2, <2>1 DEF ZoneInv, RowsTypeOK, InsertTake
<1>4. UndoValid'
  <2>1. \A n \in 1..Len(undo) : undo[n].idx < top /\ undo[n].idx \in Nat
    BY RestorableType, SlabType DEF ZoneInv, UndoValid
  <2>. QED BY <1>1, <2>1 DEF ZoneInv, UndoValid, Deletes, InsertTake
<1>5. WriteValid'
  BY <1>2 DEF ZoneInv, WriteValid, InsertTake, Ready, NoWrite
<1>6. Known'
  BY DEF ZoneInv, Known, Restorable, Deletes, InsertTake
<1>7. BuildValid'
  BY DEF ZoneInv, BuildValid, InsertTake
<1>. QED BY <1>3, <1>4, <1>5, <1>6, <1>7 DEF ZoneInv

\* A record is appended: what it does to the deletes that may be undone.
LEMMA RecordedValid ==
  ASSUME RowsTypeOK, UndoValid, NEW op \in {"insert", "update", "delete"}, NEW i \in Slot, NEW v \in Val,
         i < top, i \in live, phase \in {"open", "tx"}, Recorded(op, i, v)
  PROVE  /\ undo' \in Seq(UndoRecord) /\ (phase = "open" => undo' = <<>>)
         /\ \A n \in 1..Len(undo') : undo'[n].idx < top
         /\ \A n \in Deletes' : \A m \in n + 1 .. Len(undo') : undo'[m].idx # undo'[n].idx
         /\ \A n \in Deletes' : \/ n \in Deletes /\ undo'[n] = undo[n]
                                \/ op = "delete" /\ undo'[n].idx = i /\ undo'[n].val = v
<1>1. CASE phase = "tx"
  <2>. DEFINE e == [op |-> op, idx |-> i, val |-> v]
  <2>1. undo' = Append(undo, e) /\ e \in UndoRecord
    BY <1>1 DEF Recorded, UndoRecord
  <2>2. /\ undo' \in Seq(UndoRecord) /\ Len(undo') = Len(undo) + 1 /\ Len(undo) \in Nat
        /\ undo'[Len(undo) + 1] = e /\ \A n \in 1..Len(undo) : undo'[n] = undo[n]
    BY <2>1 DEF RowsTypeOK
  <2>3. \A n \in Deletes' : n \in Deletes \/ (n = Len(undo) + 1 /\ op = "delete")
    BY <2>2 DEF Deletes
  <2>4. \A n \in Deletes : undo[n].idx # i
    BY DEF UndoValid
  <2>5. \A n \in Deletes' : \A m \in n + 1 .. Len(undo') : undo'[m].idx # undo'[n].idx
    <3> SUFFICES ASSUME NEW n \in Deletes', NEW m \in n + 1 .. Len(undo')
                 PROVE  undo'[m].idx # undo'[n].idx
      OBVIOUS
    <3>1. n \in Deletes /\ n \in 1..Len(undo) /\ m \in Nat
      BY <2>2, <2>3 DEF Deletes
    <3>2. CASE m = Len(undo) + 1
      BY <2>2, <2>4, <3>1, <3>2
    <3>3. CASE m # Len(undo) + 1
      <4>1. m \in n + 1 .. Len(undo)
        BY <2>2, <3>1, <3>3
      <4>. QED BY <2>2, <3>1, <4>1 DEF UndoValid
    <3>. QED BY <3>2, <3>3
  <2>6. \A n \in 1..Len(undo') : undo'[n].idx < top
    BY <2>2 DEF UndoValid
  <2>7. \A n \in Deletes' : \/ n \in Deletes /\ undo'[n] = undo[n]
                            \/ op = "delete" /\ undo'[n].idx = i /\ undo'[n].val = v
    BY <2>2, <2>3 DEF Deletes
  <2>. QED BY <1>1, <2>2, <2>5, <2>6, <2>7
<1>2. CASE phase = "open"
  BY <1>2 DEF Recorded, RowsTypeOK, UndoValid, Deletes
<1>. QED BY <1>1, <1>2

\* The page of an insert: a built map takes the value in, an unbuilt one leaves it to
\* a build that starts later.
LEMMA InsertWriteInv == ASSUME ZoneInv, InsertWrite PROVE ZoneInv'
<1>. DEFINE i == write.idx
            v == write.val
<1>1. /\ write # Idle /\ write \in RowWrite /\ i \in live /\ i \in Slot /\ v \in Val /\ i < top
      /\ phase \in {"open", "tx"}
  BY DEF ZoneInv, WriteValid, InsertWrite, RowWrite, RowsTypeOK
<1>2. zone' = ZoneAfter(i, v) /\ cells' = [cells EXCEPT ![i] = v] /\ Recorded("insert", i, v)
  BY DEF InsertWrite
<1>3. zone' \in [Slab -> Zone] /\ Grown(zone, zone') /\ (zone[SlabOf(i)].built => In(zone'[SlabOf(i)], v))
  BY <1>1, <1>2, ZoneAfterGrown DEF ZoneInv, RowsTypeOK
<1>4. /\ undo' \in Seq(UndoRecord) /\ (phase = "open" => undo' = <<>>)
      /\ \A n \in 1..Len(undo') : undo'[n].idx < top
      /\ \A n \in Deletes' : \A m \in n + 1 .. Len(undo') : undo'[m].idx # undo'[n].idx
      /\ \A n \in Deletes' : n \in Deletes /\ undo'[n] = undo[n]
  BY <1>1, <1>2, RecordedValid DEF ZoneInv
<1>5. RowsTypeOK'
  BY <1>1, <1>2, <1>3, <1>4 DEF ZoneInv, RowsTypeOK, InsertWrite
<1>6. UndoValid'
  <2>1. \A n \in Deletes : undo[n].idx # i /\ undo[n].idx \in Slot
    BY <1>1, RestorableType DEF ZoneInv, UndoValid
  <2>. QED BY <1>2, <1>4, <2>1 DEF ZoneInv, RowsTypeOK, UndoValid, InsertWrite
<1>7. WriteValid' /\ BuildValid'
  <2>1. build # Idle => build.slab \in Slab
    BY DEF ZoneInv, RowsTypeOK, ZoneBuild
  <2>. QED BY <1>3, <2>1 DEF ZoneInv, WriteValid, BuildValid, InsertWrite, Grown
<1>8. Known'
  <2> SUFFICES ASSUME NEW j \in Restorable' \ unseen'
               PROVE  /\ zone'[SlabOf(j)].built => In(zone'[SlabOf(j)], cells'[j])
                      /\ build' # Idle /\ build'.slab = SlabOf(j) =>
                           /\ j < build'.upto /\ build'.copy[j] = cells'[j]
                           /\ j < build'.next => In(zone'[SlabOf(j)], cells'[j])
    BY DEF Known
  <2>1. j \in Restorable /\ j \in Slot /\ SlabOf(j) \in Slab /\ build' = build
    BY <1>4, RestorableType, SlabType DEF Restorable, InsertWrite, ZoneInv
  <2>2. CASE j = i
    <3>1. zone[SlabOf(i)].built
      BY <2>2 DEF InsertWrite
    <3>2. cells'[j] = v
      BY <1>1, <1>2, <2>2 DEF ZoneInv, RowsTypeOK
    <3>. QED BY <1>3, <2>1, <2>2, <3>1, <3>2 DEF ZoneInv, BuildValid
  <2>3. CASE j # i
    <3>1. j \notin unseen /\ cells'[j] = cells[j] /\ cells[j] \in Val
      BY <1>2, <2>1, <2>3 DEF InsertWrite, ZoneInv, RowsTypeOK
    <3>. QED BY <1>3, <2>1, <3>1 DEF ZoneInv, Known, Grown
  <2>. QED BY <2>2, <2>3
<1>. QED BY <1>5, <1>6, <1>7, <1>8 DEF ZoneInv

\* A failed insert leaves a row that the maps do not know.
LEMMA InsertRaisesInv == ASSUME ZoneInv, InsertRaises PROVE ZoneInv'
BY DEF ZoneInv, InsertRaises, RowsTypeOK, UndoValid, Deletes, WriteValid, BuildValid, Known,
       Restorable, rows, reading

\* The first half of an update, or of the undoing of one.
LEMMA StartWriteInv ==
  ASSUME ZoneInv, write = Idle, NEW op \in {"update", "undo"}, NEW i \in Slot, NEW v \in Val,
         op = "update" => i \in live /\ phase \in {"open", "tx"},
         op = "undo" => /\ phase = "abort" /\ undo # <<>>
                        /\ undo[Len(undo)].op = "update" /\ undo[Len(undo)].idx = i,
         StartWrite(op, i, v)
  PROVE  ZoneInv'
<1>1. zone' \in [Slab -> Zone] /\ Grown(zone, zone') /\ (zone[SlabOf(i)].built => In(zone'[SlabOf(i)], v))
  BY ZoneAfterGrown DEF ZoneInv, RowsTypeOK, StartWrite
<1>2. SlabOf(i) \in Slab /\ zone[SlabOf(i)].built \in BOOLEAN
  BY SlabType DEF ZoneInv, RowsTypeOK, Zone
<1>3. /\ write' \in RowWrite /\ write'.op = op /\ write'.idx = i /\ write'.val = v
      /\ write'.wide = zone[SlabOf(i)].built
  BY <1>2 DEF StartWrite, RowWrite
<1>4. RowsTypeOK'
  BY <1>1, <1>3 DEF ZoneInv, RowsTypeOK, StartWrite, rows
<1>5. UndoValid'
  BY DEF ZoneInv, UndoValid, Deletes, StartWrite, rows
<1>6. WriteValid'
  BY <1>1, <1>2, <1>3 DEF WriteValid, StartWrite, Grown, rows
<1>7. BuildValid'
  <2>1. build # Idle => build.slab \in Slab
    BY DEF ZoneInv, RowsTypeOK, ZoneBuild
  <2>. QED BY <1>1, <2>1 DEF ZoneInv, BuildValid, StartWrite, Grown
<1>8. Known'
  <2>1. \A j \in Restorable : SlabOf(j) \in Slab /\ cells[j] \in Val
    BY RestorableType, SlabType DEF ZoneInv, RowsTypeOK
  <2>. QED BY <1>1, <2>1 DEF ZoneInv, Known, Restorable, Deletes, StartWrite, Grown, rows
<1>. QED BY <1>4, <1>5, <1>6, <1>7, <1>8 DEF ZoneInv

\* The first half of an update of a row.
LEMMA UpdateInv ==
  ASSUME ZoneInv, NEW i \in Visible, NEW v \in Val, Update(i, v)
  PROVE  ZoneInv'
<1>1. i \in Slot /\ i \in live /\ write = Idle /\ phase \in {"open", "tx"}
  BY DEF Visible, ZoneInv, RowsTypeOK, Update, Ready, NoWrite
<1>. QED BY <1>1, StartWriteInv DEF Update

\* The undo list without its last record.
LEMMA FrontRecords ==
  ASSUME undo \in Seq(UndoRecord), undo # <<>>, undo' = Front(undo)
  PROVE  /\ Len(undo) \in Nat \ {0} /\ undo' \in Seq(UndoRecord) /\ Len(undo') = Len(undo) - 1
         /\ \A n \in 1..Len(undo) - 1 : undo'[n] = undo[n]
<1> DEFINE k == Len(undo)
<1>1. k \in Nat \ {0}
  OBVIOUS
<1>2. undo' = SubSeq(undo, 1, k - 1) /\ k - 1 \in Nat
  BY <1>1 DEF Front
<1>3. undo' \in Seq(UndoRecord)
  BY <1>1, <1>2, SubSeqProperties
<1>4. /\ Len(undo') = IF 1 <= k - 1 THEN k - 1 - 1 + 1 ELSE 0
      /\ \A n \in 1 .. k - 1 - 1 + 1 : undo'[n] = undo[1 + n - 1]
  BY <1>1, <1>2, SubSeqProperties
<1> HIDE DEF k
<1>5. \A n \in 1 .. k - 1 : n \in 1 .. k - 1 - 1 + 1 /\ 1 + n - 1 = n
  BY <1>1
<1>6. Len(undo') = k - 1
  BY <1>1, <1>4
<1> QED
  BY <1>1, <1>3, <1>4, <1>5, <1>6 DEF k

\* A record is taken back: the others stay, and no delete among them is of its slot.
LEMMA FrontValid ==
  ASSUME RowsTypeOK, UndoValid, undo # <<>>, undo' = Front(undo)
  PROVE  /\ Last(undo) = undo[Len(undo)] /\ Len(undo) \in Nat \ {0} /\ undo[Len(undo)] \in UndoRecord
         /\ undo' \in Seq(UndoRecord)
         /\ \A n \in 1..Len(undo') : undo'[n].idx < top
         /\ \A n \in Deletes' : \A m \in n + 1 .. Len(undo') : undo'[m].idx # undo'[n].idx
         /\ \A n \in Deletes' : /\ n \in Deletes /\ undo'[n] = undo[n]
                                /\ undo[n].idx # undo[Len(undo)].idx
<1>1. undo \in Seq(UndoRecord) /\ Len(undo) \in Nat \ {0}
  BY DEF RowsTypeOK
<1>2. Last(undo) = undo[Len(undo)] /\ undo[Len(undo)] \in UndoRecord
  BY <1>1 DEF Last
<1>3. /\ undo' \in Seq(UndoRecord) /\ Len(undo') = Len(undo) - 1
      /\ \A n \in 1..Len(undo) - 1 : undo'[n] = undo[n]
  BY <1>1, FrontRecords
<1>4. \A n \in Deletes' : n \in Deletes /\ n \in 1..Len(undo) - 1
  BY <1>1, <1>3 DEF Deletes
<1>5. \A n \in 1..Len(undo') : undo'[n].idx < top
  BY <1>1, <1>3 DEF UndoValid
<1>6. \A n \in Deletes' : \A m \in n + 1 .. Len(undo') : undo'[m].idx # undo'[n].idx
  <2> SUFFICES ASSUME NEW n \in Deletes', NEW m \in n + 1 .. Len(undo')
               PROVE  undo'[m].idx # undo'[n].idx
    OBVIOUS
  <2>1. m \in n + 1 .. Len(undo) /\ m \in 1..Len(undo) - 1
    BY <1>1, <1>3, <1>4
  <2>. QED BY <1>3, <1>4, <2>1 DEF UndoValid
<1>7. \A n \in Deletes' : undo[n].idx # undo[Len(undo)].idx
  <2>1. \A n \in Deletes' : Len(undo) \in n + 1 .. Len(undo)
    BY <1>1, <1>4
  <2>. QED BY <1>4, <2>1 DEF UndoValid
<1>. QED BY <1>1, <1>2, <1>3, <1>4, <1>5, <1>6, <1>7

\* Whatever happens to the undo list here, no delete in it is of the row written.
LEMMA UpdateWriteInv == ASSUME ZoneInv, UpdateWrite PROVE ZoneInv'
<1>. DEFINE i == write.idx
            v == write.val
<1>1. /\ write # Idle /\ write \in RowWrite /\ i \in Slot /\ v \in Val /\ SlabOf(i) \in Slab
      /\ cells[i] \in Val /\ cells' = [cells EXCEPT ![i] = v]
      /\ write.wide => zone[SlabOf(i)].built /\ In(zone[SlabOf(i)], v)
  BY SlabType DEF ZoneInv, WriteValid, UpdateWrite, RowWrite, RowsTypeOK
<1>2. /\ undo' \in Seq(UndoRecord) /\ (phase = "open" => undo' = <<>>)
      /\ \A n \in 1..Len(undo') : undo'[n].idx < top
      /\ \A n \in Deletes' : \A m \in n + 1 .. Len(undo') : undo'[m].idx # undo'[n].idx
      /\ \A n \in Deletes' : n \in Deletes /\ undo'[n] = undo[n] /\ undo[n].idx # i
  <2>1. CASE write.op = "update"
    <3>1. i \in live /\ i < top /\ phase \in {"open", "tx"} /\ Recorded("update", i, cells[i])
      BY <1>1, <2>1 DEF ZoneInv, WriteValid, UpdateWrite, RowsTypeOK
    <3>2. /\ undo' \in Seq(UndoRecord) /\ (phase = "open" => undo' = <<>>)
          /\ \A n \in 1..Len(undo') : undo'[n].idx < top
          /\ \A n \in Deletes' : \A m \in n + 1 .. Len(undo') : undo'[m].idx # undo'[n].idx
          /\ \A n \in Deletes' : n \in Deletes /\ undo'[n] = undo[n]
      BY <1>1, <3>1, RecordedValid DEF ZoneInv
    <3>. QED BY <3>1, <3>2 DEF ZoneInv, UndoValid
  <2>2. CASE write.op # "update"
    <3>1. write.op = "undo" /\ phase = "abort" /\ undo # <<>> /\ undo' = Front(undo) /\ undo[Len(undo)].idx = i
      BY <1>1, <2>2 DEF ZoneInv, WriteValid, UpdateWrite
    <3>. QED BY <3>1, FrontValid DEF ZoneInv
  <2>. QED BY <2>1, <2>2
<1>3. RowsTypeOK'
  BY <1>1, <1>2 DEF ZoneInv, RowsTypeOK, UpdateWrite
<1>4. UndoValid'
  <2>1. \A n \in Deletes' : undo'[n].idx \notin live' /\ cells'[undo'[n].idx] = undo'[n].val
    <3>1. \A n \in Deletes : undo[n].idx \in Slot
      BY RestorableType DEF ZoneInv
    <3>. QED BY <1>1, <1>2, <3>1 DEF ZoneInv, RowsTypeOK, UndoValid, UpdateWrite
  <2>2. \A n \in 1..Len(undo') : undo'[n].idx < top'
    BY <1>2 DEF UpdateWrite
  <2>. QED BY <1>2, <2>1, <2>2 DEF UndoValid
<1>5. WriteValid' /\ BuildValid'
  BY DEF ZoneInv, WriteValid, BuildValid, UpdateWrite
<1>6. Known'
  <2> SUFFICES ASSUME NEW j \in Restorable' \ unseen'
               PROVE  /\ zone'[SlabOf(j)].built => In(zone'[SlabOf(j)], cells'[j])
                      /\ build' # Idle /\ build'.slab = SlabOf(j) =>
                           /\ j < build'.upto /\ build'.copy[j] = cells'[j]
                           /\ j < build'.next => In(zone'[SlabOf(j)], cells'[j])
    BY DEF Known
  <2>1. j \in Restorable /\ j \in Slot /\ build' = build /\ zone' = zone
    BY <1>2, RestorableType DEF Restorable, UpdateWrite, ZoneInv
  <2>2. CASE j = i
    <3>1. write.wide
      BY <2>2 DEF UpdateWrite
    <3>2. cells'[j] = v
      BY <1>1, <2>2 DEF ZoneInv, RowsTypeOK
    <3>. QED BY <1>1, <2>1, <2>2, <3>1, <3>2 DEF ZoneInv, BuildValid
  <2>3. CASE j # i
    <3>1. j \notin unseen /\ cells'[j] = cells[j]
      BY <1>1, <2>1, <2>3 DEF UpdateWrite, ZoneInv, RowsTypeOK
    <3>. QED BY <2>1, <3>1 DEF ZoneInv, Known
  <2>. QED BY <2>2, <2>3
<1>. QED BY <1>3, <1>4, <1>5, <1>6 DEF ZoneInv

\* A delete records the row; the maps keep their bounds.
LEMMA DeleteInv == ASSUME ZoneInv, NEW i \in Visible, Delete(i) PROVE ZoneInv'
<1>1. /\ i \in live /\ i \in Slot /\ i < top /\ cells[i] \in Val /\ phase \in {"open", "tx"}
      /\ Recorded("delete", i, cells[i]) /\ write = Idle /\ live' = live \ {i}
      /\ UNCHANGED <<cells, top, zone, build, unseen, phase, write>>
  BY DEF Visible, ZoneInv, RowsTypeOK, Delete, Ready, NoWrite, reading
<1>2. /\ undo' \in Seq(UndoRecord) /\ (phase = "open" => undo' = <<>>)
      /\ \A n \in 1..Len(undo') : undo'[n].idx < top
      /\ \A n \in Deletes' : \A m \in n + 1 .. Len(undo') : undo'[m].idx # undo'[n].idx
      /\ \A n \in Deletes' : \/ n \in Deletes /\ undo'[n] = undo[n]
                             \/ undo'[n].idx = i /\ undo'[n].val = cells[i]
  BY <1>1, RecordedValid DEF ZoneInv
<1>3. RowsTypeOK'
  BY <1>1, <1>2 DEF ZoneInv, RowsTypeOK
<1>4. UndoValid'
  BY <1>1, <1>2 DEF ZoneInv, UndoValid
<1>5. WriteValid' /\ BuildValid'
  BY <1>1 DEF ZoneInv, WriteValid, BuildValid
<1>6. Known'
  <2>1. Restorable' \subseteq Restorable
    BY <1>1, <1>2 DEF Restorable
  <2>. QED BY <1>1, <2>1 DEF ZoneInv, Known
<1>. QED BY <1>3, <1>4, <1>5, <1>6 DEF ZoneInv

-----------------------------------------------------------------------------
(* Transactions.                                                           *)

\* Nothing but the phase and the undo list changes.
LEMMA PhaseInv == ASSUME ZoneInv, Begin \/ Commit \/ Abort \/ UndoDone PROVE ZoneInv'
<1>1. write = Idle /\ UNCHANGED <<cells, live, top, zone, build, unseen, write>>
  BY DEF Begin, Commit, Abort, UndoDone, Ready, NoWrite, rows, reading
<1>2. /\ phase' \in {"open", "tx", "abort"}
      /\ undo' = undo \/ undo' = <<>>
      /\ phase' = "open" => undo' = <<>>
  BY DEF Begin, Commit, Abort, UndoDone
<1>3. CASE undo' = undo
  BY <1>1, <1>2, <1>3
     DEF ZoneInv, RowsTypeOK, UndoValid, Deletes, WriteValid, BuildValid, Known, Restorable
<1>4. CASE undo' = <<>>
  <2>1. Len(undo') = 0 /\ Deletes' = {} /\ undo' \in Seq(UndoRecord)
    BY <1>4 DEF Deletes
  <2>2. UndoValid'
    BY <2>1 DEF UndoValid
  <2>3. Restorable' \subseteq Restorable
    BY <1>1, <2>1 DEF Restorable
  <2>. QED BY <1>1, <1>2, <2>1, <2>2, <2>3 DEF ZoneInv, RowsTypeOK, WriteValid, BuildValid, Known
<1>. QED BY <1>2, <1>3, <1>4

\* An insert is undone: its row dies, the maps keep their bounds.
LEMMA UndoInsertInv == ASSUME ZoneInv, UndoInsert PROVE ZoneInv'
<1>1. /\ live' \subseteq live /\ phase = "abort" /\ write = Idle /\ undo # <<>> /\ undo' = Front(undo)
      /\ UNCHANGED <<cells, top, zone, build, unseen, phase, write>>
  BY DEF UndoInsert, Undoing, NoWrite, reading
<1>2. /\ undo' \in Seq(UndoRecord)
      /\ \A n \in 1..Len(undo') : undo'[n].idx < top
      /\ \A n \in Deletes' : \A m \in n + 1 .. Len(undo') : undo'[m].idx # undo'[n].idx
      /\ \A n \in Deletes' : n \in Deletes /\ undo'[n] = undo[n]
  BY <1>1, FrontValid DEF ZoneInv
<1>3. RowsTypeOK'
  BY <1>1, <1>2 DEF ZoneInv, RowsTypeOK
<1>4. UndoValid'
  BY <1>1, <1>2 DEF ZoneInv, UndoValid
<1>5. WriteValid' /\ BuildValid'
  BY <1>1 DEF ZoneInv, WriteValid, BuildValid
<1>6. Known'
  <2>1. Restorable' \subseteq Restorable
    BY <1>1, <1>2 DEF Restorable
  <2>. QED BY <1>1, <2>1 DEF ZoneInv, Known
<1>. QED BY <1>3, <1>4, <1>5, <1>6 DEF ZoneInv

\* The row that comes back was in the bounds already, its delete being recorded.
LEMMA UndoDeleteInv == ASSUME ZoneInv, UndoDelete PROVE ZoneInv'
<1>. DEFINE e == undo[Len(undo)]
<1>1. /\ phase = "abort" /\ write = Idle /\ undo # <<>> /\ undo' = Front(undo)
      /\ UNCHANGED <<top, zone, build, unseen, phase, write>>
  BY DEF UndoDelete, Undoing, NoWrite, reading
<1>2. /\ Last(undo) = e /\ Len(undo) \in Nat \ {0} /\ e \in UndoRecord
      /\ undo' \in Seq(UndoRecord)
      /\ \A n \in 1..Len(undo') : undo'[n].idx < top
      /\ \A n \in Deletes' : \A m \in n + 1 .. Len(undo') : undo'[m].idx # undo'[n].idx
      /\ \A n \in Deletes' : n \in Deletes /\ undo'[n] = undo[n] /\ undo[n].idx # e.idx
  BY <1>1, FrontValid DEF ZoneInv
<1>3. Len(undo) \in Deletes
  BY <1>2 DEF UndoDelete, Undoing, NoWrite, Deletes
<1>4. cells' = cells /\ live' = live \cup {e.idx} /\ e.idx \in Slot /\ e.idx < top
  <2>1. cells[e.idx] = e.val /\ e.idx < top /\ e.idx \in Slot
    BY <1>2, <1>3 DEF ZoneInv, UndoValid, UndoRecord
  <2>. QED BY <1>2, <2>1 DEF UndoDelete, ZoneInv, RowsTypeOK
<1>5. RowsTypeOK'
  BY <1>1, <1>2, <1>4 DEF ZoneInv, RowsTypeOK
<1>6. UndoValid'
  BY <1>1, <1>2, <1>4 DEF ZoneInv, UndoValid
<1>7. WriteValid' /\ BuildValid'
  BY <1>1 DEF ZoneInv, WriteValid, BuildValid
<1>8. Known'
  <2>1. Restorable' \subseteq Restorable
    BY <1>2, <1>3, <1>4 DEF Restorable
  <2>. QED BY <1>1, <1>4, <2>1 DEF ZoneInv, Known
<1>. QED BY <1>5, <1>6, <1>7, <1>8 DEF ZoneInv

\* The first half of the undoing of an update.
LEMMA UndoUpdateInv == ASSUME ZoneInv, UndoUpdate PROVE ZoneInv'
<1>1. /\ phase = "abort" /\ write = Idle /\ undo # <<>> /\ Last(undo).op = "update"
      /\ StartWrite("undo", Last(undo).idx, Last(undo).val)
  BY DEF UndoUpdate, Undoing, NoWrite
<1>2. /\ Last(undo) = undo[Len(undo)] /\ undo[Len(undo)].op = "update"
      /\ undo[Len(undo)].idx \in Slot /\ undo[Len(undo)].val \in Val
  <2>1. Last(undo) = undo[Len(undo)]
    BY DEF Last
  <2>2. undo[Len(undo)] \in UndoRecord
    BY <1>1 DEF ZoneInv, RowsTypeOK
  <2>. QED BY <1>1, <2>1, <2>2 DEF UndoRecord
<1>. QED BY <1>1, <1>2, StartWriteInv

-----------------------------------------------------------------------------
(* Readers.                                                                *)

\* A build sees the mark and the values of its slab as they are.
LEMMA BuildStartInv == ASSUME ZoneInv, NEW s \in Slab, BuildStart(s) PROVE ZoneInv'
<1>1. /\ s \in Nat /\ s < MaxSlabs /\ top \in Nat /\ top <= Capacity /\ RowsPerSlab \in Nat \ {0}
      /\ s * RowsPerSlab \in 0..Capacity /\ (s + 1) * RowsPerSlab \in 0..Capacity
  <2>1. s \in Nat /\ s + 1 <= MaxSlabs /\ RowsPerSlab \in Nat \ {0} /\ MaxSlabs \in Nat
    BY SizeAssumption DEF Slab
  <2>2. (s + 1) * RowsPerSlab <= MaxSlabs * RowsPerSlab /\ s * RowsPerSlab <= MaxSlabs * RowsPerSlab
    BY <2>1
  <2>3. s * RowsPerSlab \in Nat /\ (s + 1) * RowsPerSlab \in Nat /\ MaxSlabs * RowsPerSlab \in Nat
    BY <2>1
  <2>4. top \in Nat /\ top <= MaxSlabs * RowsPerSlab
    BY <2>3, SizeAssumption DEF ZoneInv, RowsTypeOK
  <2>. QED BY <2>1, <2>2, <2>3, <2>4 DEF Capacity
<1>2. build' \in ZoneBuild
  <2>1. [i \in Slot |-> IF SlabOf(i) = s THEN cells[i] ELSE Zero] \in [Slot -> Val]
    BY SizeAssumption DEF ZoneInv, RowsTypeOK
  <2>2. (IF top < (s + 1) * RowsPerSlab THEN top ELSE (s + 1) * RowsPerSlab) \in 0..Capacity
    BY <1>1
  <2>. QED BY <1>1, <2>1, <2>2 DEF BuildStart, ZoneBuild
<1>3. /\ build'.slab = s /\ build'.next = s * RowsPerSlab
      /\ \A i \in Slot : SlabOf(i) = s => build'.copy[i] = cells[i]
      /\ \A i \in Slot : SlabOf(i) = s /\ i < top => i < build'.upto
  BY <1>1, SlabType DEF BuildStart
<1>4. ~zone[s].built /\ unseen' = {i \in unseen : SlabOf(i) # s}
      /\ UNCHANGED <<cells, live, top, zone, phase, undo, write>>
  BY DEF BuildStart, rows
<1>5. RowsTypeOK'
  BY <1>2, <1>4 DEF ZoneInv, RowsTypeOK
<1>6. UndoValid' /\ WriteValid' /\ BuildValid'
  BY <1>3, <1>4 DEF ZoneInv, UndoValid, Deletes, WriteValid, BuildValid
<1>7. Known'
  <2>1. \A i \in Restorable : i \in Slot /\ i < top
    BY RestorableType DEF ZoneInv, RowsTypeOK, UndoValid, Restorable
  <2>2. \A i \in Slot : SlabOf(i) = s => ~(i < build'.next)
    BY <1>1, <1>3, SlabType
  <2>3. Restorable' = Restorable
    BY <1>4 DEF Restorable, Deletes
  <2>. QED BY <1>3, <1>4, <2>1, <2>2, <2>3 DEF ZoneInv, Known
<1>. QED BY <1>5, <1>6, <1>7 DEF ZoneInv

\* The bounds take the copied value in, or the row is dead.
LEMMA BuildRowInv == ASSUME ZoneInv, BuildRow PROVE ZoneInv'
<1>. DEFINE k == build.next
<1>1. /\ build \in ZoneBuild /\ build # Idle /\ k < build.upto
      /\ build.slab \in Slab /\ k \in Slot /\ k \in Nat /\ build.copy[k] \in Val /\ k + 1 \in 0..Capacity
  BY SizeAssumption, SMTT(60) DEF ZoneInv, RowsTypeOK, BuildRow, ZoneBuild, Slot, Capacity
<1>2. /\ build' \in ZoneBuild /\ build'.slab = build.slab /\ build'.copy = build.copy
      /\ build'.upto = build.upto /\ build'.next = k + 1
  BY <1>1 DEF BuildRow, ZoneBuild
<1>3. UNCHANGED <<cells, live, top, phase, undo, write>> /\ Restorable' = Restorable /\ Deletes' = Deletes
  BY DEF BuildRow, rows, Restorable, Deletes
<1>4. /\ zone' \in [Slab -> Zone] /\ Grown(zone, zone') /\ unseen' \in SUBSET Slot
      /\ unseen \subseteq unseen'
      /\ k \in unseen' \/ In(zone'[build.slab], build.copy[k])
  <2>1. CASE k \in live
    BY <1>1, <2>1, ZoneWidened DEF BuildRow, ZoneInv, RowsTypeOK
  <2>2. CASE k \notin live
    BY <1>1, <2>2 DEF BuildRow, ZoneInv, RowsTypeOK, Grown
  <2>. QED BY <2>1, <2>2
<1>5. RowsTypeOK' /\ UndoValid'
  BY <1>2, <1>3, <1>4 DEF ZoneInv, RowsTypeOK, UndoValid
<1>6. WriteValid'
  <2>1. write # Idle => SlabOf(write.idx) \in Slab /\ write.val \in Val
    BY SlabType DEF ZoneInv, RowsTypeOK, RowWrite
  <2>. QED BY <1>3, <1>4, <2>1 DEF ZoneInv, WriteValid, Grown
<1>7. BuildValid'
  BY <1>1, <1>2, <1>4 DEF ZoneInv, BuildValid, Grown
<1>8. Known'
  <2> SUFFICES ASSUME NEW j \in Restorable \ unseen'
               PROVE  /\ zone'[SlabOf(j)].built => In(zone'[SlabOf(j)], cells[j])
                      /\ build.slab = SlabOf(j) =>
                           /\ j < build.upto /\ build.copy[j] = cells[j]
                           /\ j < k + 1 => In(zone'[SlabOf(j)], cells[j])
    BY <1>2, <1>3 DEF Known
  <2>1. j \in Restorable \ unseen /\ j \in Slot /\ j \in Nat /\ SlabOf(j) \in Slab /\ cells[j] \in Val
    BY <1>4, RestorableType, SlabType DEF ZoneInv, RowsTypeOK
  <2>2. CASE j = k
    BY <1>1, <1>4, <2>1, <2>2 DEF ZoneInv, Known, BuildValid, Grown
  <2>3. CASE j # k
    <3>1. j < k + 1 => j < k
      BY <1>1, <2>1, <2>3
    <3>. QED BY <1>1, <1>4, <2>1, <3>1 DEF ZoneInv, Known, Grown
  <2>. QED BY <2>2, <2>3
<1>. QED BY <1>5, <1>6, <1>7, <1>8 DEF ZoneInv

\* All rows below the mark of the build were read.
LEMMA BuildEndInv == ASSUME ZoneInv, BuildEnd PROVE ZoneInv'
<1>1. /\ build \in ZoneBuild /\ build # Idle /\ build.slab \in Slab /\ build' = Idle
      /\ build.next \in Int /\ build.upto \in Int /\ build.next >= build.upto
      /\ UNCHANGED <<cells, live, top, unseen, phase, undo, write>> /\ Restorable' = Restorable
  BY DEF ZoneInv, RowsTypeOK, BuildEnd, ZoneBuild, rows, Restorable, Deletes
<1>2. /\ zone' \in [Slab -> Zone]
      /\ \A s \in Slab : /\ zone'[s].built = (zone[s].built \/ s = build.slab)
                         /\ \A w \in Val : In(zone'[s], w) = In(zone[s], w)
  <2>1. \A z \in Zone : /\ [z EXCEPT !.built = TRUE] \in Zone /\ [z EXCEPT !.built = TRUE].built
                        /\ \A w \in Val : In([z EXCEPT !.built = TRUE], w) = In(z, w)
    BY DEF Zone, In
  <2>2. zone' = [zone EXCEPT ![build.slab] = [@ EXCEPT !.built = TRUE]]
    BY DEF BuildEnd
  <2>3. zone \in [Slab -> Zone] /\ \A s \in Slab : zone[s].built \in BOOLEAN
    BY DEF ZoneInv, RowsTypeOK, Zone
  <2>4. zone'[build.slab] = [zone[build.slab] EXCEPT !.built = TRUE] /\ zone' \in [Slab -> Zone]
    BY <1>1, <2>1, <2>2, <2>3
  <2>5. \A s \in Slab : s # build.slab => zone'[s] = zone[s]
    BY <2>2, <2>3
  <2>6. ASSUME NEW s \in Slab
        PROVE  /\ zone'[s].built = (zone[s].built \/ s = build.slab)
               /\ \A w \in Val : In(zone'[s], w) = In(zone[s], w)
    <3>1. CASE s = build.slab
      <4>1. zone[s] \in Zone /\ zone'[s] = [zone[s] EXCEPT !.built = TRUE]
        BY <2>3, <2>4, <3>1
      <4>2. zone'[s].built = TRUE /\ \A w \in Val : In(zone'[s], w) = In(zone[s], w)
        BY <2>1, <4>1
      <4>. QED BY <3>1, <4>2
    <3>2. CASE s # build.slab
      BY <2>3, <2>5, <3>2
    <3>. QED BY <3>1, <3>2
  <2>. QED BY <2>4, <2>6
<1>3. RowsTypeOK' /\ UndoValid' /\ BuildValid'
  BY <1>1, <1>2 DEF ZoneInv, RowsTypeOK, UndoValid, Deletes, BuildValid
<1>4. WriteValid'
  <2>1. write # Idle => SlabOf(write.idx) \in Slab /\ write.val \in Val
    BY SlabType DEF ZoneInv, RowsTypeOK, RowWrite
  <2>. QED BY <1>1, <1>2, <2>1 DEF ZoneInv, WriteValid
<1>5. Known'
  <2> SUFFICES ASSUME NEW j \in Restorable \ unseen, zone'[SlabOf(j)].built
               PROVE  In(zone'[SlabOf(j)], cells[j])
    BY <1>1 DEF Known
  <2>1. j \in Slot /\ j \in Nat /\ SlabOf(j) \in Slab /\ cells[j] \in Val
    BY RestorableType, SlabType DEF ZoneInv, RowsTypeOK
  <2>2. In(zone[SlabOf(j)], cells[j])
    <3>1. CASE SlabOf(j) = build.slab
      <4>1. j < build.upto
        BY <1>1, <3>1 DEF ZoneInv, Known
      <4>. QED BY <1>1, <2>1, <3>1, <4>1 DEF ZoneInv, Known
    <3>2. CASE SlabOf(j) # build.slab
      BY <1>2, <2>1, <3>2 DEF ZoneInv, Known
    <3>. QED BY <3>1, <3>2
  <2>. QED BY <1>2, <2>1, <2>2
<1>. QED BY <1>3, <1>4, <1>5 DEF ZoneInv

\* An index is built, entered and maintained without a look at the maps.
LEMMA IndexInv == ASSUME ZoneInv, IndexScan \/ IndexPublish \/ IndexDrop \/ MaintainIndex PROVE ZoneInv'
<1>1. UNCHANGED <<cells, live, top, zone, build, unseen, phase, undo, write>>
  BY DEF IndexScan, IndexPublish, IndexDrop, MaintainIndex, IndexInsert, IndexUpdate, IndexDelete, Called,
         rows, reading
<1>. QED BY <1>1 DEF ZoneInv, RowsTypeOK, UndoValid, Deletes, WriteValid, BuildValid, Known, Restorable

-----------------------------------------------------------------------------
(* Files.                                                                  *)

\* A file with n rows is loaded: no map of a slab that has a row is built.
LEMMA ReloadInv ==
  ASSUME NEW n \in 0..MaxRows, cells' \in [Slot -> Val], live' \in SUBSET Slot,
         \A i \in live' : i < n, top' = n, zone' = Reloaded(n), phase' = "open", undo' = <<>>,
         write' = Idle, build' = Idle, unseen' = {}
  PROVE  ZoneInv'
<1>1. Unbuilt \in Zone /\ Fresh \in Zone /\ ~Unbuilt.built
  BY DEF Unbuilt, Fresh, Zone
<1>2. zone' \in [Slab -> Zone]
  BY <1>1 DEF Reloaded
<1>3. Len(undo') = 0 /\ Deletes' = {} /\ undo' \in Seq(UndoRecord) /\ Restorable' = live'
  <2>1. Len(undo') = 0 /\ undo' \in Seq(UndoRecord)
    OBVIOUS
  <2>2. Deletes' = {}
    BY <2>1 DEF Deletes
  <2>. QED BY <2>1, <2>2 DEF Restorable
<1>4. RowsTypeOK'
  BY <1>2, <1>3 DEF RowsTypeOK
<1>5. UndoValid' /\ WriteValid' /\ BuildValid'
  BY <1>3 DEF UndoValid, WriteValid, BuildValid
<1>6. Known'
  <2>1. \A i \in live' : SlabOf(i) \in Slab /\ ~zone'[SlabOf(i)].built
    BY <1>1, SlabType, SlabCounted DEF Reloaded
  <2>. QED BY <1>3, <2>1 DEF Known
<1>. QED BY <1>4, <1>5, <1>6 DEF ZoneInv

\* close and open again.
LEMMA ReopenInv == ASSUME ZoneInv, Reopen PROVE ZoneInv'
<1>1. /\ phase' = "open" /\ write' = Idle /\ build' = Idle /\ unseen' = {} /\ zone' = Reloaded(top)
      /\ UNCHANGED <<cells, live, top, undo>>
  BY DEF Reopen, Ready, NoWrite, rows
<1>2. cells \in [Slot -> Val] /\ live \in SUBSET Slot /\ top \in 0..MaxRows /\ undo = <<>>
      /\ \A i \in live : i < top
  BY DEF ZoneInv, RowsTypeOK, Reopen
<1>. QED BY <1>1, <1>2, ReloadInv

\* The new file has no more rows than the old one.
LEMMA CompactInv == ASSUME ZoneInv, Compact PROVE ZoneInv'
<1>. DEFINE n == Cardinality(Visible)
<1>1. top \in 0..MaxRows /\ top \in Nat /\ Visible \in SUBSET Slot /\ MaxRows \in Nat /\ MaxRows <= Capacity
  BY SizeAssumption DEF ZoneInv, RowsTypeOK, Visible, Capacity
<1>2. n \in 0..MaxRows
  <2>1. Visible \subseteq 0..top - 1
    BY <1>1, SlabType DEF Visible
  <2>2. IsFiniteSet(0..top - 1) /\ Cardinality(0..top - 1) = top
    BY <1>1, FS_Interval
  <2>3. n \in Nat /\ n <= top
    BY <2>1, <2>2, FS_Subset, FS_CardinalityType
  <2>. QED BY <1>1, <2>3
<1>3. live' = 0..n - 1 /\ top' = n /\ zone' = Reloaded(n) /\ build' = Idle /\ unseen' = {}
  BY DEF Compact
<1>4. phase' = "open" /\ write' = Idle /\ undo' = <<>>
  BY DEF Compact, Ready, NoWrite, ZoneInv, RowsTypeOK
<1>5. cells' \in [Slot -> Val]
  <2>1. \A i \in Slot : (\E j \in Visible : Rank(j) = i) => (CHOOSE j \in Visible : Rank(j) = i) \in Slot
    BY <1>1
  <2>2. cells \in [Slot -> Val]
    BY DEF ZoneInv, RowsTypeOK
  <2>. QED BY <2>1, <2>2, SizeAssumption DEF Compact
<1>. HIDE DEF n
<1>6. live' \in SUBSET Slot /\ \A i \in live' : i < n
  <2>1. Capacity \in Nat /\ n \in Nat /\ n <= Capacity
    BY <1>1, <1>2, SizeAssumption DEF Capacity
  <2>. QED BY <1>3, <2>1 DEF Slot
<1>. QED BY <1>2, <1>3, <1>4, <1>5, <1>6, ReloadInv

-----------------------------------------------------------------------------
\* A new file has no row.
LEMMA InitInv == Init => ZoneInv
<1> SUFFICES ASSUME Init PROVE ZoneInv
  OBVIOUS
<1>1. Fresh \in Zone
  BY DEF Fresh, Zone
<1>2. Len(undo) = 0 /\ undo \in Seq(UndoRecord)
  BY DEF Init
<1>3. Deletes = {} /\ Restorable = {}
  BY <1>2 DEF Init, Deletes, Restorable
<1>4. RowsTypeOK
  BY <1>1, <1>2, SizeAssumption DEF Init, RowsTypeOK
<1>. QED BY <1>2, <1>3, <1>4 DEF Init, ZoneInv, UndoValid, WriteValid, BuildValid, Known

\* Every step keeps ZoneInv.
LEMMA NextInv == ASSUME ZoneInv, [Next]_vars PROVE ZoneInv'
<1>1. CASE Write
  BY <1>1, InsertTakeInv, InsertWriteInv, InsertRaisesInv, UpdateInv, UpdateWriteInv, DeleteInv DEF Write
<1>2. CASE Begin \/ Commit \/ Abort \/ UndoDone
  BY <1>2, PhaseInv
<1>3. CASE UndoInsert \/ UndoUpdate \/ UndoDelete
  BY <1>3, UndoInsertInv, UndoUpdateInv, UndoDeleteInv
<1>4. CASE Read
  BY <1>4, BuildStartInv, BuildRowInv, BuildEndInv DEF Read
<1>5. CASE IndexScan \/ IndexPublish \/ IndexDrop \/ MaintainIndex
  BY <1>5, IndexInv
<1>6. CASE Reopen
  BY <1>6, ReopenInv
<1>7. CASE Compact
  BY <1>7, CompactInv
<1>8. CASE UNCHANGED vars
  BY <1>8 DEF vars, rows, reading, ZoneInv, RowsTypeOK, UndoValid, Deletes, WriteValid, BuildValid,
              Known, Restorable
<1>. QED BY <1>1, <1>2, <1>3, <1>4, <1>5, <1>6, <1>7, <1>8 DEF Next, Rollback

\* The bounds of a built map hold every value they should: of live rows, of rows
\* that a rollback may bring back, and of rows a build has read.
THEOREM ZoneMapsValid == Spec => []ZoneInv
BY InitInv, NextInv, PTL DEF Spec

\* A value between the bounds matches no range that _zone_overlaps rules out.
LEMMA InOverlaps ==
  ASSUME NEW z \in Zone, NEW v \in Val, In(z, v), NEW q \in Query, Matches(v, q)
  PROVE  Overlaps(z, q)
<1>1. z.lo \in Int /\ z.hi \in Int /\ v \in Int /\ z.lo <= v /\ v <= z.hi
  BY SizeAssumption DEF Zone, In
<1>2. (q.low # None => q.low \in Int) /\ (q.high # None => q.high \in Int)
  BY SizeAssumption DEF Query
<1>3. q.high # None => IF q.incHigh THEN z.lo <= q.high ELSE z.lo < q.high
  BY <1>1, <1>2 DEF Matches
<1>4. q.low # None => IF q.incLow THEN z.hi >= q.low ELSE z.hi > q.low
  BY <1>1, <1>2 DEF Matches
<1>. QED BY <1>3, <1>4 DEF Overlaps

\* core.py:322-325 where it holds: a slab that is skipped has no row in the range
\* that its map could know of.
THEOREM PruningIsSound == Spec => []PruningSound
<1>1. ZoneInv => PruningSound
  <2> SUFFICES ASSUME ZoneInv, NEW i \in Visible \ unseen, zone[SlabOf(i)].built,
                      NEW q \in Query, Matches(cells[i], q)
               PROVE  Overlaps(zone[SlabOf(i)], q)
    BY DEF PruningSound
  <2>1. i \in Restorable \ unseen /\ i \in Slot
    BY RestorableType DEF ZoneInv, Visible, Restorable
  <2>2. zone[SlabOf(i)] \in Zone /\ cells[i] \in Val
    BY <2>1, SlabType DEF ZoneInv, RowsTypeOK
  <2>3. In(zone[SlabOf(i)], cells[i])
    BY <2>1 DEF ZoneInv, Known
  <2>. QED BY <2>2, <2>3, InOverlaps
<1>. QED BY <1>1, ZoneMapsValid, PTL

-----------------------------------------------------------------------------
(* The range index: its list.                                              *)

Entry == Val \X Slot
Ascends(s) == \A m, n \in 1..Len(s) : m < n => ~Less(s[n], s[m])

\* A list has a slot that it should hold once, under its value, and no other.
Lists(s, held, vals, i) ==
  /\ \A m \in 1..Len(s) : s[m][2] = i => i \in held /\ s[m][1] = vals[i]
  /\ \A m, n \in 1..Len(s) : s[m][2] = i /\ s[n][2] = i => m = n
  /\ i \in held => \E m \in 1..Len(s) : s[m][2] = i

\* A change of a list that only touches entries of slot i.
Keeps(s, t, i) == \A held, vals : \A j \in Slot \ {i} : Lists(s, held, vals, j) => Lists(t, held, vals, j)

\* Entries are pairs of numbers.
LEMMA EntryType ==
  ASSUME NEW e \in Entry
  PROVE  /\ e \in Int \X Int /\ e[1] \in Int /\ e[2] \in Nat /\ e[2] < Capacity
         /\ e[1] \in Val /\ e[2] \in Slot /\ e = <<e[1], e[2]>>
<1>1. e[1] \in Val /\ e[2] \in Slot /\ e = <<e[1], e[2]>>
  BY DEF Entry
<1>2. e[1] \in Int
  BY <1>1, SizeAssumption
<1>3. e[2] \in Nat /\ e[2] < Capacity
  <2>1. e[2] \in 0..Capacity - 1
    BY <1>1 DEF Slot
  <2>2. Capacity \in Nat
    BY SizeAssumption DEF Capacity
  <2> QED
    BY <2>1, <2>2
<1> QED
  BY <1>1, <1>2, <1>3

\* Less is a strict total order.
LEMMA LessOrder ==
  ASSUME NEW a \in Int \X Int, NEW b \in Int \X Int, NEW c \in Int \X Int
  PROVE  /\ ~Less(a, a)
         /\ Less(a, b) => ~Less(b, a)
         /\ ~Less(a, b) /\ ~Less(b, a) => a = b
         /\ Less(a, b) /\ ~Less(c, b) => Less(a, c)
         /\ ~Less(b, a) /\ Less(b, c) => Less(a, c)
<1>1. /\ a[1] \in Int /\ a[2] \in Int /\ b[1] \in Int /\ b[2] \in Int /\ c[1] \in Int /\ c[2] \in Int
      /\ a = <<a[1], a[2]>> /\ b = <<b[1], b[2]>>
  OBVIOUS
<1>2. ~Less(a, b) /\ ~Less(b, a) => a[1] = b[1] /\ a[2] = b[2]
  BY <1>1 DEF Less
<1>3. ~Less(a, b) /\ ~Less(b, a) => a = b
  BY <1>1, <1>2, Zenon
<1>4. ~Less(a, a) /\ (Less(a, b) => ~Less(b, a))
  BY <1>1 DEF Less
<1>5. (Less(a, b) /\ ~Less(c, b) => Less(a, c)) /\ (~Less(b, a) /\ Less(b, c) => Less(a, c))
  BY <1>1 DEF Less
<1> QED
  BY <1>3, <1>4, <1>5

\* What bisect counts in a sorted list comes first in it.
LEMMA BisectCuts ==
  ASSUME NEW s \in Seq(Entry), Ascends(s), NEW x \in Int \X Int
  PROVE  /\ BisectLeft(s, x) \in 0..Len(s) /\ BisectRight(s, x) \in 0..Len(s)
         /\ \A n \in 1..Len(s) : n <= BisectLeft(s, x) <=> Less(s[n], x)
         /\ \A n \in 1..Len(s) : n <= BisectRight(s, x) <=> ~Less(x, s[n])
<1>1. Len(s) \in Nat /\ DOMAIN s = 1..Len(s) /\ \A n \in 1..Len(s) : s[n] \in Int \X Int
  <2>1. Len(s) \in Nat /\ DOMAIN s = 1..Len(s) /\ \A n \in 1..Len(s) : s[n] \in Entry
    OBVIOUS
  <2> QED
    BY <2>1, EntryType
<1> DEFINE L == {n \in DOMAIN s : Less(s[n], x)}
           R == {n \in DOMAIN s : ~Less(x, s[n])}
<1>2. L \in SUBSET (1..Len(s)) /\ R \in SUBSET (1..Len(s))
  BY <1>1
<1>3. ASSUME NEW a \in L, NEW b \in 1..Len(s), b < a PROVE b \in L
  <2>1. ~Less(s[a], s[b])
    BY <1>1, <1>3 DEF Ascends
  <2> QED
    BY <1>1, <2>1, LessOrder
<1>4. ASSUME NEW a \in R, NEW b \in 1..Len(s), b < a PROVE b \in R
  <2>1. ~Less(s[a], s[b])
    BY <1>1, <1>4 DEF Ascends
  <2>2. ~Less(x, s[a]) /\ a \in 1..Len(s)
    BY <1>1
  <2>3. Less(x, s[b]) => Less(x, s[a])
    BY <1>1, <2>1, <2>2, LessOrder
  <2> QED
    BY <1>1, <2>2, <2>3
<1>5. PICK k \in 0..Len(s) : L = 1..k /\ Cardinality(L) = k
  <2> HIDE DEF L
  <2> QED
    BY <1>1, <1>2, <1>3, InitialStretch
<1>6. PICK r \in 0..Len(s) : R = 1..r /\ Cardinality(R) = r
  <2> HIDE DEF R
  <2> QED
    BY <1>1, <1>2, <1>4, InitialStretch
<1>7. BisectLeft(s, x) = k /\ BisectRight(s, x) = r
  BY <1>5, <1>6, Zenon DEF BisectLeft, BisectRight
<1>8. \A n \in 1..Len(s) : (n <= k <=> n \in L) /\ (n <= r <=> n \in R)
  BY <1>1, <1>5, <1>6
<1> QED
  BY <1>1, <1>7, <1>8

\* insort keeps the order and adds one entry.
LEMMA InsortedLists ==
  ASSUME NEW s \in Seq(Entry), Ascends(s), NEW v \in Val, NEW i \in Slot
  PROVE  /\ Insorted(s, <<v, i>>) \in Seq(Entry) /\ Ascends(Insorted(s, <<v, i>>))
         /\ Keeps(s, Insorted(s, <<v, i>>), i)
         /\ \A held, vals : (\A m \in 1..Len(s) : s[m][2] # i) /\ i \in held /\ vals[i] = v
              => Lists(Insorted(s, <<v, i>>), held, vals, i)
<1> DEFINE e == <<v, i>>
           k == BisectRight(s, e)
           t == Insorted(s, e)
           into(n) == IF n <= k THEN n ELSE n + 1
           from(n) == IF n <= k THEN n ELSE n - 1
<1>1. e \in Entry /\ e \in Int \X Int /\ e[1] = v /\ e[2] = i
  <2>1. e \in Entry
    BY DEF Entry
  <2> QED
    BY <2>1, EntryType
<1>2. Len(s) \in Nat /\ \A n \in 1..Len(s) : s[n] \in Entry /\ s[n] \in Int \X Int
  <2>1. Len(s) \in Nat /\ \A n \in 1..Len(s) : s[n] \in Entry
    OBVIOUS
  <2> QED
    BY <2>1, EntryType
<1>3. k \in 0..Len(s) /\ \A n \in 1..Len(s) : n <= k <=> ~Less(e, s[n])
  <2> HIDE DEF e
  <2> QED
    BY <1>1, BisectCuts
<1>4. /\ t \in Seq(Entry) /\ Len(t) = Len(s) + 1 /\ t[k + 1] = e
      /\ \A n \in 1..k : t[n] = s[n]
      /\ \A n \in k + 1..Len(s) : t[n + 1] = s[n]
  <2> HIDE DEF e, k
  <2>1. t = InsertAt(s, k + 1, e)
    BY Zenon DEF Insorted, k
  <2>2. k \in 0..Len(s) /\ e \in Entry
    BY <1>1, <1>3
  <2> HIDE DEF t
  <2>3. t \in Seq(Entry) /\ Len(t) = Len(s) + 1
    BY <2>1, <2>2, InsertedElements
  <2>4. InsertAt(s, k + 1, e)[k + 1] = e
    BY <2>2, InsertedElements
  <2>5. \A n \in 1..k : InsertAt(s, k + 1, e)[n] = s[n]
    BY <2>2, InsertedElements
  <2>6. \A n \in k + 1..Len(s) : InsertAt(s, k + 1, e)[n + 1] = s[n]
    BY <2>2, InsertedElements
  <2> QED
    BY <2>1, <2>3, <2>4, <2>5, <2>6, Zenon
<1> HIDE DEF e, k, t
<1>5. ASSUME NEW n \in 1..Len(s)
      PROVE  into(n) \in 1..Len(t) /\ t[into(n)] = s[n] /\ into(n) # k + 1
  BY <1>2, <1>3, <1>4
<1>6. ASSUME NEW n \in 1..Len(t), n # k + 1
      PROVE  from(n) \in 1..Len(s) /\ t[n] = s[from(n)] /\ into(from(n)) = n
  <2>1. CASE n <= k
    BY <1>2, <1>3, <1>4, <2>1
  <2>2. CASE n > k + 1
    <3>1. n - 1 \in k + 1..Len(s) /\ (n - 1) + 1 = n /\ ~(n <= k) /\ ~(n - 1 <= k)
      BY <1>2, <1>3, <1>4, <2>2
    <3> QED
      BY <1>2, <1>3, <1>4, <3>1
  <2> QED
    BY <1>2, <1>3, <1>4, <1>6, <2>1, <2>2
<1>7. ASSUME NEW m \in 1..Len(t), NEW n \in 1..Len(t), m # k + 1, n # k + 1, m < n
      PROVE  from(m) < from(n)
  BY <1>2, <1>3, <1>4, <1>7
<1>8. Ascends(t)
  <2> SUFFICES ASSUME NEW m \in 1..Len(t), NEW n \in 1..Len(t), m < n PROVE ~Less(t[n], t[m])
    BY DEF Ascends
  <2>1. CASE m = k + 1
    <3>1. n # k + 1 /\ ~(from(n) <= k) /\ from(n) \in 1..Len(s) /\ t[n] = s[from(n)]
      <4>1. n # k + 1 /\ ~(n <= k) /\ ~(n - 1 <= k)
        BY <1>2, <1>3, <1>4, <2>1
      <4> QED
        BY <1>6, <4>1
    <3> HIDE DEF from
    <3>2. Less(e, s[from(n)]) /\ s[from(n)] \in Int \X Int
      BY <1>2, <1>3, <3>1
    <3>3. ~Less(s[from(n)], e)
      BY <1>1, <3>2, LessOrder
    <3> QED
      BY <1>4, <2>1, <3>1, <3>3
  <2>2. CASE n = k + 1
    <3>1. m # k + 1 /\ m <= k /\ from(m) = m /\ m \in 1..Len(s) /\ t[m] = s[m]
      BY <1>2, <1>3, <1>4, <2>2
    <3> QED
      BY <1>3, <1>4, <2>2, <3>1
  <2>3. CASE m # k + 1 /\ n # k + 1
    <3> HIDE DEF from, into
    <3> QED
      BY <1>6, <1>7, <2>3 DEF Ascends
  <2> QED
    BY <2>1, <2>2, <2>3
<1> HIDE DEF from, into
<1>9. Keeps(s, t, i)
  <2> SUFFICES ASSUME NEW held, NEW vals, NEW j \in Slot \ {i}, Lists(s, held, vals, j)
               PROVE  Lists(t, held, vals, j)
    BY DEF Keeps
  <2>1. \A n \in 1..Len(t) : t[n][2] = j => n # k + 1
    BY <1>1, <1>4
  <2>2. \A m \in 1..Len(t) : t[m][2] = j => j \in held /\ t[m][1] = vals[j]
    BY <1>6, <2>1 DEF Lists
  <2>3. ASSUME NEW m \in 1..Len(t), NEW n \in 1..Len(t), t[m][2] = j, t[n][2] = j PROVE m = n
    <3>1. from(m) = from(n)
      BY <1>6, <2>1, <2>3 DEF Lists
    <3> QED
      BY <1>6, <2>1, <2>3, <3>1
  <2>4. j \in held => \E m \in 1..Len(t) : t[m][2] = j
    BY <1>5 DEF Lists
  <2> QED
    BY <2>2, <2>3, <2>4 DEF Lists
<1>10. ASSUME NEW held, NEW vals, \A m \in 1..Len(s) : s[m][2] # i, i \in held, vals[i] = v
       PROVE  Lists(t, held, vals, i)
  <2>1. \A n \in 1..Len(t) : t[n][2] = i => n = k + 1
    BY <1>6, <1>10
  <2>2. k + 1 \in 1..Len(t) /\ t[k + 1][2] = i /\ t[k + 1][1] = v
    BY <1>1, <1>2, <1>3, <1>4
  <2> QED
    BY <1>10, <2>1, <2>2 DEF Lists
<1> QED
  BY <1>4, <1>8, <1>9, <1>10 DEF t, e

\* discard finds the entry if it is there, and takes no other slot's.
LEMMA PoppedLists ==
  ASSUME NEW s \in Seq(Entry), Ascends(s), NEW v \in Val, NEW i \in Slot
  PROVE  /\ Popped(s, <<v, i>>) \in Seq(Entry) /\ Ascends(Popped(s, <<v, i>>))
         /\ Keeps(s, Popped(s, <<v, i>>), i)
         /\ (/\ \A m \in 1..Len(s) : s[m][2] = i => s[m][1] = v
             /\ \A m, n \in 1..Len(s) : s[m][2] = i /\ s[n][2] = i => m = n)
              => \A m \in 1..Len(Popped(s, <<v, i>>)) : Popped(s, <<v, i>>)[m][2] # i
<1> DEFINE e == <<v, i>>
           p == BisectLeft(s, e) + 1
           t == Popped(s, e)
           into(n) == IF n < p THEN n ELSE n - 1
           from(n) == IF n < p THEN n ELSE n + 1
<1>1. e \in Entry /\ e \in Int \X Int /\ e[1] = v /\ e[2] = i
  <2>1. e \in Entry
    BY DEF Entry
  <2> QED
    BY <2>1, EntryType
<1>2. Len(s) \in Nat /\ \A n \in 1..Len(s) : s[n] \in Entry /\ s[n] \in Int \X Int /\ s[n] = <<s[n][1], s[n][2]>>
  <2>1. Len(s) \in Nat /\ \A n \in 1..Len(s) : s[n] \in Entry
    OBVIOUS
  <2> QED
    BY <2>1, EntryType
<1>3. p \in 1..Len(s) + 1 /\ \A n \in 1..Len(s) : n < p <=> Less(s[n], e)
  <2> HIDE DEF e
  <2>1. BisectLeft(s, e) \in 0..Len(s) /\ \A n \in 1..Len(s) : n <= BisectLeft(s, e) <=> Less(s[n], e)
    BY <1>1, BisectCuts
  <2> QED
    BY <1>2, <2>1
<1>4. t = IF p <= Len(s) /\ s[p] = e THEN RemoveAt(s, p) ELSE s
  BY Zenon DEF Popped
<1> HIDE DEF e, p, t
<1>5. CASE p <= Len(s) /\ s[p] = e
  <2>1. /\ p \in 1..Len(s) /\ t \in Seq(Entry) /\ Len(t) = Len(s) - 1
        /\ \A n \in 1..p - 1 : t[n] = s[n]
        /\ \A n \in p..Len(s) - 1 : t[n] = s[n + 1]
    <3>1. p \in 1..Len(s)
      BY <1>2, <1>3, <1>5
    <3>2. t = RemoveAt(s, p)
      BY <1>4, <1>5
    <3> QED
      BY <3>1, <3>2, RemovedElements
  <2>2. ASSUME NEW n \in 1..Len(s), n # p
        PROVE  into(n) \in 1..Len(t) /\ t[into(n)] = s[n]
    <3>1. CASE n < p
      BY <1>2, <2>1, <3>1
    <3>2. CASE n > p
      <4>1. n - 1 \in p..Len(s) - 1 /\ (n - 1) + 1 = n /\ ~(n < p) /\ n - 1 \in 1..Len(s) - 1
        BY <1>2, <2>1, <3>2
      <4> QED
        BY <1>2, <2>1, <4>1
    <3> QED
      BY <1>2, <2>1, <2>2, <3>1, <3>2
  <2>3. ASSUME NEW n \in 1..Len(t)
        PROVE  from(n) \in 1..Len(s) /\ from(n) # p /\ t[n] = s[from(n)] /\ into(from(n)) = n
    <3>1. CASE n < p
      BY <1>2, <2>1, <3>1
    <3>2. CASE n >= p
      <4>1. n \in p..Len(s) - 1 /\ n + 1 \in 1..Len(s) /\ ~(n < p) /\ ~(n + 1 < p) /\ n + 1 # p /\ (n + 1) - 1 = n
        BY <1>2, <2>1, <3>2
      <4> QED
        BY <1>2, <2>1, <4>1
    <3> QED
      BY <1>2, <2>1, <2>3, <3>1, <3>2
  <2>4. ASSUME NEW m \in 1..Len(t), NEW n \in 1..Len(t), m < n PROVE from(m) < from(n)
    BY <1>2, <2>1, <2>4
  <2> HIDE DEF from, into
  <2>5. Ascends(t)
    BY <2>3, <2>4 DEF Ascends
  <2>6. Keeps(s, t, i)
    <3> SUFFICES ASSUME NEW held, NEW vals, NEW j \in Slot \ {i}, Lists(s, held, vals, j)
                 PROVE  Lists(t, held, vals, j)
      BY DEF Keeps
    <3>1. \A n \in 1..Len(s) : s[n][2] = j => n # p
      BY <1>1, <1>5
    <3>2. \A m \in 1..Len(t) : t[m][2] = j => j \in held /\ t[m][1] = vals[j]
      BY <2>3 DEF Lists
    <3>3. ASSUME NEW m \in 1..Len(t), NEW n \in 1..Len(t), t[m][2] = j, t[n][2] = j PROVE m = n
      <4>1. from(m) = from(n)
        BY <2>3, <3>3 DEF Lists
      <4> QED
        BY <2>3, <4>1
    <3>4. j \in held => \E m \in 1..Len(t) : t[m][2] = j
      BY <2>2, <3>1 DEF Lists
    <3> QED
      BY <3>2, <3>3, <3>4 DEF Lists
  <2>7. ASSUME \A m, n \in 1..Len(s) : s[m][2] = i /\ s[n][2] = i => m = n, NEW m \in 1..Len(t), t[m][2] = i
        PROVE  FALSE
    <3>1. s[p][2] = i /\ p \in 1..Len(s) /\ s[from(m)][2] = i /\ from(m) \in 1..Len(s) /\ from(m) # p
      BY <1>1, <1>5, <2>1, <2>3, <2>7
    <3> QED
      BY <2>7, <3>1
  <2> QED
    BY <2>1, <2>5, <2>6, <2>7 DEF t, e
<1>6. CASE ~(p <= Len(s) /\ s[p] = e)
  <2>1. t = s
    BY <1>4, <1>6
  <2>2. ASSUME NEW m \in 1..Len(s), s[m] = e PROVE FALSE
    <3>1. ~(m < p)
      BY <1>1, <1>3, <2>2, LessOrder
    <3>2. p \in 1..Len(s) /\ p <= m
      BY <1>2, <1>3, <3>1
    <3>3. ~Less(s[p], e) /\ ~Less(e, s[p])
      <4>1. ~Less(s[p], e)
        BY <1>2, <1>3, <3>2
      <4>2. p = m \/ ~Less(s[m], s[p])
        BY <1>2, <3>2 DEF Ascends
      <4> QED
        BY <1>1, <2>2, <4>1, <4>2, LessOrder
    <3>4. s[p] = e
      BY <1>1, <1>2, <3>2, <3>3, LessOrder
    <3> QED
      BY <1>2, <1>6, <3>2, <3>4
  <2>3. ASSUME NEW m \in 1..Len(s), s[m][2] = i, s[m][1] = v PROVE FALSE
    <3>1. s[m] = e
      BY <1>2, <2>3 DEF e
    <3> QED
      BY <2>2, <3>1
  <2>4. Keeps(s, t, i)
    BY <2>1 DEF Keeps
  <2> QED
    BY <2>1, <2>3, <2>4 DEF t, e
<1> QED
  BY <1>5, <1>6

\* A change of a row's value is a change of its entry.
LEMMA MovedLists ==
  ASSUME NEW s \in Seq(Entry), Ascends(s), NEW i \in Slot, NEW old \in Val, NEW new \in Val
  PROVE  /\ Moved(s, i, old, new) \in Seq(Entry) /\ Ascends(Moved(s, i, old, new))
         /\ Keeps(s, Moved(s, i, old, new), i)
         /\ \A held, vals, after : /\ Lists(s, held, vals, i) /\ i \in held
                                   /\ vals[i] = old /\ after[i] = new
              => Lists(Moved(s, i, old, new), held, after, i)
<1>1. CASE old = new
  <2>1. Moved(s, i, old, new) = s
    BY <1>1, Zenon DEF Moved
  <2> QED
    BY <1>1, <2>1 DEF Keeps, Lists
<1>2. CASE old # new
  <2> DEFINE r == Popped(s, <<old, i>>)
             t == Moved(s, i, old, new)
  <2>1. t = Insorted(r, <<new, i>>)
    BY <1>2, Zenon DEF Moved
  <2>2. /\ r \in Seq(Entry) /\ Ascends(r) /\ Keeps(s, r, i)
        /\ \A held, vals : Lists(s, held, vals, i) /\ vals[i] = old => \A m \in 1..Len(r) : r[m][2] # i
    <3>1. /\ r \in Seq(Entry) /\ Ascends(r) /\ Keeps(s, r, i)
          /\ (/\ \A m \in 1..Len(s) : s[m][2] = i => s[m][1] = old
              /\ \A m, n \in 1..Len(s) : s[m][2] = i /\ s[n][2] = i => m = n)
               => \A m \in 1..Len(r) : r[m][2] # i
      BY PoppedLists
    <3> HIDE DEF r
    <3> QED
      BY <3>1 DEF Lists
  <2> HIDE DEF r, t
  <2>3. /\ t \in Seq(Entry) /\ Ascends(t) /\ Keeps(r, t, i)
        /\ \A held, after : (\A m \in 1..Len(r) : r[m][2] # i) /\ i \in held /\ after[i] = new
             => Lists(t, held, after, i)
    BY <2>1, <2>2, InsortedLists
  <2>4. Keeps(s, t, i)
    BY <2>2, <2>3 DEF Keeps
  <2> QED
    BY <2>2, <2>3, <2>4 DEF t
<1> QED
  BY <1>1, <1>2

\* A set of entries, sorted: each of them once.
LEMMA SortedLists ==
  ASSUME NEW S \in SUBSET Entry, IsFiniteSet(S)
  PROVE  /\ Sorted(S) \in Seq(Entry) /\ Ascends(Sorted(S))
         /\ \A n \in 1..Len(Sorted(S)) : Sorted(S)[n] \in S
         /\ \A e \in S : \E n \in 1..Len(Sorted(S)) : Sorted(S)[n] = e
         /\ \A m, n \in 1..Len(Sorted(S)) : Sorted(S)[m] = Sorted(S)[n] => m = n
<1> DEFINE size == Cardinality(S)
           below(e) == {f \in S : Less(f, e)}
           rank(e) == Cardinality(below(e))
           s == Sorted(S)
<1>1. size \in Nat /\ \A e \in S : e \in Int \X Int
  BY FS_CardinalityType, EntryType
<1>2. ASSUME NEW e \in S
      PROVE  IsFiniteSet(below(e)) /\ rank(e) \in 0..size - 1
  <2>1. below(e) \in SUBSET (S \ {e})
    BY <1>1, LessOrder
  <2>2. IsFiniteSet(S \ {e}) /\ Cardinality(S \ {e}) = size - 1
    BY FS_RemoveElement
  <2> DEFINE under == below(e)
             rest == S \ {e}
  <2>3. under \in SUBSET rest /\ IsFiniteSet(rest) /\ Cardinality(rest) = size - 1
    BY <2>1, <2>2
  <2> HIDE DEF under, rest, size
  <2>4. IsFiniteSet(under) /\ Cardinality(under) <= size - 1
    BY <2>3, FS_Subset
  <2>5. Cardinality(under) \in Nat
    BY <2>4, FS_CardinalityType
  <2>6. IsFiniteSet(under) /\ Cardinality(under) \in 0..size - 1
    BY <1>1, <2>4, <2>5
  <2> QED
    BY <2>6 DEF under
<1>3. ASSUME NEW a \in S, NEW c \in S, Less(a, c) PROVE rank(a) < rank(c)
  <2> DEFINE x == below(a)
             y == below(c)
  <2>1. x \in SUBSET (y \ {a}) /\ a \in y
    BY <1>1, <1>3, LessOrder
  <2>2. IsFiniteSet(x) /\ IsFiniteSet(y) /\ Cardinality(x) \in Nat /\ Cardinality(y) \in Nat
    BY <1>2, FS_CardinalityType
  <2> HIDE DEF x, y
  <2>3. IsFiniteSet(y \ {a}) /\ Cardinality(y \ {a}) = Cardinality(y) - 1
    BY <2>1, <2>2, FS_RemoveElement
  <2>4. Cardinality(x) <= Cardinality(y \ {a})
    BY <2>1, <2>3, FS_Subset
  <2>5. Cardinality(x) < Cardinality(y)
    BY <2>2, <2>3, <2>4
  <2> QED
    BY <2>5 DEF x, y
<1>4. ASSUME NEW a \in S, NEW c \in S, rank(a) = rank(c) PROVE a = c
  <2>1. ~Less(a, c) /\ ~Less(c, a)
    <3> HIDE DEF rank, below
    <3>1. rank(a) \in Int /\ rank(c) \in Int
      BY <1>1, <1>2
    <3> QED
      BY <1>3, <1>4, <3>1
  <2> QED
    BY <1>1, <2>1, LessOrder
<1> HIDE DEF rank, below
<1>5. ASSUME NEW m \in 0..size - 1 PROVE \E e \in S : rank(e) = m
  <2> SUFFICES ASSUME \A e \in S : rank(e) # m PROVE FALSE
    OBVIOUS
  <2> DEFINE all == 0..size - 1
             others == all \ {m}
             f == [e \in S |-> rank(e)]
  <2>1. IsFiniteSet(all) /\ Cardinality(all) = size /\ m \in all
    <3> HIDE DEF size
    <3>1. 0 \in Int /\ size - 1 \in Int
      BY <1>1
    <3>2. IsFiniteSet(0..size - 1) /\ Cardinality(0..size - 1) = IF 0 > size - 1 THEN 0 ELSE size - 1 - 0 + 1
      BY <3>1, FS_Interval
    <3>3. (IF 0 > size - 1 THEN 0 ELSE size - 1 - 0 + 1) = size
      BY <1>1
    <3> QED
      BY <3>2, <3>3
  <2>2. f \in [S -> others]
    BY <1>2
  <2> HIDE DEF all
  <2>3. IsFiniteSet(others) /\ Cardinality(others) = size - 1
    <3> HIDE DEF size
    <3> QED
      BY <2>1, FS_RemoveElement
  <2> HIDE DEF others
  <2>4. Cardinality(others) < size
    BY <1>1, <2>3
  <2>5. \E a, c \in S : a # c /\ f[a] = f[c]
    <3> HIDE DEF f
    <3> QED
      BY <2>2, <2>3, <2>4, FS_PigeonHole
  <2> QED
    BY <1>4, <2>5
<1>6. s = [n \in 1..size |-> CHOOSE e \in S : rank(e) = n - 1]
  BY Zenon DEF Sorted, rank, below
<1> HIDE DEF s, size
<1>7. ASSUME NEW n \in 1..size PROVE s[n] \in S /\ rank(s[n]) = n - 1
  <2>1. n - 1 \in 0..size - 1
    BY <1>1
  <2>2. \E e \in S : rank(e) = n - 1
    BY <1>5, <2>1
  <2>3. s[n] = CHOOSE e \in S : rank(e) = n - 1
    BY <1>6
  <2> QED
    BY <2>2, <2>3
<1>8. s \in Seq(Entry) /\ Len(s) = size
  <2>1. \A n \in 1..size : s[n] \in Entry
    BY <1>7
  <2>2. s \in [1..size -> Entry]
    BY <1>6, <2>1
  <2> QED
    BY <1>1, <2>2
<1>9. Ascends(s)
  <2> SUFFICES ASSUME NEW m \in 1..size, NEW n \in 1..size, m < n, Less(s[n], s[m]) PROVE FALSE
    BY <1>8 DEF Ascends
  <2>1. rank(s[n]) < rank(s[m])
    BY <1>3, <1>7
  <2>2. rank(s[n]) = n - 1 /\ rank(s[m]) = m - 1
    BY <1>7
  <2> QED
    BY <1>1, <2>1, <2>2
<1>10. ASSUME NEW e \in S PROVE \E n \in 1..size : s[n] = e
  <2>1. rank(e) \in 0..size - 1
    BY <1>2
  <2>2. PICK n \in 1..size : rank(e) = n - 1
    <3>1. rank(e) + 1 \in 1..size /\ rank(e) = (rank(e) + 1) - 1
      BY <1>1, <2>1
    <3> QED
      BY <3>1
  <2>3. s[n] = e
    BY <1>4, <1>7, <2>2
  <2> QED
    BY <2>3
<1>11. ASSUME NEW m \in 1..size, NEW n \in 1..size, s[m] = s[n] PROVE m = n
  <2>1. m - 1 = n - 1
    BY <1>7, <1>11
  <2> QED
    BY <1>1, <2>1
<1> QED
  BY <1>7, <1>8, <1>9, <1>10, <1>11 DEF s

\* The entries of one bound's side of the list.
LEMMA RangeCuts ==
  ASSUME NEW s \in Seq(Entry), Ascends(s), NEW q \in Query
  PROVE  \E first, last \in 0..Len(s) :
           /\ RangeLookup(s, q) = [n \in 1..last - first |-> s[first + n][2]]
           /\ \A n \in 1..Len(s) : Matches(s[n][1], q) <=> first < n /\ n <= last
<1> DEFINE first == IF q.low = None THEN 0
                    ELSE IF q.incLow THEN BisectLeft(s, <<q.low, -1>>)
                    ELSE BisectRight(s, <<q.low, Capacity>>)
           last == IF q.high = None THEN Len(s)
                   ELSE IF q.incHigh THEN BisectRight(s, <<q.high, Capacity>>)
                   ELSE BisectLeft(s, <<q.high, -1>>)
<1>1. RangeLookup(s, q) = [n \in 1..last - first |-> s[first + n][2]]
  BY Zenon DEF RangeLookup
<1>2. /\ Len(s) \in Nat /\ Capacity \in Int /\ -1 \in Int
      /\ \A n \in 1..Len(s) : s[n] \in Entry
  BY SizeAssumption DEF Capacity
<1>3. /\ q.low # None => q.low \in Int
      /\ q.high # None => q.high \in Int
      /\ q.incLow \in BOOLEAN /\ q.incHigh \in BOOLEAN
  BY SizeAssumption DEF Query
<1>4. ASSUME NEW x \in Int
      PROVE  /\ BisectLeft(s, <<x, -1>>) \in 0..Len(s) /\ BisectRight(s, <<x, Capacity>>) \in 0..Len(s)
             /\ \A n \in 1..Len(s) : n <= BisectLeft(s, <<x, -1>>) <=> s[n][1] < x
             /\ \A n \in 1..Len(s) : n <= BisectRight(s, <<x, Capacity>>) <=> s[n][1] <= x
  <2>1. <<x, -1>> \in Int \X Int /\ <<x, Capacity>> \in Int \X Int
    BY <1>2
  <2>2. ASSUME NEW n \in 1..Len(s)
        PROVE  (Less(s[n], <<x, -1>>) <=> s[n][1] < x) /\ (~Less(<<x, Capacity>>, s[n]) <=> s[n][1] <= x)
    <3>1. s[n][1] \in Int /\ s[n][2] \in Nat /\ s[n][2] < Capacity
      BY <1>2, EntryType
    <3> QED
      BY <1>2, <3>1 DEF Less
  <2> QED
    BY <2>1, <2>2, BisectCuts
<1>5. first \in 0..Len(s) /\ last \in 0..Len(s)
  BY <1>2, <1>3, <1>4
<1>6. ASSUME NEW n \in 1..Len(s)
      PROVE  Matches(s[n][1], q) <=> first < n /\ n <= last
  <2>1. s[n][1] \in Int
    BY <1>2, EntryType
  <2>2. first < n <=> (q.low # None => IF q.incLow THEN s[n][1] >= q.low ELSE s[n][1] > q.low)
    <3>1. first < n <=> ~(n <= first)
      BY <1>5
    <3>2. CASE q.low = None
      BY <1>2, <3>2
    <3>3. CASE q.low # None /\ q.incLow
      <4>1. first = BisectLeft(s, <<q.low, -1>>) /\ q.low \in Int
        BY <1>3, <3>3
      <4> HIDE DEF first
      <4>2. n <= first <=> s[n][1] < q.low
        BY <1>4, <4>1
      <4> QED
        BY <2>1, <3>1, <3>3, <4>1, <4>2
    <3>4. CASE q.low # None /\ ~q.incLow
      <4>1. first = BisectRight(s, <<q.low, Capacity>>) /\ q.low \in Int
        BY <1>3, <3>4
      <4> HIDE DEF first
      <4>2. n <= first <=> s[n][1] <= q.low
        BY <1>4, <4>1
      <4> QED
        BY <2>1, <3>1, <3>4, <4>1, <4>2
    <3> QED
      BY <3>2, <3>3, <3>4
  <2>3. n <= last <=> (q.high # None => IF q.incHigh THEN s[n][1] <= q.high ELSE s[n][1] < q.high)
    <3>1. CASE q.high = None
      BY <1>2, <3>1
    <3>2. CASE q.high # None
      BY <1>3, <1>4, <2>1, <3>2
    <3> QED
      BY <3>1, <3>2
  <2> HIDE DEF first, last
  <2> QED
    BY <2>2, <2>3, Zenon DEF Matches
<1> HIDE DEF first, last
<1> QED
  BY <1>1, <1>5, <1>6

\* What a range query finds of a slot that is listed as it should.
LEMMA RangeFinds ==
  ASSUME NEW s \in Seq(Entry), Ascends(s), NEW q \in Query, NEW held, NEW vals, NEW i, Lists(s, held, vals, i)
  PROVE  Cardinality({n \in DOMAIN RangeLookup(s, q) : RangeLookup(s, q)[n] = i})
           = IF i \in held /\ Matches(vals[i], q) THEN 1 ELSE 0
<1> DEFINE found == RangeLookup(s, q)
           F == {n \in DOMAIN found : found[n] = i}
<1>1. PICK first \in 0..Len(s), last \in 0..Len(s) :
           /\ found = [n \in 1..last - first |-> s[first + n][2]]
           /\ \A n \in 1..Len(s) : Matches(s[n][1], q) <=> first < n /\ n <= last
  BY RangeCuts
<1>2. Len(s) \in Nat
  OBVIOUS
<1> HIDE DEF found
<1>3. ASSUME NEW n \in F
      PROVE  first + n \in 1..Len(s) /\ s[first + n][2] = i /\ i \in held /\ Matches(vals[i], q)
  <2>1. n \in 1..last - first /\ found[n] = s[first + n][2]
    BY <1>1
  <2>2. first + n \in 1..Len(s) /\ first < first + n /\ first + n <= last
    BY <1>1, <1>2, <2>1
  <2>3. Matches(s[first + n][1], q)
    BY <1>1, <2>2
  <2> QED
    BY <2>1, <2>2, <2>3 DEF Lists
<1>4. CASE i \in held /\ Matches(vals[i], q)
  <2>1. PICK m \in 1..Len(s) : s[m][2] = i /\ s[m][1] = vals[i]
    BY <1>4 DEF Lists
  <2>2. first < m /\ m <= last
    BY <1>1, <1>4, <2>1
  <2>3. m - first \in 1..last - first /\ first + (m - first) = m
    BY <1>1, <1>2, <2>2
  <2>4. m - first \in F
    BY <1>1, <2>1, <2>3
  <2>5. ASSUME NEW n \in F PROVE n = m - first
    <3>1. first + n = m
      BY <1>3, <2>1 DEF Lists
    <3>2. n \in Int
      BY <1>1
    <3> QED
      BY <1>1, <1>2, <2>1, <3>1, <3>2
  <2>6. F = {m - first}
    BY <2>4, <2>5
  <2> HIDE DEF F
  <2>7. Cardinality(F) = 1
    BY <2>6, FS_Singleton
  <2> QED
    BY <1>4, <2>7 DEF F, found
<1>5. CASE ~(i \in held /\ Matches(vals[i], q))
  <2>1. F = {}
    BY <1>3, <1>5
  <2>2. Cardinality(F) = 0
    BY <2>1, FS_EmptySet
  <2> QED
    BY <1>5, <2>2 DEF found
<1> QED
  BY <1>4, <1>5

-----------------------------------------------------------------------------
(* The range index: its steps.                                             *)

\* The rows it should list: an insert's not before its page is written.
Holding == {j \in live : write # Idle /\ write.op = "insert" => write.idx # j}

\* The rows whose update may be undone are live when that is done; ...
Revived ==
  \A n \in 1..Len(undo) : undo[n].op = "update" =>
    \/ undo[n].idx \in live
    \/ \E m \in n + 1..Len(undo) : undo[m].op = "delete" /\ undo[m].idx = undo[n].idx

\* ... a row whose insert may be undone was not there before, and has the value
\* it was inserted with when its other records are undone; ...
Born ==
  \A n \in 1..Len(undo) : undo[n].op = "insert" =>
    /\ \A m \in 1..n - 1 : undo[m].idx # undo[n].idx
    /\ (\A m \in n + 1..Len(undo) : undo[m].idx # undo[n].idx) => cells[undo[n].idx] = undo[n].val
    /\ \A m \in n + 1..Len(undo) : undo[m].idx = undo[n].idx =>
         undo[m].val = undo[n].val \/ \E k \in n + 1..m - 1 : undo[k].idx = undo[n].idx

\* ... a row that is being inserted has no record yet, what a rollback writes back
\* is what its record says, and the index call that is due has the row's new value,
\* or none for a row that is gone.
Halfway ==
  /\ write # Idle =>
       /\ due = Idle
       /\ write.op = "insert" => \A n \in 1..Len(undo) : undo[n].idx # write.idx
       /\ write.op = "undo" => write.val = undo[Len(undo)].val
  /\ due # Idle =>
       /\ due.old # None \/ due.new # None
       /\ IF due.new = None THEN due.idx \notin live
          ELSE due.idx \in live /\ cells[due.idx] = due.new

\* A list has a slot as the rows say.  One whose index call is due is in it with the
\* old value, or is not if it was not there or, being deleted, was gone when the rows
\* were collected.
Listed(s, i) ==
  IF due # Idle /\ due.idx = i
  THEN \/ due.old # None /\ Lists(s, {i}, [j \in {i} |-> due.old], i)
       \/ None \in {due.old, due.new} /\ Lists(s, {}, cells, i)
  ELSE Lists(s, Holding, cells, i)

ItemsType ==
  /\ index \in {"none", "scanned", "ready"} /\ items \in Seq(Entry) /\ stale \in SUBSET Slot
  /\ due \in IndexCall \cup {Idle}
ItemsTrue == index # "none" => Ascends(items) /\ \A i \in Slot \ stale : Listed(items, i)

ListInv == ItemsType /\ Revived /\ Born /\ Halfway /\ ItemsTrue
ItemsInv == ZoneInv /\ ListInv

\* What the undo list says of a slot when a record of it is added; ...
LEMMA RecordedBorn ==
  ASSUME ZoneInv, Revived, Born, NEW op \in {"insert", "update", "delete"}, NEW i \in Slot, NEW v \in Val,
         phase \in {"open", "tx"}, Recorded(op, i, v),
         \A j \in Slot \ {i} : cells'[j] = cells[j] /\ (j \in live => j \in live'),
         op # "delete" => i \in live',
         op # "insert" => v = cells[i],
         op = "insert" => cells'[i] = v /\ \A n \in 1..Len(undo) : undo[n].idx # i
  PROVE  /\ Revived' /\ Born'
         /\ \A j : j # i /\ (\A n \in 1..Len(undo) : undo[n].idx # j) => \A n \in 1..Len(undo') : undo'[n].idx # j
<1>1. CASE phase = "tx"
  <2> DEFINE e == [op |-> op, idx |-> i, val |-> v]
             l == Len(undo)
  <2>1. undo' = Append(undo, e) /\ e \in UndoRecord
    BY <1>1 DEF Recorded, UndoRecord
  <2>2. /\ Len(undo') = l + 1 /\ l \in Nat
        /\ undo'[l + 1] = e /\ \A n \in 1..l : undo'[n] = undo[n]
    BY <2>1 DEF ZoneInv, RowsTypeOK
  <2>3. e.op = op /\ e.idx = i /\ e.val = v
    OBVIOUS
  <2>4. \A n \in 1..l : undo[n].idx \in Slot
    BY RestorableType DEF ZoneInv
  <2> HIDE DEF e, l
  <2>5. Revived'
    <3> SUFFICES ASSUME NEW n \in 1..l + 1, undo'[n].op = "update", undo'[n].idx \notin live'
                 PROVE  \E m \in n + 1..l + 1 : undo'[m].op = "delete" /\ undo'[m].idx = undo'[n].idx
      BY <2>2 DEF Revived
    <3>1. n \in 1..l
      BY <2>2, <2>3
    <3>2. undo'[n] = undo[n] /\ undo[n].idx \in Slot
      BY <2>2, <2>4, <3>1
    <3>3. CASE undo[n].idx = i
      <4>1. op = "delete"
        BY <3>2, <3>3
      <4>2. l + 1 \in n + 1..l + 1
        BY <2>2, <3>1
      <4> QED
        BY <2>2, <2>3, <3>2, <3>3, <4>1, <4>2
    <3>4. CASE undo[n].idx # i
      <4>1. undo[n].idx \notin live
        BY <3>2, <3>4
      <4>2. PICK m \in n + 1..l : undo[m].op = "delete" /\ undo[m].idx = undo[n].idx
        BY <3>1, <3>2, <4>1 DEF Revived, l
      <4>3. m \in n + 1..l + 1 /\ m \in 1..l
        BY <2>2, <3>1
      <4> QED
        BY <2>2, <3>2, <4>2, <4>3
    <3> QED
      BY <3>3, <3>4
  <2>6. Born'
    <3> SUFFICES ASSUME NEW n \in 1..l + 1, undo'[n].op = "insert"
                 PROVE  /\ \A m \in 1..n - 1 : undo'[m].idx # undo'[n].idx
                        /\ (\A m \in n + 1..l + 1 : undo'[m].idx # undo'[n].idx)
                             => cells'[undo'[n].idx] = undo'[n].val
                        /\ \A m \in n + 1..l + 1 : undo'[m].idx = undo'[n].idx =>
                             \/ undo'[m].val = undo'[n].val
                             \/ \E k \in n + 1..m - 1 : undo'[k].idx = undo'[n].idx
      BY <2>2 DEF Born
    <3>1. CASE n = l + 1
      <4>1. undo'[n] = e /\ op = "insert"
        BY <2>2, <2>3, <3>1
      <4>2. \A m \in 1..n - 1 : m \in 1..l /\ undo'[m] = undo[m]
        BY <2>2, <3>1
      <4>3. \A m \in 1..n - 1 : undo'[m].idx # undo'[n].idx
        BY <2>3, <4>1, <4>2 DEF l
      <4>4. \A m \in n + 1..l + 1 : FALSE
        BY <2>2, <3>1
      <4> QED
        BY <2>3, <4>1, <4>3, <4>4
    <3>2. CASE n # l + 1
      <4>1. n \in 1..l /\ undo'[n] = undo[n] /\ undo[n].op = "insert" /\ undo[n].idx \in Slot
        BY <2>2, <2>4, <3>2
      <4>2. \A m \in 1..n - 1 : undo'[m].idx # undo'[n].idx
        <5>1. \A m \in 1..n - 1 : m \in 1..l /\ undo'[m] = undo[m]
          BY <2>2, <4>1
        <5> QED
          BY <4>1, <5>1 DEF Born, l
      <4>3. \A m \in n + 1..l : m \in n + 1..l + 1 /\ undo'[m] = undo[m]
        BY <2>2, <4>1
      <4>4. l + 1 \in n + 1..l + 1
        BY <2>2, <4>1
      <4>5. ASSUME \A m \in n + 1..l + 1 : undo'[m].idx # undo'[n].idx
            PROVE  cells'[undo'[n].idx] = undo'[n].val
        <5>1. undo[n].idx # i
          BY <2>2, <2>3, <4>1, <4>4, <4>5
        <5>2. \A m \in n + 1..l : undo[m].idx # undo[n].idx
          BY <4>1, <4>3, <4>5
        <5>3. cells[undo[n].idx] = undo[n].val
          BY <4>1, <5>2 DEF Born, l
        <5> QED
          BY <4>1, <5>1, <5>3
      <4>6. ASSUME NEW m \in n + 1..l + 1, undo'[m].idx = undo'[n].idx,
                   \A k \in n + 1..m - 1 : undo'[k].idx # undo'[n].idx
            PROVE  undo'[m].val = undo'[n].val
        <5>1. CASE m = l + 1
          <6>1. undo[n].idx = i /\ undo'[m].val = v /\ op # "insert"
            BY <2>2, <2>3, <4>1, <4>6, <5>1 DEF l
          <6>2. \A k \in n + 1..l : undo[k].idx # undo[n].idx
            <7>1. \A k \in n + 1..l : k \in n + 1..m - 1
              BY <2>2, <5>1
            <7> QED
              BY <4>1, <4>3, <4>6, <7>1
          <6>3. cells[i] = undo[n].val
            BY <4>1, <6>1, <6>2 DEF Born, l
          <6> QED
            BY <4>1, <6>1, <6>3
        <5>2. CASE m # l + 1
          <6>1. m \in n + 1..l /\ undo'[m] = undo[m]
            BY <2>2, <4>1, <4>3, <5>2
          <6>2. \A k \in n + 1..m - 1 : k \in n + 1..l
            BY <2>2, <6>1
          <6>3. \A k \in n + 1..m - 1 : undo[k].idx # undo[n].idx
            BY <4>1, <4>3, <4>6, <6>2
          <6>4. undo[m].val = undo[n].val
            BY <4>1, <4>6, <6>1, <6>3 DEF Born, l
          <6> QED
            BY <4>1, <6>1, <6>4
        <5> QED
          BY <5>1, <5>2
      <4> QED
        BY <4>2, <4>5, <4>6
    <3> QED
      BY <3>1, <3>2
  <2>7. ASSUME NEW j, j # i, \A n \in 1..l : undo[n].idx # j
        PROVE  \A n \in 1..l + 1 : undo'[n].idx # j
    <3>1. \A n \in 1..l + 1 : n \in 1..l \/ n = l + 1
      BY <2>2
    <3> QED
      BY <2>2, <2>3, <2>7, <3>1
  <2> QED
    BY <2>2, <2>5, <2>6, <2>7 DEF l
<1>2. CASE phase = "open"
  <2>1. undo = <<>> /\ undo' = <<>>
    BY <1>2 DEF Recorded, ZoneInv, RowsTypeOK
  <2>2. Len(undo') = 0
    BY <2>1
  <2> QED
    BY <2>2 DEF Revived, Born
<1> QED
  BY <1>1, <1>2

\* ... and when the last one is taken back.
LEMMA FrontBorn ==
  ASSUME ZoneInv, Revived, Born, undo # <<>>, undo' = Front(undo),
         \A j \in Slot : j # undo[Len(undo)].idx => cells'[j] = cells[j] /\ (j \in live => j \in live'),
         undo[Len(undo)].op # "insert" =>
           /\ undo[Len(undo)].idx \in live'
           /\ cells'[undo[Len(undo)].idx] = undo[Len(undo)].val
  PROVE  Revived' /\ Born'
<1> DEFINE l == Len(undo)
           e == undo[l]
<1>1. /\ l \in Nat \ {0} /\ Len(undo') = l - 1
      /\ \A n \in 1..l - 1 : undo'[n] = undo[n]
      /\ \A n \in 1..l : undo[n].idx \in Slot /\ undo[n].op \in {"insert", "update", "delete"}
  <2>1. undo \in Seq(UndoRecord)
    BY DEF ZoneInv, RowsTypeOK
  <2>2. l \in Nat \ {0} /\ Len(undo') = l - 1 /\ \A n \in 1..l - 1 : undo'[n] = undo[n]
    BY <2>1, FrontRecords
  <2>3. \A n \in 1..l : undo[n] \in UndoRecord
    BY <2>1
  <2>4. \A n \in 1..l : undo[n].idx \in Slot /\ undo[n].op \in {"insert", "update", "delete"}
    BY <2>3 DEF UndoRecord
  <2> QED
    BY <2>2, <2>4
<1>2. \A n \in 1..l - 1 : n \in 1..l
  BY <1>1
<1>3. l \in 1..l
  BY <1>1
<1>4. e.op = "insert" => \A n \in 1..l - 1 : undo[n].idx # e.idx
  BY <1>3 DEF Born
<1> HIDE DEF l
<1>5. Revived'
  <2> SUFFICES ASSUME NEW n \in 1..l - 1, undo'[n].op = "update", undo'[n].idx \notin live'
               PROVE  \E m \in n + 1..l - 1 : undo'[m].op = "delete" /\ undo'[m].idx = undo'[n].idx
    BY <1>1 DEF Revived
  <2>1. undo'[n] = undo[n] /\ n \in 1..l /\ undo[n].idx \in Slot
    BY <1>1, <1>2
  <2>2. undo[n].idx # e.idx
    BY <1>4, <2>1 DEF l
  <2>3. undo[n].idx \notin live
    BY <2>1, <2>2 DEF l
  <2>4. PICK m \in n + 1..l : undo[m].op = "delete" /\ undo[m].idx = undo[n].idx
    BY <2>1, <2>3 DEF Revived, l
  <2>5. m # l
    BY <2>2, <2>4
  <2>6. m \in n + 1..l - 1 /\ m \in 1..l - 1
    BY <1>1, <2>1, <2>5
  <2> QED
    BY <1>1, <2>1, <2>4, <2>6
<1>6. Born'
  <2> SUFFICES ASSUME NEW n \in 1..l - 1, undo'[n].op = "insert"
               PROVE  /\ \A m \in 1..n - 1 : undo'[m].idx # undo'[n].idx
                      /\ (\A m \in n + 1..l - 1 : undo'[m].idx # undo'[n].idx)
                           => cells'[undo'[n].idx] = undo'[n].val
                      /\ \A m \in n + 1..l - 1 : undo'[m].idx = undo'[n].idx =>
                           \/ undo'[m].val = undo'[n].val
                           \/ \E k \in n + 1..m - 1 : undo'[k].idx = undo'[n].idx
    BY <1>1 DEF Born
  <2>1. undo'[n] = undo[n] /\ n \in 1..l /\ undo[n].idx \in Slot /\ undo[n].op = "insert"
    BY <1>1, <1>2
  <2>2. \A m \in 1..n - 1 : m \in 1..l - 1 /\ undo'[m] = undo[m]
    BY <1>1, <2>1
  <2>3. \A m \in n + 1..l - 1 : m \in 1..l - 1 /\ undo'[m] = undo[m] /\ m \in n + 1..l
    BY <1>1, <2>1
  <2>4. l \in n + 1..l
    BY <1>1, <2>1
  <2>5. \A m \in 1..n - 1 : undo'[m].idx # undo'[n].idx
    BY <2>1, <2>2 DEF Born, l
  <2>6. ASSUME \A m \in n + 1..l - 1 : undo'[m].idx # undo'[n].idx
        PROVE  cells'[undo'[n].idx] = undo'[n].val
    <3>1. \A m \in n + 1..l - 1 : undo[m].idx # undo[n].idx
      BY <2>1, <2>3, <2>6
    <3>2. CASE undo[n].idx = e.idx
      <4>1. e.op # "insert"
        BY <1>4, <3>2
      <4>2. e.val = undo[n].val
        BY <2>1, <2>4, <3>1, <3>2 DEF Born, l
      <4> QED
        BY <2>1, <3>2, <4>1, <4>2 DEF l
    <3>3. CASE undo[n].idx # e.idx
      <4>1. \A m \in n + 1..l : m \in n + 1..l - 1 \/ m = l
        BY <1>1, <2>1
      <4>2. \A m \in n + 1..l : undo[m].idx # undo[n].idx
        BY <3>1, <3>3, <4>1
      <4>3. cells[undo[n].idx] = undo[n].val
        BY <2>1, <4>2 DEF Born, l
      <4> QED
        BY <2>1, <3>3, <4>3 DEF l
    <3> QED
      BY <3>2, <3>3
  <2>7. ASSUME NEW m \in n + 1..l - 1, undo'[m].idx = undo'[n].idx,
               \A k \in n + 1..m - 1 : undo'[k].idx # undo'[n].idx
        PROVE  undo'[m].val = undo'[n].val
    <3>1. \A k \in n + 1..m - 1 : k \in n + 1..l - 1
      BY <1>1, <2>1, <2>3
    <3>2. \A k \in n + 1..m - 1 : undo[k].idx # undo[n].idx
      BY <2>1, <2>3, <2>7, <3>1
    <3>3. undo[m].val = undo[n].val
      BY <2>1, <2>3, <2>7, <3>2 DEF Born, l
    <3> QED
      BY <2>1, <2>3, <3>3
  <2> QED
    BY <2>5, <2>6, <2>7
<1> QED
  BY <1>5, <1>6

\* A list that has a slot has it for as long as its row and value stay.
LEMMA Relisted ==
  ASSUME NEW s, NEW i, NEW held, NEW vals, NEW held1, NEW vals1,
         Lists(s, held, vals, i), i \in held1 <=> i \in held, vals1[i] = vals[i]
  PROVE  Lists(s, held1, vals1, i)
BY DEF Lists

\* The arguments of an index call.
LEMMA CallType ==
  ASSUME NEW i \in Slot, NEW old \in Val \cup {None}, NEW new \in Val \cup {None}, Calls(i, old, new)
  PROVE  due' \in IndexCall /\ due' # Idle /\ due'.idx = i /\ due'.old = old /\ due'.new = new
BY MarkAssumption DEF Calls, IndexCall

\* A step that writes one row: no list takes the change yet, but the call that is
\* due then says what they have of it.
LEMMA RowWritten ==
  ASSUME ItemsType, ItemsTrue, due = Idle, UNCHANGED <<index, items, stale>>,
         NEW i \in Slot, NEW old \in Val \cup {None}, NEW new \in Val \cup {None}, Calls(i, old, new),
         \A j \in Slot \ {i} : cells'[j] = cells[j] /\ (j \in Holding' <=> j \in Holding),
         i \in Holding => old # None /\ old = cells[i],
         i \notin Holding => None \in {old, new}
  PROVE  ItemsType' /\ ItemsTrue'
<1>1. due' \in IndexCall /\ due' # Idle /\ due'.idx = i /\ due'.old = old /\ due'.new = new
  BY CallType
<1>2. ItemsType'
  BY <1>1 DEF ItemsType
<1>3. ASSUME index # "none", NEW j \in Slot \ stale
      PROVE  Listed(items, j)'
  <2>1. Lists(items, Holding, cells, j)
    BY <1>3 DEF ItemsTrue, Listed
  <2>2. CASE j # i
    <3>1. Lists(items, Holding', cells', j)
      BY <2>1, <2>2, Relisted
    <3> QED
      BY <1>1, <2>2, <3>1 DEF Listed
  <2>3. CASE j = i /\ i \in Holding
    <3>1. Lists(items, {i}, [k \in {i} |-> old], i)
      BY <2>1, <2>3 DEF Lists
    <3> QED
      BY <1>1, <2>3, <3>1 DEF Listed
  <2>4. CASE j = i /\ i \notin Holding
    <3>1. Lists(items, {}, cells', i)
      BY <2>1, <2>4 DEF Lists
    <3> QED
      BY <1>1, <2>4, <3>1 DEF Listed
  <2> QED
    BY <2>2, <2>3, <2>4
<1> QED
  BY <1>2, <1>3 DEF ItemsTrue

\* An index call: an index that writers know takes the change, one whose builder has
\* its rows does not.
LEMMA CallMade ==
  ASSUME ItemsType, ItemsTrue, due # Idle, due' = Idle, write = Idle, UNCHANGED <<cells, live, write, index>>,
         NEW t, Maintained(t), Missed(due.idx),
         index = "ready" => t \in Seq(Entry) /\ Ascends(t) /\ Keeps(items, t, due.idx),
         index = "ready" /\ due.idx \notin stale => Lists(t, live, cells, due.idx)
  PROVE  ItemsType' /\ ItemsTrue'
<1> DEFINE i == due.idx
<1>1. i \in Slot /\ Holding = live /\ Holding' = live
  BY DEF ItemsType, IndexCall, Holding
<1>2. index # "none" => Ascends(items) /\ \A j \in Slot \ {i} : j \notin stale => Lists(items, live, cells, j)
  BY <1>1 DEF ItemsTrue, Listed
<1>3. \A s, j : Listed(s, j)' <=> Lists(s, live, cells, j)
  BY <1>1 DEF Listed
<1>4. CASE index = "none"
  BY <1>4 DEF ItemsType, ItemsTrue, Maintained, Missed
<1>5. CASE index = "scanned"
  <2>1. items' = items /\ stale' = stale \cup {i}
    BY <1>5 DEF Maintained, Missed
  <2>2. Ascends(items) /\ \A j \in Slot \ stale' : Lists(items, live, cells, j)
    BY <1>2, <1>5, <2>1
  <2>3. ItemsType'
    BY <1>1, <1>5, <2>1 DEF ItemsType
  <2> QED
    BY <1>3, <1>5, <2>1, <2>2, <2>3 DEF ItemsTrue
<1>6. CASE index = "ready"
  <2>1. items' = t /\ stale' = stale
    BY <1>6 DEF Maintained, Missed
  <2>2. \A j \in Slot \ {i} : j \notin stale => Lists(t, live, cells, j)
    BY <1>2, <1>6 DEF Keeps
  <2>3. \A j \in Slot \ stale : Lists(t, live, cells, j)
    BY <1>6, <2>2
  <2>4. ItemsType'
    BY <1>6, <2>1 DEF ItemsType
  <2> QED
    BY <1>3, <1>6, <2>1, <2>3, <2>4 DEF ItemsTrue
<1> QED
  BY <1>4, <1>5, <1>6 DEF ItemsType

\* A step that writes no row.
LEMMA Untouched ==
  ASSUME ItemsType, ItemsTrue, UNCHANGED <<cells, index, items, stale, due>>, Holding' = Holding
  PROVE  ItemsType' /\ ItemsTrue'
BY DEF ItemsType, ItemsTrue, Listed

\* What ItemsInv says of the rows and the write under way.
LEMMA ItemsFacts ==
  ASSUME ItemsInv
  PROVE  /\ cells \in [Slot -> Val] /\ live \in SUBSET Slot /\ \A i \in live : i < top
         /\ undo \in Seq(UndoRecord) /\ Visible = live
         /\ write # Idle => /\ write.idx \in Slot /\ write.val \in Val /\ due = Idle
                            /\ write.op \in {"insert", "update", "undo"}
         /\ write = Idle \/ write.op # "insert" => Holding = live
         /\ due # Idle => due.idx \in Slot /\ write = Idle
         /\ index # "none" => /\ items \in Seq(Entry) /\ Ascends(items)
                              /\ \A i \in Slot \ stale : Listed(items, i)
<1>1. RowsTypeOK /\ ItemsType /\ ItemsTrue /\ Halfway
  BY DEF ItemsInv, ListInv, ZoneInv
<1>2. write # Idle => /\ write.idx \in Slot /\ write.val \in Val /\ due = Idle
                      /\ write.op \in {"insert", "update", "undo"}
  BY <1>1 DEF RowsTypeOK, RowWrite, Halfway
<1>3. Visible = live
  BY <1>1 DEF RowsTypeOK, Visible
<1>4. write = Idle \/ write.op # "insert" => Holding = live
  BY DEF Holding
<1>5. due # Idle => due.idx \in Slot /\ write = Idle
  BY <1>1 DEF ItemsType, IndexCall, Halfway
<1> QED
  BY <1>1, <1>2, <1>3, <1>4, <1>5 DEF RowsTypeOK, ItemsType, ItemsTrue

\* The row that an insert takes is in no list before its page is written.
LEMMA InsertTakeList == ASSUME ItemsInv, NEW v \in Val, InsertTake(v) PROVE ListInv'
<1>1. /\ write = Idle /\ live' = live \cup {top} /\ top \notin live
      /\ write' # Idle /\ write'.op = "insert" /\ write'.idx = top
      /\ due = Idle /\ UNCHANGED <<cells, undo, index, items, stale, due>>
  <2>1. top \in Nat /\ top \in Slot
    BY SizeAssumption DEF ItemsInv, ZoneInv, RowsTypeOK, InsertTake, Slot, Capacity
  <2>2. top \notin live
    BY <2>1, ItemsFacts
  <2>3. write' = [op |-> "insert", idx |-> top, val |-> v, wide |-> FALSE]
    BY DEF InsertTake
  <2>4. write' \in RowWrite /\ write'.op = "insert" /\ write'.idx = top
    BY <2>1, <2>3 DEF RowWrite
  <2>5. /\ write = Idle /\ due = Idle /\ live' = live \cup {top}
        /\ UNCHANGED <<cells, undo, index, items, stale, due>>
    BY DEF InsertTake, Ready, NoWrite, indexing
  <2> QED
    BY <2>2, <2>4, <2>5, MarkAssumption
<1>2. Holding' = Holding
  BY <1>1, ItemsFacts DEF Holding
<1>3. ItemsType' /\ ItemsTrue'
  BY <1>1, <1>2, Untouched DEF ItemsInv, ListInv
<1>4. Revived' /\ Born'
  BY <1>1 DEF ItemsInv, ListInv, Revived, Born
<1>5. Halfway'
  <2>1. \A n \in 1..Len(undo) : undo[n].idx \in Nat /\ undo[n].idx < top
    BY RestorableType, SlabType DEF ItemsInv, ZoneInv, UndoValid
  <2> QED
    BY <1>1, <2>1 DEF Halfway
<1> QED
  BY <1>3, <1>4, <1>5 DEF ListInv

\* Its page is written: an entry is due that no list had.
LEMMA InsertWriteList == ASSUME ItemsInv, InsertWrite PROVE ListInv'
<1> DEFINE i == write.idx
           v == write.val
<1>1. /\ write # Idle /\ write.op = "insert" /\ i \in live /\ i \in Slot /\ v \in Val /\ phase \in {"open", "tx"}
      /\ write' = Idle /\ live' = live /\ cells' = [cells EXCEPT ![i] = v] /\ UNCHANGED <<index, items, stale>>
      /\ due = Idle /\ Calls(i, None, v) /\ Recorded("insert", i, v)
  BY ItemsFacts DEF InsertWrite, ItemsInv, ZoneInv, WriteValid, indexing
<1>2. cells'[i] = v /\ \A j \in Slot \ {i} : cells'[j] = cells[j]
  BY <1>1, ItemsFacts
<1>3. i \notin Holding /\ \A j \in Slot \ {i} : j \in Holding' <=> j \in Holding
  BY <1>1 DEF Holding
<1>4. Revived' /\ Born'
  BY <1>1, <1>2, RecordedBorn DEF ItemsInv, ListInv, Halfway
<1>5. ItemsType' /\ ItemsTrue'
  BY <1>1, <1>2, <1>3, RowWritten DEF ItemsInv, ListInv
<1>6. Halfway'
  BY <1>1, <1>2, CallType, MarkAssumption DEF Halfway
<1> QED
  BY <1>4, <1>5, <1>6 DEF ListInv

\* An insert fails: its row is not listed.
LEMMA InsertRaisesList == ASSUME ItemsInv, InsertRaises PROVE ListInv'
<1>1. /\ write # Idle /\ write.op = "insert" /\ write.idx \in Slot /\ write' = Idle
      /\ stale' = stale \cup {write.idx} /\ UNCHANGED <<cells, live, undo, index, items, due>> /\ due = Idle
  BY ItemsFacts DEF InsertRaises, rows, reading
<1>2. \A j \in Slot \ {write.idx} : j \in Holding' <=> j \in Holding
  BY <1>1 DEF Holding
<1>3. ItemsType'
  BY <1>1 DEF ItemsInv, ListInv, ItemsType
<1>4. ItemsTrue'
  <2> SUFFICES ASSUME index # "none"
               PROVE  Ascends(items) /\ \A j \in Slot \ stale' : Listed(items, j)'
    BY <1>1 DEF ItemsTrue
  <2>1. Ascends(items) /\ \A j \in Slot \ stale' : Lists(items, Holding, cells, j)
    BY <1>1 DEF ItemsInv, ListInv, ItemsTrue, Listed
  <2>2. \A j \in Slot \ stale' : Lists(items, Holding', cells', j)
    BY <1>1, <1>2, <2>1, Relisted
  <2> QED
    BY <1>1, <2>1, <2>2 DEF Listed
<1>5. Revived' /\ Born' /\ Halfway'
  BY <1>1 DEF ItemsInv, ListInv, Revived, Born, Halfway
<1> QED
  BY <1>3, <1>4, <1>5 DEF ListInv

\* The first half of a write back leaves row and list alone.
LEMMA StartWriteList ==
  ASSUME ItemsInv, NoWrite, NEW op \in {"update", "undo"}, NEW i, NEW v, StartWrite(op, i, v),
         op = "undo" => v = undo[Len(undo)].val
  PROVE  ListInv'
<1>1. /\ write'.op = op /\ write'.val = v /\ write = Idle /\ due = Idle
      /\ UNCHANGED <<cells, live, undo, index, items, stale, due>>
  BY DEF StartWrite, NoWrite, rows, indexing
<1>2. Holding' = Holding
  BY <1>1 DEF Holding
<1>3. ItemsType' /\ ItemsTrue'
  BY <1>1, <1>2, Untouched DEF ItemsInv, ListInv
<1>4. Revived' /\ Born' /\ Halfway'
  BY <1>1 DEF ItemsInv, ListInv, Revived, Born, Halfway
<1> QED
  BY <1>3, <1>4 DEF ListInv

\* The page of an update, or of an update that is undone: the entry is to move.  The
\* row is live in either case.
LEMMA UpdateWriteList == ASSUME ItemsInv, UpdateWrite PROVE ListInv'
<1> DEFINE i == write.idx
           v == write.val
<1>1. /\ write # Idle /\ write.op \in {"update", "undo"} /\ i \in Slot /\ v \in Val /\ cells[i] \in Val
      /\ write' = Idle /\ live' = live /\ cells' = [cells EXCEPT ![i] = v] /\ UNCHANGED <<index, items, stale>>
      /\ due = Idle /\ Calls(i, cells[i], v)
  BY ItemsFacts DEF UpdateWrite, indexing
<1>2. cells'[i] = v /\ \A j \in Slot \ {i} : cells'[j] = cells[j]
  BY <1>1, ItemsFacts
<1>3. Holding = live /\ Holding' = live
  BY <1>1 DEF Holding
<1>4. i \in live /\ Revived' /\ Born'
  <2>1. CASE write.op = "update"
    <3>1. i \in live /\ phase \in {"open", "tx"} /\ Recorded("update", i, cells[i])
      BY <1>1, <2>1 DEF ItemsInv, ZoneInv, WriteValid, UpdateWrite
    <3> QED
      BY <1>1, <1>2, <3>1, RecordedBorn DEF ItemsInv, ListInv
  <2>2. CASE write.op = "undo"
    <3>1. /\ undo # <<>> /\ undo' = Front(undo) /\ undo[Len(undo)].op = "update"
          /\ undo[Len(undo)].idx = i /\ undo[Len(undo)].val = v
      BY <1>1, <2>2 DEF ItemsInv, ListInv, ZoneInv, WriteValid, Halfway, UpdateWrite
    <3>2. Len(undo) \in Nat \ {0}
      BY <3>1, ItemsFacts
    <3>3. i \in live
      <4>1. Len(undo) \in 1..Len(undo) /\ \A m \in Len(undo) + 1..Len(undo) : FALSE
        BY <3>2
      <4> QED
        BY <3>1, <4>1 DEF ItemsInv, ListInv, Revived
    <3> QED
      BY <1>1, <1>2, <3>1, <3>3, FrontBorn DEF ItemsInv, ListInv
  <2> QED
    BY <1>1, <2>1, <2>2
<1>5. ItemsType' /\ ItemsTrue'
  BY <1>1, <1>2, <1>3, <1>4, RowWritten, MarkAssumption DEF ItemsInv, ListInv
<1>6. Halfway'
  BY <1>1, <1>2, <1>4, CallType, MarkAssumption DEF Halfway
<1> QED
  BY <1>4, <1>5, <1>6 DEF ListInv

\* A row is gone: its entry is to go.
LEMMA Discarded ==
  ASSUME ItemsInv, NoWrite, write' = Idle, NEW i \in Slot, NEW v \in Val,
         live' = live \ {i}, UNCHANGED <<cells, index, items, stale>>, Calls(i, v, None),
         i \in live => v = cells[i]
  PROVE  ItemsType' /\ ItemsTrue' /\ Halfway'
<1>1. Holding = live /\ Holding' = live \ {i} /\ v # None /\ due = Idle
  BY MarkAssumption DEF Holding, NoWrite
<1>2. \A j \in Slot \ {i} : cells'[j] = cells[j] /\ (j \in Holding' <=> j \in Holding)
  BY <1>1
<1>3. ItemsType' /\ ItemsTrue'
  BY <1>1, <1>2, RowWritten DEF ItemsInv, ListInv
<1>4. due' # Idle /\ due'.idx = i /\ due'.old = v /\ due'.new = None
  BY CallType
<1> QED
  BY <1>1, <1>3, <1>4 DEF Halfway

\* A row is deleted and its value recorded.
LEMMA DeleteList == ASSUME ItemsInv, NEW i \in Visible, Delete(i) PROVE ListInv'
<1>1. /\ NoWrite /\ write' = Idle /\ i \in live /\ i \in Slot /\ cells[i] \in Val /\ phase \in {"open", "tx"}
      /\ live' = live \ {i} /\ UNCHANGED <<cells, index, items, stale>> /\ Recorded("delete", i, cells[i])
      /\ Calls(i, cells[i], None)
  <2>1. i \in Slot /\ cells[i] \in Val
    BY ItemsFacts
  <2> QED
    BY <2>1 DEF Delete, Ready, NoWrite, indexing
<1>2. ItemsType' /\ ItemsTrue' /\ Halfway'
  BY <1>1, Discarded
<1>3. Revived' /\ Born'
  BY <1>1, RecordedBorn DEF ItemsInv, ListInv
<1> QED
  BY <1>2, <1>3 DEF ListInv

\* The index call: insort and discard do to the list what the write did to the row.
LEMMA MaintainList == ASSUME ItemsInv, MaintainIndex PROVE ListInv'
<1> DEFINE i == due.idx
<1>1. /\ due # Idle /\ due' = Idle /\ write = Idle /\ Missed(i)
      /\ UNCHANGED <<cells, live, top, phase, undo, write, index>>
  BY ItemsFacts DEF MaintainIndex, IndexInsert, IndexUpdate, IndexDelete, Called, rows
<1>2. /\ due \in IndexCall /\ i \in Slot /\ due.old \in Val \cup {None} /\ due.new \in Val \cup {None}
      /\ due.old # None \/ due.new # None
      /\ IF due.new = None THEN i \notin live ELSE i \in live /\ cells[i] = due.new
  BY <1>1 DEF ItemsInv, ListInv, ItemsType, Halfway, IndexCall
<1>3. Revived' /\ Born' /\ Halfway'
  BY <1>1 DEF ItemsInv, ListInv, Revived, Born, Halfway
<1>4. index = "ready" => /\ items \in Seq(Entry) /\ Ascends(items)
                         /\ i \notin stale =>
                              \/ due.old # None /\ Lists(items, {i}, [j \in {i} |-> due.old], i)
                              \/ None \in {due.old, due.new} /\ Lists(items, {}, cells, i)
  BY <1>1, <1>2, ItemsFacts DEF Listed
<1>5. CASE IndexInsert
  <2> DEFINE t == Insorted(items, <<due.new, i>>)
  <2>1. due.old = None /\ due.new \in Val /\ i \in live /\ cells[i] = due.new /\ Maintained(t)
    BY <1>2, <1>5, MarkAssumption DEF IndexInsert
  <2>2. index = "ready" => /\ t \in Seq(Entry) /\ Ascends(t) /\ Keeps(items, t, i)
                           /\ \A held, vals : (\A m \in 1..Len(items) : items[m][2] # i) /\ i \in held
                                              /\ vals[i] = due.new => Lists(t, held, vals, i)
    BY <1>2, <1>4, <2>1, InsortedLists
  <2> HIDE DEF t
  <2>3. index = "ready" /\ i \notin stale => Lists(t, live, cells, i)
    <3>1. index = "ready" /\ i \notin stale => \A m \in 1..Len(items) : items[m][2] # i
      BY <1>4, <2>1 DEF Lists
    <3> QED
      BY <2>1, <2>2, <3>1
  <2> QED
    BY <1>1, <1>3, <2>1, <2>2, <2>3, CallMade DEF ItemsInv, ListInv
<1>6. CASE IndexUpdate
  <2> DEFINE t == Moved(items, i, due.old, due.new)
  <2>1. /\ due.old \in Val /\ due.new \in Val /\ None \notin {due.old, due.new}
        /\ i \in live /\ cells[i] = due.new /\ Maintained(t)
    BY <1>2, <1>6 DEF IndexUpdate
  <2>2. index = "ready" =>
          /\ t \in Seq(Entry) /\ Ascends(t) /\ Keeps(items, t, i)
          /\ \A held, vals, after : /\ Lists(items, held, vals, i) /\ i \in held
                                    /\ vals[i] = due.old /\ after[i] = due.new
               => Lists(t, held, after, i)
    BY <1>2, <1>4, <2>1, MovedLists
  <2> HIDE DEF t
  <2>3. index = "ready" /\ i \notin stale => Lists(t, live, cells, i)
    <3> DEFINE one == [j \in {i} |-> due.old]
    <3>1. one[i] = due.old
      OBVIOUS
    <3>2. index = "ready" /\ i \notin stale => Lists(items, {i}, one, i)
      BY <1>4, <2>1
    <3> HIDE DEF one
    <3>3. index = "ready" /\ i \notin stale => Lists(t, {i}, cells, i)
      BY <2>1, <2>2, <3>1, <3>2
    <3> QED
      BY <2>1, <3>3, Relisted
  <2> QED
    BY <1>1, <1>3, <2>1, <2>2, <2>3, CallMade DEF ItemsInv, ListInv
<1>7. CASE IndexDelete
  <2> DEFINE t == Popped(items, <<due.old, i>>)
  <2>1. due.new = None /\ due.old \in Val /\ i \notin live /\ Maintained(t)
    BY <1>2, <1>7 DEF IndexDelete
  <2>2. index = "ready" => /\ t \in Seq(Entry) /\ Ascends(t) /\ Keeps(items, t, i)
                           /\ (/\ \A m \in 1..Len(items) : items[m][2] = i => items[m][1] = due.old
                               /\ \A m, n \in 1..Len(items) : items[m][2] = i /\ items[n][2] = i => m = n)
                                => \A m \in 1..Len(t) : t[m][2] # i
    BY <1>2, <1>4, <2>1, PoppedLists
  <2> HIDE DEF t
  <2>3. index = "ready" /\ i \notin stale => Lists(t, live, cells, i)
    <3>1. index = "ready" /\ i \notin stale =>
            /\ \A m \in 1..Len(items) : items[m][2] = i => items[m][1] = due.old
            /\ \A m, n \in 1..Len(items) : items[m][2] = i /\ items[n][2] = i => m = n
      BY <1>4 DEF Lists
    <3>2. index = "ready" /\ i \notin stale => \A m \in 1..Len(t) : t[m][2] # i
      BY <2>2, <3>1
    <3> QED
      BY <2>1, <3>2 DEF Lists
  <2> QED
    BY <1>1, <1>3, <2>1, <2>2, <2>3, CallMade DEF ItemsInv, ListInv
<1> QED
  BY <1>5, <1>6, <1>7 DEF MaintainIndex

\* A transaction starts, ends or turns back.
LEMMA PhaseList == ASSUME ItemsInv, Begin \/ Commit \/ Abort \/ UndoDone PROVE ListInv'
<1>1. write = Idle /\ due = Idle /\ UNCHANGED <<cells, live, write, due, index, items, stale>>
  BY DEF Begin, Commit, Abort, UndoDone, Ready, NoWrite, rows, indexing
<1>2. Holding' = Holding
  BY <1>1 DEF Holding
<1>3. ItemsType' /\ ItemsTrue'
  BY <1>1, <1>2, Untouched DEF ItemsInv, ListInv
<1>4. undo' = undo \/ undo' = <<>>
  BY DEF Begin, Commit, Abort, UndoDone
<1>5. Revived' /\ Born'
  <2>1. CASE undo' = undo
    BY <1>1, <2>1 DEF ItemsInv, ListInv, Revived, Born
  <2>2. CASE undo' = <<>>
    <3>1. Len(undo') = 0
      BY <2>2
    <3> QED
      BY <3>1 DEF Revived, Born
  <2> QED
    BY <1>4, <2>1, <2>2
<1>6. Halfway'
  BY <1>1 DEF Halfway
<1> QED
  BY <1>3, <1>5, <1>6 DEF ListInv

\* The last record: what a rollback reads.
LEMMA LastRecord ==
  ASSUME ItemsInv, undo # <<>>
  PROVE  /\ Len(undo) \in Nat \ {0} /\ Len(undo) \in 1..Len(undo) /\ Last(undo) = undo[Len(undo)]
         /\ undo[Len(undo)].idx \in Slot /\ undo[Len(undo)].val \in Val
         /\ \A m \in Len(undo) + 1..Len(undo) : FALSE
<1>1. undo \in Seq(UndoRecord)
  BY ItemsFacts
<1>2. Len(undo) \in Nat \ {0} /\ undo[Len(undo)] \in UndoRecord
  BY <1>1
<1> QED
  BY <1>2 DEF Last, UndoRecord

\* An insert is undone: its entry will be found by the value recorded, which the row
\* still has.
LEMMA UndoInsertList == ASSUME ItemsInv, UndoInsert PROVE ListInv'
<1> DEFINE e == undo[Len(undo)]
<1>1. /\ undo # <<>> /\ NoWrite /\ write' = Idle /\ Last(undo).op = "insert"
      /\ live' = live \ {Last(undo).idx} /\ UNCHANGED <<cells, index, items, stale>> /\ undo' = Front(undo)
      /\ Calls(Last(undo).idx, Last(undo).val, None)
  BY DEF UndoInsert, Undoing, NoWrite, indexing
<1>2. Last(undo) = e /\ e.op = "insert" /\ e.idx \in Slot /\ e.val \in Val /\ cells[e.idx] = e.val
  <2>1. Last(undo) = e /\ e.op = "insert" /\ e.idx \in Slot /\ e.val \in Val
    BY <1>1, LastRecord
  <2>2. cells[e.idx] = e.val
    BY <1>1, <2>1, LastRecord DEF ItemsInv, ListInv, Born
  <2> QED
    BY <2>1, <2>2
<1> HIDE DEF e
<1>3. ItemsType' /\ ItemsTrue' /\ Halfway'
  BY <1>1, <1>2, Discarded
<1>4. Revived' /\ Born'
  BY <1>1, <1>2, FrontBorn DEF ItemsInv, ListInv, e
<1> QED
  BY <1>3, <1>4 DEF ListInv

\* The first half of undoing an update.
LEMMA UndoUpdateList == ASSUME ItemsInv, UndoUpdate PROVE ListInv'
BY StartWriteList, LastRecord DEF UndoUpdate, Undoing, NoWrite

\* A delete is undone: the row has its value still, and no list has an entry of it.
LEMMA UndoDeleteList == ASSUME ItemsInv, UndoDelete PROVE ListInv'
<1> DEFINE e == undo[Len(undo)]
<1>1. /\ undo # <<>> /\ write = Idle /\ due = Idle /\ write' = Idle /\ Last(undo) = e /\ e.op = "delete"
      /\ live' = live \cup {e.idx} /\ cells' = [cells EXCEPT ![e.idx] = e.val]
      /\ UNCHANGED <<index, items, stale>> /\ undo' = Front(undo) /\ Calls(e.idx, None, e.val)
  BY LastRecord DEF UndoDelete, Undoing, NoWrite, indexing
<1>2. /\ e.idx \in Slot /\ e.val \in Val /\ e.idx \notin live
      /\ cells'[e.idx] = e.val /\ \A j \in Slot : j # e.idx => cells'[j] = cells[j]
  <2>1. e.idx \in Slot /\ e.val \in Val /\ Len(undo) \in Deletes
    BY <1>1, LastRecord DEF Deletes
  <2>2. e.idx \notin live
    BY <2>1 DEF ItemsInv, ZoneInv, UndoValid
  <2> QED
    BY <1>1, <2>1, <2>2, ItemsFacts
<1>3. Holding = live /\ Holding' = live \cup {e.idx}
  BY <1>1 DEF Holding
<1>4. Revived' /\ Born'
  BY <1>1, <1>2, FrontBorn DEF ItemsInv, ListInv
<1> HIDE DEF e
<1>5. ItemsType' /\ ItemsTrue'
  <2>1. \A j \in Slot \ {e.idx} : cells'[j] = cells[j] /\ (j \in Holding' <=> j \in Holding)
    BY <1>2, <1>3
  <2> QED
    BY <1>1, <1>2, <1>3, <2>1, RowWritten DEF ItemsInv, ListInv
<1>6. Halfway'
  BY <1>1, <1>2, CallType, MarkAssumption DEF Halfway
<1> QED
  BY <1>4, <1>5, <1>6 DEF ListInv

\* A zone map is built without a look at the index.
LEMMA ReadList == ASSUME ItemsInv, Read PROVE ListInv'
<1>1. UNCHANGED <<cells, live, index, items, stale, undo, write, due>>
  BY DEF Read, BuildStart, BuildRow, BuildEnd, rows, indexing
<1>2. Holding' = Holding
  BY <1>1 DEF Holding
<1>3. ItemsType' /\ ItemsTrue'
  BY <1>1, <1>2, Untouched DEF ItemsInv, ListInv
<1> QED
  BY <1>1, <1>3 DEF ItemsInv, ListInv, Revived, Born, Halfway

\* The list made of rows has each of them.
LEMMA RowsListed ==
  ASSUME NEW held \in SUBSET Slot, NEW vals \in [Slot -> Val]
  PROVE  LET t == Sorted({<<vals[i], i>> : i \in held})
         IN  t \in Seq(Entry) /\ Ascends(t) /\ \A i \in Slot : Lists(t, held, vals, i)
<1> DEFINE S == {<<vals[i], i>> : i \in held}
           t == Sorted(S)
<1>1. S \in SUBSET Entry /\ IsFiniteSet(S)
  <2>1. IsFiniteSet(Slot)
    BY FS_Interval, SizeAssumption DEF Slot, Capacity
  <2>2. IsFiniteSet(held)
    BY <2>1, FS_Subset
  <2> DEFINE f == [i \in held |-> <<vals[i], i>>]
  <2>3. f \in Surjection(held, S)
    BY DEF Surjection
  <2>4. IsFiniteSet(S)
    BY <2>2, <2>3, FS_Surjection
  <2>5. S \in SUBSET Entry
    BY DEF Entry
  <2> QED
    BY <2>4, <2>5
<1>2. \A e \in S : e[2] \in held /\ e[1] = vals[e[2]] /\ e = <<vals[e[2]], e[2]>>
  OBVIOUS
<1>3. \A i \in held : <<vals[i], i>> \in S
  OBVIOUS
<1> HIDE DEF S
<1>4. /\ t \in Seq(Entry) /\ Ascends(t)
      /\ \A n \in 1..Len(t) : t[n] \in S
      /\ \A e \in S : \E n \in 1..Len(t) : t[n] = e
      /\ \A m, n \in 1..Len(t) : t[m] = t[n] => m = n
  BY <1>1, SortedLists
<1> HIDE DEF t
<1>5. ASSUME NEW i \in Slot
      PROVE  Lists(t, held, vals, i)
  <2>1. \A m \in 1..Len(t) : t[m][2] = i => i \in held /\ t[m][1] = vals[i] /\ t[m] = <<vals[i], i>>
    BY <1>2, <1>4
  <2>2. ASSUME NEW m \in 1..Len(t), NEW n \in 1..Len(t), t[m][2] = i, t[n][2] = i
        PROVE  m = n
    <3>1. t[m] = t[n]
      BY <2>1, <2>2
    <3> QED
      BY <1>4, <3>1
  <2>3. ASSUME i \in held
        PROVE  \E m \in 1..Len(t) : t[m][2] = i
    <3>1. PICK m \in 1..Len(t) : t[m] = <<vals[i], i>>
      BY <1>3, <1>4, <2>3
    <3> QED
      BY <3>1
  <2> QED
    BY <2>1, <2>2, <2>3 DEF Lists
<1> QED
  BY <1>4, <1>5 DEF t, S

\* create_range_index copies the rows, enters the index, or drops it.
LEMMA IndexList == ASSUME ItemsInv, IndexScan \/ IndexPublish \/ IndexDrop PROVE ListInv'
<1>1. UNCHANGED <<cells, live, undo, write, due>>
  BY DEF IndexScan, IndexPublish, IndexDrop, rows
<1>2. Revived' /\ Born' /\ Halfway'
  BY <1>1 DEF ItemsInv, ListInv, Revived, Born, Halfway
<1>3. Holding' = Holding
  BY <1>1 DEF Holding
<1>4. CASE IndexScan
  <2> DEFINE t == Sorted({<<cells[i], i>> : i \in Visible})
  <2>1. t \in Seq(Entry) /\ Ascends(t) /\ \A i \in Slot : Lists(t, live, cells, i)
    BY ItemsFacts, RowsListed
  <2>2. index' = "scanned" /\ items' = t /\ stale' = Entering
    BY <1>4 DEF IndexScan
  <2> HIDE DEF t
  <2>3. \A i \in Slot \ stale' : i \in Holding <=> i \in live
    BY <2>2 DEF Holding, Entering
  <2>4. \A i \in Slot \ stale' : Lists(t, Holding, cells, i)
    BY <2>1, <2>3, Relisted
  <2>5. ASSUME NEW i \in Slot \ stale', due # Idle, due.idx = i
        PROVE  Listed(t, i)
    <3>1. CASE due.new = None
      <4>1. i \notin live
        BY <2>5, <3>1 DEF ItemsInv, ListInv, Halfway
      <4>2. Lists(t, {}, cells, i)
        BY <2>1, <4>1, Relisted
      <4> QED
        BY <2>5, <3>1, <4>2 DEF Listed
    <3>2. CASE due.new # None
      <4>1. due.old = due.new /\ i \in live /\ cells[i] = due.old
        BY <2>2, <2>5, <3>2 DEF Entering, ItemsInv, ListInv, Halfway
      <4>2. Lists(t, {i}, [j \in {i} |-> due.old], i)
        BY <2>1, <4>1, Relisted
      <4> QED
        BY <2>5, <3>2, <4>1, <4>2 DEF Listed
    <3> QED
      BY <3>1, <3>2
  <2>6. \A i \in Slot \ stale' : Listed(t, i)
    BY <2>4, <2>5 DEF Listed
  <2>7. (\A i \in Slot \ stale' : Listed(t, i)) => (\A i \in Slot \ stale : Listed(items, i))'
    BY <1>1, <1>3, <2>2 DEF Listed
  <2>8. ItemsType'
    BY <1>1, <2>1, <2>2, ItemsFacts DEF ItemsType, Entering, ItemsInv, ListInv
  <2> QED
    BY <1>2, <2>1, <2>2, <2>6, <2>7, <2>8 DEF ListInv, ItemsTrue
<1>5. CASE IndexPublish
  <2>1. index = "scanned" /\ index' = "ready" /\ UNCHANGED <<items, stale>>
    BY <1>5 DEF IndexPublish
  <2> QED
    BY <1>1, <1>2, <1>3, <2>1 DEF ItemsInv, ListInv, ItemsType, ItemsTrue, Listed
<1>6. CASE IndexDrop
  <2>1. index' = "none" /\ items' = <<>> /\ stale' = {}
    BY <1>6 DEF IndexDrop
  <2>2. items' \in Seq(Entry)
    BY <2>1
  <2> QED
    BY <1>1, <1>2, <2>1, <2>2 DEF ItemsInv, ListInv, ItemsType, ItemsTrue
<1> QED
  BY <1>4, <1>5, <1>6

\* close and open again: the index is gone.
LEMMA ReopenList == ASSUME ItemsInv, Reopen PROVE ListInv'
<1>1. /\ index' = "none" /\ items' = <<>> /\ stale' = {} /\ write' = Idle /\ due' = Idle
      /\ UNCHANGED <<cells, live, undo>>
  BY DEF Reopen, Ready, NoWrite, rows
<1>2. items' \in Seq(Entry)
  BY <1>1
<1> QED
  BY <1>1, <1>2 DEF ItemsInv, ListInv, ItemsType, ItemsTrue, Revived, Born, Halfway

\* An index that writers know is built anew from the new rows, one whose builder
\* has the old rows may be wrong about all.
LEMMA CompactList == ASSUME ItemsInv, Compact PROVE ListInv'
<1> DEFINE t == Sorted({<<cells'[i], i>> : i \in live'})
<1>1. /\ write' = Idle /\ due' = Idle /\ undo' = <<>> /\ index' = index /\ Maintained(t)
      /\ stale' = (IF index = "scanned" THEN Slot ELSE {})
  BY DEF Compact, Ready, NoWrite, ItemsInv, ZoneInv, RowsTypeOK
<1>2. live' \in SUBSET Slot /\ cells' \in [Slot -> Val]
  BY CompactInv DEF ItemsInv, ZoneInv, RowsTypeOK
<1>3. t \in Seq(Entry) /\ Ascends(t) /\ \A i \in Slot : Lists(t, live', cells', i)
  BY <1>2, RowsListed
<1> HIDE DEF t
<1>4. Holding' = live'
  BY <1>1 DEF Holding
<1>5. Revived' /\ Born' /\ Halfway'
  <2>1. Len(undo') = 0
    BY <1>1
  <2> QED
    BY <1>1, <2>1 DEF Revived, Born, Halfway
<1>6. CASE index = "ready"
  BY <1>1, <1>3, <1>4, <1>5, <1>6 DEF ListInv, ItemsType, ItemsTrue, Listed, Maintained
<1>7. CASE index # "ready"
  <2>1. items' = items /\ items \in Seq(Entry) /\ index \in {"none", "scanned", "ready"}
        /\ (index # "none" => Ascends(items))
    BY <1>1, <1>7 DEF Maintained, ItemsInv, ListInv, ItemsType, ItemsTrue
  <2> QED
    BY <1>1, <1>5, <1>7, <2>1 DEF ListInv, ItemsType, ItemsTrue
<1> QED
  BY <1>6, <1>7

-----------------------------------------------------------------------------
\* A new table has no index.
LEMMA InitItems == Init => ItemsInv
<1> SUFFICES ASSUME Init PROVE ListInv
  BY InitInv DEF ItemsInv
<1>1. Len(undo) = 0 /\ items \in Seq(Entry)
  BY DEF Init
<1> QED
  BY <1>1 DEF Init, ListInv, ItemsType, ItemsTrue, Revived, Born, Halfway

\* Every step keeps ItemsInv.
LEMMA NextItems == ASSUME ItemsInv, [Next]_vars PROVE ItemsInv'
<1>1. ZoneInv'
  BY NextInv DEF ItemsInv
<1>2. CASE \E v \in Val : InsertTake(v)
  BY <1>1, <1>2, InsertTakeList DEF ItemsInv
<1>3. CASE InsertWrite \/ InsertRaises
  BY <1>1, <1>3, InsertWriteList, InsertRaisesList DEF ItemsInv
<1>4. CASE \E i \in Visible, v \in Val : Update(i, v)
  BY <1>1, <1>4, StartWriteList DEF ItemsInv, Update, Ready, NoWrite
<1>5. CASE UpdateWrite
  BY <1>1, <1>5, UpdateWriteList DEF ItemsInv
<1>6. CASE \E i \in Visible : Delete(i)
  BY <1>1, <1>6, DeleteList DEF ItemsInv
<1>7. CASE Begin \/ Commit \/ Abort \/ UndoDone
  BY <1>1, <1>7, PhaseList DEF ItemsInv
<1>8. CASE MaintainIndex
  BY <1>1, <1>8, MaintainList DEF ItemsInv
<1>9. CASE UndoInsert \/ UndoUpdate \/ UndoDelete
  BY <1>1, <1>9, UndoInsertList, UndoUpdateList, UndoDeleteList DEF ItemsInv
<1>10. CASE Read
  BY <1>1, <1>10, ReadList DEF ItemsInv
<1>11. CASE IndexScan \/ IndexPublish \/ IndexDrop
  BY <1>1, <1>11, IndexList DEF ItemsInv
<1>12. CASE Reopen \/ Compact
  BY <1>1, <1>12, ReopenList, CompactList DEF ItemsInv
<1>13. CASE UNCHANGED vars
  <2>1. Holding' = Holding
    BY <1>13 DEF vars, rows, Holding
  <2>2. ItemsType' /\ ItemsTrue'
    BY <1>13, <2>1, Untouched DEF vars, rows, indexing, ItemsInv, ListInv
  <2> QED
    BY <1>1, <1>13, <2>2 DEF vars, rows, ItemsInv, ListInv, Revived, Born, Halfway
<1> QED
  BY <1>2, <1>3, <1>4, <1>5, <1>6, <1>7, <1>8, <1>9, <1>10, <1>11, <1>12, <1>13
     DEF Next, Write, Rollback

\* A sorted list has each settled row once under its value and nothing else: a row
\* whose index call is still to come once under its old value, or not at all if
\* it had none or is being deleted.  The undo list has what it takes to find a
\* row's entry when a rollback needs it.
THEOREM ItemsCorrect == Spec => []ItemsInv
BY InitItems, NextItems, PTL DEF Spec

\* Every variable of ZoneMap stays in its set, and rows live only below the mark.
THEOREM TypeCorrect == Spec => []TypeOK
<1>1. ItemsInv => TypeOK
  BY DEF ItemsInv, ListInv, ItemsType, ZoneInv, TypeOK, Entry
<1> QED
  BY <1>1, ItemsCorrect, PTL

\* RangeIndex.range, once the index is entered: it gives every row of a range once
\* and no other, as a scan does, but for the rows that were written while the
\* index was being built, that a writer on its way enters a second time, are half
\* written or failed.
THEOREM RangeIndexCorrect == Spec => []RangeIndexExact
<1>1. ItemsInv => RangeIndexExact
  <2> SUFFICES ASSUME ItemsInv, index = "ready", NEW q \in Query, NEW i \in Slot \ Unsettled
               PROVE  Cardinality({n \in DOMAIN RangeLookup(items, q) : RangeLookup(items, q)[n] = i})
                        = IF i \in Visible /\ Matches(cells[i], q) THEN 1 ELSE 0
    BY DEF RangeIndexExact
  <2>1. items \in Seq(Entry) /\ Ascends(items) /\ Lists(items, Holding, cells, i)
    BY ItemsFacts DEF Unsettled, Listed
  <2>2. i \in Holding <=> i \in Visible
    BY ItemsFacts DEF Unsettled, Holding
  <2>3. Cardinality({n \in DOMAIN RangeLookup(items, q) : RangeLookup(items, q)[n] = i})
          = IF i \in Holding /\ Matches(cells[i], q) THEN 1 ELSE 0
    BY <2>1, RangeFinds
  <2> QED
    BY <2>2, <2>3
<1> QED
  BY <1>1, ItemsCorrect, PTL
=============================================================================
