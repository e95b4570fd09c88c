------------------------------ MODULE WalStore ------------------------------
(***************************************************************************)
(* Durability of the row store: the mapped database file, the write-ahead  *)
(* log (wal.py) and recovery on open (core.py _load and _recover_wal), for *)
(* a process that may exit abruptly at any step.                           *)
(*                                                                         *)
(* Page bytes and the file's length outlive the process as soon as they    *)
(* are written, because the file is mapped; liveness bytes and the mark of *)
(* the last slab reach the file only in _persist_bitmaps; log records only *)
(* when the log's buffer is flushed.  Keys and indexes are RowStore's      *)
(* subject; here a row is one value.                                       *)
(***************************************************************************)
EXTENDS Integers, Sequences, FiniteSets

CONSTANTS
  Val,          \* rows
  Zero,         \* a slot of zero bytes
  Absent,       \* get() returned None
  NoClaim,      \* want: recovery promises nothing for this slot
  RowsPerSlab,
  BufferSize,   \* WAL._buffer_size: records that force a flush of the log
  MaxSlabs,     \* bound: slabs in the file
  MaxOps,       \* bound: client calls
  MaxCrashes,   \* bound: abrupt exits
  MaxFaults,    \* bound: torn lines and failing flushes of the log
  DirectWrites, \* whether the client also writes outside transactions
  Updates,      \* whether the client updates and deletes rows
  FailedTxs,    \* whether transactions fail and roll back
  Compacts      \* whether the client compacts the file

Slot == 0 .. MaxSlabs * RowsPerSlab - 1

ASSUME SizeAssumption ==
  /\ RowsPerSlab \in Nat \ {0} /\ MaxSlabs \in Nat \ {0} /\ BufferSize \in Nat \ {0}
  /\ MaxOps \in Nat /\ MaxCrashes \in Nat /\ MaxFaults \in Nat
  /\ {DirectWrites, Updates, FailedTxs, Compacts} \subseteq BOOLEAN

ASSUME MarkAssumption ==
  Zero \notin Val /\ Absent \notin Val \cup {Zero} /\ NoClaim \notin Val \cup {Zero, Absent}

VARIABLES
  cells, slabs, dlive, dmark, log,  \* the files: pages, length, bitmaps, header mark, log lines
  live, last,    \* Slab._live, Slab._count of the last slab (the others are full)
  buf,           \* WAL._buffer
  saved,         \* what the undo list leads back to (see RowStore.RollbackRestores)
  phase,         \* "open", "tx", "down", "replay", "clear"
  todo,          \* committed records recovery has still to apply
  want,          \* history: what recovery owes the client for every slot
  touched,       \* history: slots the open transaction wrote
  leaked,        \* history: slots whose image in the file is not committed
  aligned,       \* history: whether the log fitted the file at every open so far
  ops, crashes, faults

disk == <<cells, slabs, dlive, dmark, log>>
memory == <<live, last, buf, saved, phase, todo>>
ghost == <<want, touched, leaked, aligned>>
bounds == <<ops, crashes, faults>>
vars == <<disk, memory, ghost, bounds>>

Get(i) == IF i \in live THEN cells[i] ELSE Absent
View == [i \in Slot |-> Get(i)]
FileView == [i \in Slot |-> IF i \in dlive THEN cells[i] ELSE Absent]
EmptyView == [i \in Slot |-> Absent]

\* Slabs fill in order, so the mark of the last slab places the next row.
NextIdx == (slabs - 1) * RowsPerSlab + last
InTx == phase = "tx"

Init ==
  /\ cells = [i \in Slot |-> Zero] /\ slabs = 1 /\ dlive = {} /\ dmark = 0 /\ log = <<>>
  /\ live = {} /\ last = 0 /\ buf = <<>> /\ saved = EmptyView /\ phase = "open" /\ todo = <<>>
  /\ want = EmptyView /\ touched = {} /\ leaked = {} /\ aligned = TRUE
  /\ ops = 0 /\ crashes = 0 /\ faults = 0

-----------------------------------------------------------------------------
(* The log.                                                                *)

Mark(op) == [op |-> op, idx |-> -1, row |-> Zero]
Rec(op, i, r) == [op |-> op, idx |-> i, row |-> r]

\* Seeded fault: the buffer is flushed one record late.
LoggedLate(rec) ==
  IF Len(buf) >= BufferSize
  THEN log' = log \o Append(buf, rec) /\ buf' = <<>>
  ELSE buf' = Append(buf, rec) /\ UNCHANGED log

\* WAL.append: a full buffer goes to the file in one flush.
Logged(rec) ==
  IF Len(buf) + 1 >= BufferSize
  THEN log' = log \o Append(buf, rec) /\ buf' = <<>>
  ELSE buf' = Append(buf, rec) /\ UNCHANGED log

\* commit and rollback append their record and flush at once.
LoggedNow(rec) == log' = log \o Append(buf, rec) /\ buf' = <<>>

\* Begin, commit and rollback are marks; a line cut short is "torn".
RowOps == {"insert", "update", "delete"}

\* replay() stops at the first line it cannot parse.
Readable(lines) == {n \in DOMAIN lines : \A m \in 1..n : lines[m].op # "torn"}

\* Seeded fault: a rolled back transaction's records wait for the next commit.
CommittedLate(lines) ==
  {n \in Readable(lines) : /\ lines[n].op \in RowOps
                           /\ \E k \in Readable(lines) : n < k /\ lines[k].op = "commit"}

\* _recover_wal keeps the row operations whose next mark is a commit; begin and
\* rollback drop what is pending.
Committed(lines) ==
  {n \in Readable(lines) :
     /\ lines[n].op \in RowOps
     /\ \E k \in Readable(lines) : /\ n < k /\ lines[k].op = "commit"
                                   /\ \A m \in n + 1..k - 1 : lines[m].op \in RowOps}

\* A later delete of an index drops the records before it, and stays.
Netted(lines, set) ==
  {n \in set : \A m \in set : n < m /\ lines[m].op = "delete" => lines[m].idx # lines[n].idx}

InOrder(set) ==
  [k \in 1..Cardinality(set) |-> CHOOSE n \in set : Cardinality({m \in set : m < n}) = k - 1]
ToReplay(lines) ==
  LET kept == InOrder(Netted(lines, Committed(lines)))
  IN  [k \in DOMAIN kept |-> lines[kept[k]]]

-----------------------------------------------------------------------------
(* The client, inside a transaction or not.  A write outside one is not    *)
(* logged, and recovery owes nothing for its slot.                         *)

MayWrite == ops < MaxOps /\ (InTx \/ (phase = "open" /\ DirectWrites))

Wrote(op, i, r) ==
  /\ IF InTx
     THEN /\ Logged(Rec(op, i, r))
          /\ touched' = touched \cup {i}
          /\ leaked' = (IF i \in dlive /\ op # "delete" THEN leaked \cup {i} ELSE leaked)
          /\ UNCHANGED want
     ELSE /\ want' = [want EXCEPT ![i] = NoClaim]
          /\ UNCHANGED <<log, buf, touched, leaked>>
  /\ ops' = ops + 1
  /\ UNCHANGED <<dlive, dmark, saved, phase, todo, aligned, crashes, faults>>

\* Places a row at the high-water mark; a full last slab makes the file grow.
Place(r) ==
  /\ NextIdx \in Slot
  /\ cells' = [cells EXCEPT ![NextIdx] = r]
  /\ live' = live \cup {NextIdx}
  /\ IF last = RowsPerSlab
     THEN slabs' = slabs + 1 /\ last' = 1
     ELSE last' = last + 1 /\ UNCHANGED slabs

Insert(r) == MayWrite /\ Place(r) /\ Wrote("insert", NextIdx, r)

Update(i, r) ==
  /\ MayWrite /\ Updates /\ i \in live
  /\ cells' = [cells EXCEPT ![i] = r]
  /\ Wrote("update", i, r)
  /\ UNCHANGED <<slabs, live, last>>

Delete(i) ==
  /\ MayWrite /\ Updates /\ i \in live
  /\ live' = live \ {i}
  /\ Wrote("delete", i, Zero)
  /\ UNCHANGED <<cells, slabs, last>>

Begin ==
  /\ phase = "open" /\ ops < MaxOps
  /\ phase' = "tx"
  /\ saved' = View
  /\ Logged(Mark("begin"))
  /\ touched' = {}
  /\ ops' = ops + 1
  /\ UNCHANGED <<cells, slabs, dlive, dmark, live, last, todo, want, leaked, aligned, crashes, faults>>

\* want after the open transaction's writes count: a slot nothing was promised
\* for stays that way.
Owed ==
  [i \in Slot |-> IF i \in touched /\ want[i] # NoClaim THEN Get(i) ELSE want[i]]

Commit ==
  /\ InTx
  /\ LoggedNow(Mark("commit"))
  /\ phase' = "open"
  /\ want' = Owed
  /\ leaked' = {}
  /\ touched' = {} /\ saved' = EmptyView
  /\ UNCHANGED <<cells, slabs, dlive, dmark, live, last, todo, aligned, bounds>>

\* The undo list: rows of the start come back in place, inserted rows die in
\* their slots, the mark does not move back.
Undone ==
  /\ live' = {i \in Slot : saved[i] # Absent}
  /\ cells' = [i \in Slot |-> IF saved[i] # Absent THEN saved[i] ELSE cells[i]]
  /\ phase' = "open"
  /\ leaked' = {}
  /\ touched' = {} /\ saved' = EmptyView

Rollback ==
  /\ InTx /\ FailedTxs
  /\ LoggedNow(Mark("rollback"))
  /\ Undone
  /\ UNCHANGED <<slabs, dlive, dmark, last, todo, want, aligned, bounds>>

\* The flush of the commit record fails: its lines are written and fsync raises.
\* transaction() then rolls back: the buffer, which a failed flush does not
\* empty, goes to the file once more, with the rollback record behind the commit
\* record.  The client saw an exception, the file says committed twice.
\* Bound: the second flush succeeds.
CommitFails ==
  /\ InTx /\ faults < MaxFaults
  /\ LET lines == Append(buf, Mark("commit"))
     IN  log' = log \o lines \o lines \o <<Mark("rollback")>>
  /\ buf' = <<>>
  /\ want' = [i \in Slot |-> IF i \in touched THEN NoClaim ELSE want[i]]
  /\ Undone
  /\ faults' = faults + 1
  /\ UNCHANGED <<slabs, dlive, dmark, last, todo, aligned, ops, crashes>>

-----------------------------------------------------------------------------
(* Persisting.                                                             *)

PersistBitmaps == dlive' = live
PersistMark == dmark' = last

InLog(i) == \E n \in 1..Len(log \o buf) : (log \o buf)[n].idx = i

\* flush(): what was written outside transactions is owed from here on, unless
\* the log still holds an older record of the slot.  A transaction may be open:
\* nothing is owed for what it wrote so far, committed or not.
Flush ==
  /\ phase \in {"open", "tx"} /\ ops < MaxOps
  /\ PersistBitmaps /\ PersistMark
  /\ want' = [i \in Slot |-> IF i \in touched THEN NoClaim
                             ELSE IF InLog(i) THEN want[i] ELSE Get(i)]
  /\ ops' = ops + 1
  /\ UNCHANGED <<cells, slabs, log, memory, touched, leaked, aligned, crashes, faults>>

\* checkpoint(): flush, then remove the log, the open transaction's records
\* included.
Checkpoint ==
  /\ phase \in {"open", "tx"} /\ ops < MaxOps
  /\ PersistBitmaps /\ PersistMark
  /\ log' = <<>> /\ buf' = <<>>
  /\ want' = [i \in Slot |-> IF i \in touched THEN NoClaim ELSE Get(i)]
  /\ ops' = ops + 1
  /\ UNCHANGED <<cells, slabs, live, last, saved, phase, todo, touched, leaked, aligned,
                 crashes, faults>>

Forgotten ==
  /\ live' = {} /\ last' = 0 /\ buf' = <<>> /\ todo' = <<>>
  /\ saved' = EmptyView
  /\ phase' = "down"
  /\ touched' = {}

\* close() outside a transaction; inside one it rolls back first.
Close ==
  /\ phase = "open" /\ ops < MaxOps
  /\ PersistBitmaps /\ PersistMark
  /\ log' = <<>>
  /\ Forgotten
  /\ want' = View
  /\ leaked' = {}
  /\ ops' = ops + 1
  /\ UNCHANGED <<cells, slabs, aligned, crashes, faults>>

-----------------------------------------------------------------------------
(* Compaction, outside a transaction.                                      *)

\* The file with the live rows only, in order.
Packed ==
  LET rows == InOrder(live)
      n == Len(rows)
      needed == (n + RowsPerSlab - 1) \div RowsPerSlab
  IN  [n     |-> n,
       cells |-> [i \in Slot |-> IF i < n THEN cells[rows[i + 1]] ELSE Zero],
       slabs |-> IF n = 0 THEN 1 ELSE needed,
       mark  |-> IF n = 0 THEN 0 ELSE n - (needed - 1) * RowsPerSlab]

\* os.replace: the packed file takes the place of the old one.
Swap ==
  /\ phase = "open" /\ Compacts /\ ops < MaxOps
  /\ cells' = Packed.cells /\ slabs' = Packed.slabs
  /\ dlive' = 0 .. Packed.n - 1 /\ dmark' = Packed.mark

\* Loads the packed file without a replay, and removes the log.
Compact ==
  /\ Swap
  /\ live' = 0 .. Packed.n - 1 /\ last' = Packed.mark
  /\ log' = <<>> /\ buf' = <<>>
  /\ want' = View'
  /\ leaked' = {}
  /\ ops' = ops + 1
  /\ UNCHANGED <<saved, phase, todo, touched, aligned, crashes, faults>>

-----------------------------------------------------------------------------
(* Abrupt exits.                                                           *)

Running == phase # "down"
MayCrash == Running /\ crashes < MaxCrashes

Crash ==
  /\ MayCrash
  /\ Forgotten
  /\ crashes' = crashes + 1
  /\ UNCHANGED <<disk, want, leaked, aligned, ops, faults>>

\* Between the bitmaps and the header of _persist_bitmaps.
CrashInFlush ==
  /\ MayCrash
  /\ PersistBitmaps
  /\ Forgotten
  /\ want' = [i \in Slot |-> IF i \in touched THEN NoClaim ELSE want[i]]
  /\ crashes' = crashes + 1
  /\ UNCHANGED <<cells, slabs, dmark, log, leaked, aligned, ops, faults>>

\* Between os.replace and the removal of the log, whose records name rows by
\* the places they had before.
CrashInCompact ==
  /\ MayCrash
  /\ Swap
  /\ Forgotten
  /\ want' = [i \in Slot |-> IF InLog(i) /\ ToReplay(log) # <<>> THEN want[i]
                             ELSE IF i < Packed.n THEN Packed.cells[i] ELSE Absent]
  /\ aligned' = (aligned /\ (live = dlive' \/ ToReplay(log) = <<>>))
  /\ crashes' = crashes + 1
  /\ UNCHANGED <<log, leaked, ops, faults>>

\* While commit() flushes the log: some of the lines reach the file, the next
\* one perhaps in part.  With all of them there the transaction is committed.
CrashInCommit(n, torn) ==
  /\ InTx /\ MayCrash
  /\ LET lines == Append(buf, Mark("commit")) IN
     /\ n <= Len(lines)
     /\ torn => n < Len(lines) /\ faults < MaxFaults
     /\ log' = log \o SubSeq(lines, 1, n) \o (IF torn THEN <<Mark("torn")>> ELSE <<>>)
     /\ IF n = Len(lines)
        THEN want' = Owed /\ leaked' = {}
        ELSE UNCHANGED <<want, leaked>>
  /\ Forgotten
  /\ crashes' = crashes + 1
  /\ faults' = faults + (IF torn THEN 1 ELSE 0)
  /\ UNCHANGED <<cells, slabs, dlive, dmark, aligned, ops>>

-----------------------------------------------------------------------------
(* Opening.                                                                *)

\* Whether replay puts every row back at its own index: the bitmaps hold
\* nothing beyond the mark, the records whose rows the file does not show run
\* on from the mark, and no line follows a torn one.
Fits(recs, dl, mark) ==
  LET missing == {n \in DOMAIN recs : recs[n].op = "insert" /\ recs[n].idx \notin dl}
  IN  /\ \A i \in dl : i < mark
      /\ \A n \in missing : recs[n].idx = mark + Cardinality({m \in missing : m < n})
      /\ \A n \in DOMAIN log : log[n].op = "torn" => n = Len(log)

LoadedLast == IF dmark < RowsPerSlab THEN dmark ELSE RowsPerSlab

\* _load and the reading half of _recover_wal.  With nothing committed in the
\* log, recovery is over and the log file stays as it is.
Load ==
  /\ phase = "down"
  /\ live' = dlive
  /\ last' = LoadedLast
  /\ todo' = ToReplay(log)
  /\ phase' = (IF todo' = <<>> THEN "open" ELSE "replay")
  /\ aligned' = (aligned /\ Fits(todo', dlive, (slabs - 1) * RowsPerSlab + LoadedLast))
  /\ IF todo' = <<>>
     THEN want' = FileView /\ leaked' = {}
     ELSE UNCHANGED <<want, leaked>>
  /\ UNCHANGED <<disk, buf, saved, touched, bounds>>

ReplayInsert(rec) ==
  IF Get(rec.idx) = Absent THEN Place(rec.row) ELSE UNCHANGED <<cells, live, slabs, last>>
ReplayUpdate(rec) ==
  /\ cells' = (IF rec.idx \in live THEN [cells EXCEPT ![rec.idx] = rec.row] ELSE cells)
  /\ UNCHANGED <<live, slabs, last>>
ReplayDelete(rec) == live' = live \ {rec.idx} /\ UNCHANGED <<cells, slabs, last>>

Replay ==
  /\ phase = "replay" /\ todo # <<>>
  /\ \/ Head(todo).op = "insert" /\ ReplayInsert(Head(todo))
     \/ Head(todo).op = "update" /\ ReplayUpdate(Head(todo))
     \/ Head(todo).op = "delete" /\ ReplayDelete(Head(todo))
  /\ todo' = Tail(todo)
  /\ UNCHANGED <<dlive, dmark, log, buf, saved, phase, ghost, bounds>>

ReplayFlush ==
  /\ phase = "replay" /\ todo = <<>>
  /\ PersistBitmaps /\ PersistMark
  /\ phase' = "clear"
  /\ UNCHANGED <<cells, slabs, log, live, last, buf, saved, todo, ghost, bounds>>

ReplayClear ==
  /\ phase = "clear"
  /\ log' = <<>>
  /\ phase' = "open"
  /\ want' = View
  /\ leaked' = {}
  /\ UNCHANGED <<cells, slabs, dlive, dmark, live, last, buf, saved, todo, touched, aligned, bounds>>

Recover == Load \/ Replay \/ ReplayFlush \/ ReplayClear

Next ==
  \/ \E r \in Val : Insert(r)
  \/ \E i \in live : (\E r \in Val : Update(i, r)) \/ Delete(i)
  \/ Begin \/ Commit \/ CommitFails \/ Rollback
  \/ Flush \/ Checkpoint \/ Compact \/ Close
  \/ Crash \/ CrashInFlush \/ CrashInCompact
  \/ \E n \in 0..Len(buf) + 1, torn \in BOOLEAN : CrashInCommit(n, torn)
  \/ Recover

Spec == Init /\ [][Next]_vars

-----------------------------------------------------------------------------
(* Properties.                                                             *)

Line ==
  [op : RowOps \cup {"begin", "commit", "rollback", "torn"}, idx : Slot \cup {-1}, row : Val \cup {Zero}]
RowLine == {l \in Line : l.op \in RowOps /\ l.idx \in Slot /\ (l.op # "delete" => l.row \in Val)}

\* Every variable stays in its set; live slots hold rows, lines of row operations
\* name a slot and its row, and there is something to replay in a replay only.
TypeOK ==
  /\ cells \in [Slot -> Val \cup {Zero}]
  /\ slabs \in 1..MaxSlabs
  /\ dlive \in SUBSET Slot /\ live \in SUBSET Slot
  /\ \A i \in live \cup dlive : cells[i] \in Val
  /\ dmark \in 0..RowsPerSlab /\ last \in 0..RowsPerSlab
  /\ log \in Seq(Line) /\ buf \in Seq(Line) /\ todo \in Seq(RowLine)
  /\ \A n \in 1..Len(log \o buf) : (log \o buf)[n].op \in RowOps => (log \o buf)[n] \in RowLine
  /\ Len(buf) < BufferSize
  /\ saved \in [Slot -> Val \cup {Absent}]
  /\ phase \in {"open", "tx", "down", "replay", "clear"}
  /\ todo # <<>> => phase = "replay"
  /\ want \in [Slot -> Val \cup {Absent, NoClaim}]
  /\ touched \in SUBSET Slot /\ leaked \in SUBSET Slot /\ aligned \in BOOLEAN

RecoveryEnds == phase \in {"down", "clear"} /\ phase' = "open"

\* README.md:211, where it holds: when the log fits the file, recovery gives
\* every slot the row it had at the last commit (or at the last flush, for
\* writes outside transactions), whatever exits interrupted the commit, the
\* flush or an earlier recovery; slots whose image in the file an unfinished
\* transaction changed are the exception.
RecoveryRestores ==
  [][RecoveryEnds /\ aligned' =>
       \A i \in Slot \ leaked : want[i] \in {NoClaim, View'[i]}]_vars

\* README.md:211 as written: committed rows survive an abrupt exit.  Counted,
\* so that a row that comes back at another index is not held against it.
CommittedRows == {i \in Slot : want[i] \in Val}
CommittedSurvive ==
  [][RecoveryEnds => Cardinality(live') >= Cardinality(CommittedRows)]_vars
=============================================================================
