------------------------------ MODULE TxTable ------------------------------
(***************************************************************************)
(* What the row store promises its single writer (core.py SnapDB, row      *)
(* storage), without slabs, bitmaps, indexes or undo records: a table of   *)
(* rows at fixed indices, a key that is unique among the rows, indices     *)
(* that are handed out once, and transactions that abort to the table they *)
(* started from.  RowStore.tla is shown to implement it.                   *)
(***************************************************************************)
EXTENDS Naturals, FiniteSets

CONSTANTS
  Slot,    \* row indices
  Row,     \* rows, records with at least a field k (the unique column)
  Absent,  \* marks an index that holds no row
  NoTable  \* value of saved outside a transaction

VARIABLES
  rows,    \* the table: what get(idx) returns for every index
  used,    \* indices handed out so far; a deleted row keeps its index
  saved    \* the table a transaction aborts to

vars == <<rows, used, saved>>

Table == [Slot -> Row \cup {Absent}]
Present(t) == {i \in Slot : t[i] # Absent}
KeysDistinct(t) == \A i, j \in Present(t) : t[i].k = t[j].k => i = j

Init ==
  /\ rows = [i \in Slot |-> Absent]
  /\ used = {}
  /\ saved = NoTable

\* insert() and each slab's worth of a batch_insert().
InsertRows ==
  \E new \in (SUBSET (Slot \ used)) \ {{}} :
    /\ rows' \in Table
    /\ Present(rows') = Present(rows) \cup new
    /\ \A i \in Slot \ new : rows'[i] = rows[i]
    /\ KeysDistinct(rows')
    /\ used' = used \cup new
    /\ UNCHANGED saved

UpdateRow(i) ==
  /\ i \in Present(rows)
  /\ \E r \in Row : rows' = [rows EXCEPT ![i] = r]
  /\ KeysDistinct(rows')
  /\ UNCHANGED <<used, saved>>

DeleteRow(i) ==
  /\ i \in Present(rows)
  /\ rows' = [rows EXCEPT ![i] = Absent]
  /\ UNCHANGED <<used, saved>>

Begin == saved = NoTable /\ saved' = rows /\ UNCHANGED <<rows, used>>
Commit == saved # NoTable /\ saved' = NoTable /\ UNCHANGED <<rows, used>>
Abort == saved # NoTable /\ rows' = saved /\ saved' = NoTable /\ UNCHANGED used

\* compact(): the rows keep their contents and move to fresh indices.
Compact ==
  \E move \in [Present(rows) -> Slot] :
    /\ \A i, j \in Present(rows) : move[i] = move[j] => i = j
    /\ used' = {move[i] : i \in Present(rows)}
    /\ rows' \in Table
    /\ Present(rows') = used'
    /\ \A i \in Present(rows) : rows'[move[i]] = rows[i]
    /\ saved = NoTable
    /\ UNCHANGED saved

Next ==
  \/ InsertRows
  \/ \E i \in Slot : UpdateRow(i) \/ DeleteRow(i)
  \/ Begin
  \/ Commit
  \/ Abort
  \/ Compact

Spec == Init /\ [][Next]_vars
=============================================================================
