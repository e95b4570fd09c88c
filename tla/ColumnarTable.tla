---------------------------- MODULE ColumnarTable ---------------------------
(***************************************************************************)
(* ColumnarTable of columnar.py, alone or inside a columnar SnapDB, which  *)
(* makes its calls under its lock, configures no frame of reference, never *)
(* calls compact, and saves and loads the table.  A row is deleted when    *)
(* all of its columns are null.                                            *)
(***************************************************************************)
EXTENDS Column

CONSTANTS
  Width,        \* columns, in the order of the schema
  KindsOf,      \* how each column may be configured
  ValuesOf,     \* what callers write to each column, but for a bool one
  Patched,      \* bound: sets of columns that updates give values for
  MaxRows       \* bound: rows of the table

Cols == 1 .. Width

ASSUME TableAssumption ==
  /\ Width \in Nat \ {0} /\ MaxRows \in Nat /\ Patched \subseteq SUBSET Cols
  /\ KindsOf \in [Cols -> SUBSET Kinds] /\ ValuesOf \in [Cols -> SUBSET (Int \cup {Null})]

VARIABLES
  ofSnapDB, \* whether a SnapDB keeps the table, or its client
  columns,  \* _col_list
  rows,     \* _row_count
  want,     \* history: what was written to each column, and not compacted away
  broken    \* history: columns that a compact did not rebuild as they were

vars == <<ofSnapDB, columns, rows, want, broken>>

\* The values that a call gives for some columns, and for all of them.
Values(c) == IF columns[c].kind = "bool" THEN {0, 1, Null} ELSE ValuesOf[c]
Written(given) == {r \in [given -> UNION {Values(c) : c \in given}] : \A c \in given : r[c] \in Values(c)}
Row == Written(Cols)
Patch == UNION {Written(given) : given \in Patched}

\* get: no row, or the values of all columns.
RowAt(i) == [c \in Cols |-> Get(columns[c], i)]
Dead(i) == \A c \in Cols : columns[c].nulls[i]

\* _live_mask
Live == {i \in 1..rows : ~Dead(i)}

Init ==
  /\ \E kind \in [Cols -> Kinds] :
       /\ ofSnapDB \in BOOLEAN
       /\ \A c \in Cols : kind[c] \in KindsOf[c] \ (IF ofSnapDB THEN {"for", "both"} ELSE {})
       /\ columns = [c \in Cols |-> NewColumn(kind[c])]
  /\ rows = 0
  /\ want = [c \in Cols |-> <<>>]
  /\ broken = {}

\* The model follows a table until a compact breaks a column of it.
Ready == broken = {}

\* insert; a batch_insert is as many of them
Insert(row) ==
  /\ Ready /\ rows < MaxRows
  /\ columns' = [c \in Cols |-> AppendTo(columns[c], row[c])]
  /\ rows' = rows + 1
  /\ want' = [c \in Cols |-> Append(want[c], row[c])]
  /\ UNCHANGED <<ofSnapDB, broken>>

\* update writes every column of the row, those that do not change included.
Update(i, patch) ==
  /\ Ready
  /\ LET merged == [c \in Cols |-> IF c \in DOMAIN patch THEN patch[c] ELSE RowAt(i)[c]]
         read == [c \in Cols |-> IF columns[c].nulls[i] THEN columns[c] ELSE RowsCached(columns[c])]
     IN  /\ columns' = [c \in Cols |-> SetAt(read[c], i, merged[c])]
         /\ want' = [c \in Cols |-> [want[c] EXCEPT ![i] = merged[c]]]
  /\ UNCHANGED <<ofSnapDB, rows, broken>>

Delete(i) ==
  /\ Ready /\ i \in 1..rows
  /\ columns' = [c \in Cols |-> SetAt(columns[c], i, Null)]
  /\ want' = [c \in Cols |-> [want[c] EXCEPT ![i] = Null]]
  /\ UNCHANGED <<ofSnapDB, rows, broken>>

\* A column after v was written to these rows, one after the other.
SetAll(col, places, v) ==
  LET after[n \in 0 .. Len(places)] == IF n = 0 THEN col ELSE SetAt(after[n - 1], places[n], v)
  IN  after[Len(places)]

\* batch_update reads all columns for its predicate, then writes some, each to
\* the end, in the rows that matched at first.
BatchUpdate(matches, patch) ==
  /\ Ready
  /\ columns' = [c \in Cols |->
                   IF c \notin DOMAIN patch THEN RowsCached(columns[c])
                   ELSE SetAll(RowsCached(columns[c]), InOrder(matches), patch[c])]
  /\ want' = [c \in Cols |-> [i \in DOMAIN want[c] |->
                IF c \in DOMAIN patch /\ i \in matches THEN patch[c] ELSE want[c][i]]]
  /\ UNCHANGED <<ofSnapDB, rows, broken>>

\* tolist, select_column; aggregate
Read(c) ==
  /\ Ready
  /\ columns' \in {[columns EXCEPT ![c] = RowsCached(@)], [columns EXCEPT ![c] = AllCached(@)]}
  /\ UNCHANGED <<ofSnapDB, rows, want, broken>>

\* A column that compact rebuilds loses its nulls, its windows, its first delta,
\* or its fractions.
BreaksOn(c, kept) ==
  \/ columns[c].mode \in {"delta", "for"}
  \/ \E k \in DOMAIN kept : columns[c].nulls[kept[k]]
  \/ columns[c].mode = "raw" /\ Truncated(columns[c], columns[c].data) # columns[c].data

\* Columns are rebuilt in turn; an exception leaves the others, and the row
\* count, as they are.
Compact ==
  /\ Ready /\ ~ofSnapDB /\ Live # 1..rows
  /\ LET kept == InOrder(Live)
         raising == {c \in Cols : RebuildRaises(columns[c], kept)}
         done == {c \in Cols : \A d \in raising : c < d}
     IN  /\ columns' = [c \in Cols |-> CASE c \in done -> Rebuilt(columns[c], kept)
                                        [] c \in raising /\ c - 1 \in done \cup {0} -> RowsCached(columns[c])
                                        [] OTHER -> columns[c]]
         /\ IF raising = {}
            THEN /\ rows' = Len(kept)
                 /\ want' = [c \in Cols |-> Kept(want[c], kept)]
                 /\ broken' = {c \in Cols : BreaksOn(c, kept)}
            ELSE /\ UNCHANGED <<rows, want>>
                 /\ broken' = done
  /\ UNCHANGED ofSnapDB

\* An empty column after these values were appended.
Filled(kind, values) ==
  LET after[n \in 0 .. Len(values)] == IF n = 0 THEN NewColumn(kind) ELSE AppendTo(after[n - 1], values[n])
  IN  after[Len(values)]

\* close writes the live rows with their indices; open inserts them again into
\* empty columns, and a deleted row for every index left out.
Reopen ==
  /\ Ready /\ ofSnapDB
  /\ LET last == Max(Live \cup {0})
     IN  /\ columns' = [c \in Cols |-> Filled(columns[c].kind, [i \in 1..last |-> RowAt(i)[c]])]
         /\ rows' = last
         /\ want' = [c \in Cols |-> SubSeq(want[c], 1, last)]
  /\ UNCHANGED <<ofSnapDB, broken>>

Next ==
  \/ \E row \in Row : Insert(row)
  \/ \E patch \in Patch :
       \/ \E i \in Live : Update(i, patch)
       \/ \E matches \in SUBSET Live \ {{}} : BatchUpdate(matches, patch)
  \/ \E i \in 1..rows : Delete(i)
  \/ \E c \in Cols : Read(c)
  \/ Compact \/ Reopen

Spec == Init /\ [][Next]_vars

-----------------------------------------------------------------------------
(* Properties.                                                             *)

ColumnType ==
  [kind : Kinds, mode : {"raw", "bool", "dict", "delta", "for"}, nulls : Seq(BOOLEAN), data : Seq(Int),
   values : Seq(Int), base : Int, last : Int, width : Nat, cache : {NoCache} \cup Seq(Int),
   given : SUBSET {"dict", "delta", "for"}, seen : Nat, lo : Int, hi : Int]

Encodable(c) ==
  /\ c.mode = "dict" => c.kind = "dict" /\ Len(c.values) <= DictThreshold
  /\ c.mode \in {"delta", "for"} => Tries(c, c.mode)
  /\ c.mode = "delta" => \A i \in DOMAIN c.data : FitsDelta(c.data[i], c.width)
  /\ c.mode = "for" => c.width <= MaxBits /\ \A i \in DOMAIN c.data : c.data[i] \in 0 .. Power[c.width] - 1

\* Every variable stays in its set; a column in an encoding was configured for it
\* and has not given it up, and what is encoded fits its codes, deltas or windows.
TypeOK ==
  /\ ofSnapDB \in BOOLEAN /\ columns \in [Cols -> ColumnType] /\ \A c \in Cols : Encodable(columns[c])
  /\ rows \in 0..MaxRows /\ broken \in SUBSET Cols

Exact(c) ==
  /\ Rows(columns[c]) = Len(want[c])
  /\ \A i \in 1..Rows(columns[c]) : Get(columns[c], i) = want[c][i]
  /\ Null \notin Range(want[c]) => Aggregated(columns[c]) = want[c]

\* Whatever encodings a column went through, by whichever calls, and whether or
\* not a reconstruction of it is cached, a row reads as it was last written: by
\* index, in a scan, and in an aggregate.
ReadsBack == \A c \in Cols \ broken : Exact(c)

\* "handles plain numeric, delta, FOR, bool, dict-encoded, and bytes columns
\* uniformly" (docs/ARCHITECTURE.md:185-186), "so subsequent len() / scans work
\* on the shrunken dataset" (columnar.py:1766-1767): the rows that compact leaves
\* read as before.
CompactKeepsRows == \A c \in Cols : Exact(c)
=============================================================================
