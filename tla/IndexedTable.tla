---------------------------- MODULE IndexedTable ----------------------------
(***************************************************************************)
(* A row-storage table with a hash index on its column k and a range index *)
(* on its column v, as queries see it: one writer, which holds the lock    *)
(* and keeps the indexes in step with the pages (core.py insert, update,   *)
(* delete and their _index_* helpers), and one thread in create_index,     *)
(* which takes no lock (core.py create_index, _note_access).  Either may   *)
(* be interrupted between any two of its accesses to the index's           *)
(* dictionary.  Queries are the operators of QueryPlan, evaluated where    *)
(* both threads are idle.                                                  *)
(*                                                                         *)
(* A page holds the row that decoding gives back, the indexes are given    *)
(* the row as the client passed it.                                        *)
(***************************************************************************)
EXTENDS QueryPlan

CONSTANTS
  Queries,    \* the queries that clients ask
  Given,      \* rows a client passes to insert and update
  Cut,        \* what a value of k becomes in the page: [key -> key]
  ZeroRow,    \* what a slot of zero bytes decodes to
  MaxRows,    \* bound: slots
  MaxWrites  \* bound: writes

Keys == DOMAIN Cut
Row == [k : Keys, v : ToSet(Values)]
Stored(row) == [row EXCEPT !.k = Cut[@]]

ASSUME RowAssumption ==
  /\ Given \subseteq Row /\ ZeroRow \in Row
  /\ \A x \in Keys : Cut[x] \in Keys /\ Cut[Cut[x]] = Cut[x]
ASSUME AbsentAssumption ==
  Absent \notin Row /\ Absent \notin Int /\ Absent \notin [column : {"k", "v"}, desc : BOOLEAN]
\* What filter and where_fn make of AnyRow: what the planner may use is one of
\* the predicates.
Conditions(conds) == conds \in [DOMAIN conds -> Seq(Operators \X Int)]
Built(q) ==
  /\ q = [where |-> q.where, conds |-> q.conds, order |-> Absent, limit |-> -1, offset |-> 0]
  /\ q.conds = Everything \/ (q.conds \in q.where /\ Conditions(q.conds))
ASSUME QueryAssumption == \A q \in Queries : Built(q)
ASSUME ValuesAssumption ==
  Values \in Seq(Int) /\ \A m, n \in 1 .. Len(Values) : m < n => Values[m] < Values[n]
ASSUME BoundAssumption == MaxRows \in Nat \ {0} /\ MaxWrites \in Nat

VARIABLES
  pages,    \* the decoded slots, as many as the slab's high-water mark counts
  live,     \* the slots whose liveness byte is 1
  hash,     \* the hash index: HashIndex._index as the set of its keys and the
            \* set of its <<key, index>> pairs, HashIndex._total
  range,    \* the range index's items
  w,        \* the writer: its operation, slot, rows and place
  b,        \* create_index: its copy of the pages, slot and place
  excused,  \* history: rows whose entries the code does not answer for
  writes

vars == <<pages, live, hash, range, w, b, excused, writes>>

NoIndex == [keys |-> {}, entries |-> {}, total |-> Absent]
WIdle == [at |-> "idle"]
BIdle == [at |-> "idle"]

Slots == 1 .. MaxRows
Init ==
  /\ pages = <<>> /\ live = {}
  /\ hash = NoIndex /\ range = Absent
  /\ w = WIdle /\ b = BIdle
  /\ excused = {} /\ writes = 0

Building == b.at # "idle"
Writing == w.at # "idle"
HasHash == hash # NoIndex

-----------------------------------------------------------------------------
(* HashIndex, one dictionary access at a time.                             *)

\* The entries of one key's set.
SetOf(x) == {e \in hash.entries : e[1] = x}

\* if key not in self._index: self._index[key] = set()
MakeSet(x) == hash' = [hash EXCEPT !.keys = @ \cup {x}, !.entries = @ \ SetOf(x)]

\* Seeded fault: the set goes with any of its rows.
EmptyAlways(x) == TRUE

\* if not self._index[key]
EmptySet(x) == SetOf(x) = {}

\* del self._index[key]
DropSet(x) == hash' = [hash EXCEPT !.keys = @ \ {x}, !.entries = @ \ SetOf(x)]

\* Either loses what another thread has put in since this one looked.
ExcuseSince(x, seen) == excused' = excused \cup {e[2] : e \in SetOf(x) \ seen}

\* The builder has fetched a set that is no longer the key's.
Detached(x) == b' = IF b.at = "add" /\ b.rows[b.i].k = x THEN [b EXCEPT !.at = "lost"] ELSE b

\* self._index[key].add(row_idx)
Added(h, x, i, counted) ==
  [h EXCEPT !.entries = @ \cup {<<x, i>>}, !.total = @ + (IF counted THEN 1 ELSE 0)]

\* self._index[key].discard(row_idx).  That the set may be replaced before this
\* is left out: what differs is the entry of the writer's own row, which is
\* excused then.
Discarded(h, x, i) == [h EXCEPT !.entries = @ \ {<<x, i>>}]

-----------------------------------------------------------------------------
(* The writer.                                                             *)

\* Rows written while an index is built are the builder's and the writer's.
Excuse(i) == excused' = (IF Building THEN excused \cup {i} ELSE excused)

StartInsert(row) ==
  /\ ~Writing /\ Len(pages) < MaxRows /\ writes < MaxWrites
  /\ pages' = Append(pages, ZeroRow)
  /\ live' = live \cup {Len(pages) + 1}
  /\ w' = [op |-> "insert", i |-> Len(pages) + 1, old |-> Absent, new |-> row, seen |-> {}, at |-> "page"]
  /\ Excuse(Len(pages) + 1)
  /\ writes' = writes + 1
  /\ UNCHANGED <<hash, range, b>>

WritePage ==
  /\ w.at = "page"
  /\ pages' = [pages EXCEPT ![w.i] = Stored(w.new)]
  /\ w' = [w EXCEPT !.at = "hash"]
  /\ UNCHANGED <<live, hash, range, b, excused, writes>>

StartUpdate(i, row) ==
  /\ ~Writing /\ i \in live /\ writes < MaxWrites
  /\ w' = [op |-> "update", i |-> i, old |-> pages[i], new |-> row, seen |-> {}, at |-> "hash"]
  /\ pages' = [pages EXCEPT ![i] = Stored(row)]
  /\ Excuse(i)
  /\ writes' = writes + 1
  /\ UNCHANGED <<live, hash, range, b>>

StartDelete(i) ==
  /\ ~Writing /\ i \in live /\ writes < MaxWrites
  /\ live' = live \ {i}
  /\ w' = [op |-> "delete", i |-> i, old |-> pages[i], new |-> Absent, seen |-> {}, at |-> "hash"]
  /\ writes' = writes + 1
  /\ Excuse(i)
  /\ UNCHANGED <<pages, hash, range, b>>

KeyStays == w.op = "update" /\ w.old.k = w.new.k

\* No hash index, or one that the update leaves alone.
PassIndex ==
  /\ w.at = "hash"
  /\ HasHash => KeyStays
  /\ w' = [w EXCEPT !.at = "range"]
  /\ UNCHANGED <<pages, live, hash, range, b, excused, writes>>

\* A row whose key the page cuts is entered under the key that was passed.
NotAnswered(row) == row # Absent /\ Cut[row.k] # row.k

\* After the old key, the new one; a delete has only to be counted.
AfterOld == IF w.op = "delete" THEN "uncount" ELSE "look"

\* The old key goes first.
EnterIndex ==
  /\ w.at = "hash" /\ HasHash /\ ~KeyStays
  /\ IF w.op = "insert"
     THEN hash' = hash /\ w' = [w EXCEPT !.at = "look"]
     ELSE /\ hash' = Discarded(hash, w.old.k, w.i)
          /\ w' = [w EXCEPT !.at = IF w.old.k \in hash.keys THEN "check" ELSE AfterOld]
  /\ excused' = (IF NotAnswered(w.new) THEN excused \cup {w.i} ELSE excused)
  /\ UNCHANGED <<pages, live, range, b, writes>>

CheckSet ==
  /\ w.at = "check"
  /\ w' = IF EmptySet(w.old.k) THEN [w EXCEPT !.at = "drop", !.seen = SetOf(w.old.k)]
          ELSE [w EXCEPT !.at = AfterOld]
  /\ UNCHANGED <<pages, live, hash, range, b, excused, writes>>

DropKey ==
  /\ w.at = "drop"
  /\ DropSet(w.old.k) /\ Detached(w.old.k) /\ ExcuseSince(w.old.k, w.seen)
  /\ w' = [w EXCEPT !.at = AfterOld, !.seen = {}]
  /\ UNCHANGED <<pages, live, range, writes>>

Uncount ==
  /\ w.at = "uncount"
  /\ hash' = [hash EXCEPT !.total = @ - 1]
  /\ w' = [w EXCEPT !.at = "range"]
  /\ UNCHANGED <<pages, live, range, b, excused, writes>>

\* Seeded fault: a key that has no set gets none.
LookKeyHasty ==
  /\ w.at = "look"
  /\ w' = [w EXCEPT !.at = "add"]
  /\ UNCHANGED <<pages, live, hash, range, b, excused, writes>>

LookKey ==
  /\ w.at = "look"
  /\ w' = IF w.new.k \in hash.keys THEN [w EXCEPT !.at = "add"]
          ELSE [w EXCEPT !.at = "make", !.seen = SetOf(w.new.k)]
  /\ UNCHANGED <<pages, live, hash, range, b, excused, writes>>

MakeKey ==
  /\ w.at = "make"
  /\ MakeSet(w.new.k) /\ Detached(w.new.k) /\ ExcuseSince(w.new.k, w.seen)
  /\ w' = [w EXCEPT !.at = "add", !.seen = {}]
  /\ UNCHANGED <<pages, live, range, writes>>

AddEntry ==
  /\ w.at = "add"
  /\ hash' = Added(hash, w.new.k, w.i, w.op = "insert")
  /\ w' = [w EXCEPT !.at = "range"]
  /\ UNCHANGED <<pages, live, range, b, excused, writes>>

\* Seeded fault: an update leaves the row's old item where it is.
UpdateRangeKeeping ==
  /\ w.at = "range"
  /\ range' =
       IF range = Absent THEN Absent
       ELSE (IF w.op # "delete" THEN range ELSE range \ {<<w.old.v, w.i>>})
            \cup (IF w.new = Absent THEN {} ELSE {<<w.new.v, w.i>>})
  /\ w' = WIdle
  /\ UNCHANGED <<pages, live, hash, b, excused, writes>>

UpdateRange ==
  /\ w.at = "range"
  /\ range' =
       IF range = Absent THEN Absent
       ELSE (IF w.old = Absent THEN range ELSE range \ {<<w.old.v, w.i>>})
            \cup (IF w.new = Absent THEN {} ELSE {<<w.new.v, w.i>>})
  /\ w' = WIdle
  /\ UNCHANGED <<pages, live, hash, b, excused, writes>>

-----------------------------------------------------------------------------
(* Indexes made and dropped.                                               *)

\* The index is there for everybody before the first row is in it.  A call for
\* a column that has an index returns at once: no step.
CreateIndex ==
  /\ ~HasHash /\ ~Building
  /\ hash' = [NoIndex EXCEPT !.total = 0]
  /\ b' = [at |-> "copy"]
  /\ excused' = (IF Writing THEN excused \cup {w.i} ELSE excused)
  /\ UNCHANGED <<pages, live, range, w, writes>>

\* iter_rows decodes a copy of the slab.
CopySlab ==
  /\ b.at = "copy"
  /\ b' = [at |-> "row", i |-> 1, rows |-> pages, seen |-> {}]
  /\ UNCHANGED <<pages, live, hash, range, w, excused, writes>>

NextRow(i) == IF i = Len(b.rows) THEN BIdle ELSE [b EXCEPT !.i = i + 1, !.at = "row"]

\* The liveness byte is read now, the row is the copy's.
Visit ==
  /\ b.at = "row"
  /\ b' = IF b.rows = <<>> THEN BIdle
          ELSE IF b.i \notin live THEN NextRow(b.i)
          ELSE IF b.rows[b.i].k \in hash.keys THEN [b EXCEPT !.at = "fetch"]
          ELSE [b EXCEPT !.at = "make", !.seen = SetOf(b.rows[b.i].k)]
  /\ UNCHANGED <<pages, live, hash, range, w, excused, writes>>

MakeVisited ==
  /\ b.at = "make"
  /\ MakeSet(b.rows[b.i].k) /\ ExcuseSince(b.rows[b.i].k, b.seen)
  /\ b' = [b EXCEPT !.at = "fetch", !.seen = {}]
  /\ UNCHANGED <<pages, live, range, w, writes>>

FetchVisited ==
  /\ b.at = "fetch" /\ b.rows[b.i].k \in hash.keys
  /\ b' = [b EXCEPT !.at = "add"]
  /\ UNCHANGED <<pages, live, hash, range, w, excused, writes>>

\* The writer took the key's set away in between: KeyError, and the index stays
\* with the rows that were in it.
RaiseVisited ==
  /\ b.at = "fetch" /\ b.rows[b.i].k \notin hash.keys
  /\ excused' = excused \cup (b.i .. Len(b.rows))
  /\ b' = BIdle
  /\ UNCHANGED <<pages, live, hash, range, w, writes>>

AddVisited ==
  /\ b.at = "add"
  /\ hash' = Added(hash, b.rows[b.i].k, b.i, TRUE)
  /\ b' = NextRow(b.i)
  /\ UNCHANGED <<pages, live, range, w, excused, writes>>

\* The row goes into a set that the dictionary no longer has.
LoseVisited ==
  /\ b.at = "lost"
  /\ hash' = [hash EXCEPT !.total = @ + 1]
  /\ excused' = excused \cup {b.i}
  /\ b' = NextRow(b.i)
  /\ UNCHANGED <<pages, live, range, w, writes>>

\* Bound: indexes are dropped while no row is on its way into them.
DropIndex ==
  /\ HasHash /\ ~Building /\ w.at \in {"idle", "page", "hash", "range"}
  /\ hash' = NoIndex /\ excused' = {}
  /\ UNCHANGED <<pages, live, range, w, b, writes>>

\* What overlaps here is the subject of ZoneMap.
CreateRangeIndex ==
  /\ range = Absent /\ ~Writing
  /\ range' = {<<pages[i].v, i>> : i \in live}
  /\ UNCHANGED <<pages, live, hash, w, b, excused, writes>>

DropRangeIndex ==
  /\ range # Absent /\ ~Writing
  /\ range' = Absent
  /\ UNCHANGED <<pages, live, hash, w, b, excused, writes>>

Next ==
  \/ \E row \in Given : StartInsert(row) \/ \E i \in live : StartUpdate(i, row)
  \/ \E i \in live : StartDelete(i)
  \/ WritePage \/ PassIndex \/ EnterIndex \/ CheckSet \/ DropKey \/ Uncount \/ LookKey \/ MakeKey \/ AddEntry \/ UpdateRange
  \/ CreateIndex \/ CopySlab
  \/ Visit \/ MakeVisited \/ FetchVisited \/ RaiseVisited \/ AddVisited \/ LoseVisited
  \/ DropIndex \/ CreateRangeIndex \/ DropRangeIndex

Spec == Init /\ [][Next]_vars

-----------------------------------------------------------------------------
(* Properties.                                                             *)

Visible == [i \in 1 .. Len(pages) |-> IF i \in live THEN pages[i] ELSE Absent]

\* The database with its indexes, and without.
Indexed ==
  [rows  |-> Visible,
   hash  |-> [c \in (IF HasHash THEN {"k"} ELSE {}) |-> hash],
   range |-> [c \in (IF range = Absent THEN {} ELSE {"v"}) |-> range]]
Bare == [Indexed EXCEPT !.hash = <<>>, !.range = <<>>]

TypeOK ==
  /\ pages \in Seq(Row) /\ Len(pages) <= MaxRows /\ live \subseteq DOMAIN pages
  /\ hash.keys \subseteq Keys /\ hash.entries \subseteq hash.keys \X Slots /\ hash.total \in Int \cup {Absent}
  /\ range = Absent \/ range \subseteq ToSet(Values) \X Slots
  /\ w.at \in {"idle", "page", "hash", "check", "drop", "uncount", "look", "make", "add", "range"}
  /\ b.at \in {"idle", "copy", "row", "make", "fetch", "add", "lost"}
  /\ excused \subseteq Slots /\ writes \in 0 .. MaxWrites

Quiet == ~Writing /\ ~Building

\* query.py:1-22: whichever index serves a query, it finds the rows that a scan
\* finds, for every combination of operators and of filters on one column and
\* on several.  Not answered for: rows written while the index was being built,
\* rows whose key the page cuts, rows whose set another thread replaced; and
\* an index whose total such rows brought to zero, which counts as empty, or
\* below, where execute raises.
PlannedComplete ==
  Quiet => \A q \in Queries :
    LET hashed == Plan(Indexed, q.conds).mode = "hash"
    IN  \/ hashed /\ excused # {} /\ hash.total <= 0
        \/ ToSet(Execute(Indexed, q)) \ (IF hashed THEN excused ELSE {})
             = ToSet(Execute(Bare, q)) \ (IF hashed THEN excused ELSE {})

\* query.py count and the aggregates go another way through the indexes than
\* execute; they are about the same rows.
CountsAgree ==
  Quiet /\ excused = {} => \A q \in Queries :
    LET found == Execute(Indexed, q)
    IN  /\ Count(Indexed, q) = Len(found)
        /\ \A c \in {"k", "v"} :
             LET values == MatchingValues(Indexed, q, c)
             IN  /\ ToSet(values) = {pages[i][c] : i \in ToSet(found)}
                 /\ Len(values) = Len(found)

\* The pages of an ordered query, cut by limit and offset, are the whole answer
\* in order, each row once, also among rows that compare equal.
PagesCover ==
  Quiet => \A q \in Queries, c \in {"k", "v"}, desc \in BOOLEAN :
    LET ordered == [q EXCEPT !.order = [column |-> c, desc |-> desc]]
        whole == Execute(Indexed, ordered)
        page(n) == Execute(Indexed, [ordered EXCEPT !.limit = 1, !.offset = n - 1])
    IN  /\ whole = FlattenSeq([n \in 1 .. MaxRows |-> page(n)])
        /\ \A m \in 1 .. Len(whole), n \in 1 .. Len(whole) : m < n =>
             IF desc THEN pages[whole[m]][c] >= pages[whole[n]][c]
             ELSE pages[whole[m]][c] <= pages[whole[n]][c]

\* core.py find: by the index, which is not checked against the rows, the same
\* rows as by a scan, but for the rows that nobody answers for; and what the
\* index says it holds is what it holds.
FindTrue ==
  Quiet /\ HasHash =>
    /\ \A x \in Keys :
         HashLookup(Indexed, "k", x) \ excused = {i \in live : pages[i].k = x} \ excused
    /\ excused = {} => hash.total = Cardinality(live)
=============================================================================
