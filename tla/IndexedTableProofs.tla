------------------------- MODULE IndexedTableProofs -------------------------
(***************************************************************************)
(* The indexes are true while a writer keeps them and a thread builds one, *)
(* and queries answer right: proofs of IndexedTable's TypeOK, FindTrue,    *)
(* PlannedComplete, CountsAgree and PagesCover, for every table, query and *)
(* number of rows.                                                         *)
(*                                                                         *)
(* A plan finds what a scan finds, but for rows nobody answers for, counts *)
(* agree with answers, and pages put together are the answer in order.     *)
(* Each plan lists every row that may match, no row twice, and execute     *)
(* keeps those that do match.                                              *)
(***************************************************************************)
EXTENDS IndexedTable, GeneralLemmas

-----------------------------------------------------------------------------
(* The invariant.                                                          *)

\* The writer's call at its places.  What it remembers of a set before it
\* replaces it is the empty set, whichever place it comes from.
WriterCall ==
  /\ w \in [op : {"insert", "update", "delete"}, i : DOMAIN pages, old : Row \cup {Absent},
            new : Row \cup {Absent}, seen : {{}},
            at : {"page", "hash", "check", "drop", "uncount", "look", "make", "add", "range"}]
  /\ IF w.op = "insert" THEN w.old = Absent ELSE w.old \in Row /\ Cut[w.old.k] = w.old.k
  /\ IF w.op = "delete" THEN w.new = Absent ELSE w.new \in Row
  /\ w.at = "page" => w.op = "insert"
  /\ w.at \in {"check", "drop"} => w.op # "insert"
  /\ w.at = "uncount" => w.op = "delete"
  /\ w.at \in {"look", "make", "add"} => w.op # "delete"
  /\ w.i \in live <=> w.op # "delete"
  /\ w.at # "page" /\ w.op # "delete" => pages[w.i] = Stored(w.new)
  /\ w.at \in {"check", "drop", "uncount", "look", "make", "add"} => HasHash
  /\ w.at = "add" => w.new.k \in hash.keys

WriterOK == w = WIdle \/ WriterCall

\* A row on the way to its place, in a set that is still the key's.
BuilderCall ==
  /\ b \in [at : {"row", "make", "fetch", "add", "lost"}, i : Slots, rows : Seq(Row), seen : {{}}]
  /\ Len(b.rows) <= Len(pages)
  /\ b.at # "row" \/ b.rows # <<>> => b.i <= Len(b.rows)
  /\ b.at = "add" => b.rows[b.i].k \in hash.keys

BuilderOK ==
  /\ b = BIdle \/ b = [at |-> "copy"] \/ BuilderCall
  /\ Building => HasHash

\* A page's key is one that a page can hold, but for the zero row of an insert.
PagesCut == \A i \in DOMAIN pages : (w.at = "page" => w.i # i) => Cut[pages[i].k] = pages[i].k

Typed ==
  /\ pages \in Seq(Row) /\ Len(pages) <= MaxRows /\ live \subseteq DOMAIN pages
  /\ hash \in [keys : SUBSET Keys, entries : SUBSET (Keys \X Slots), total : Int \cup {Absent}]
  /\ hash.entries \subseteq hash.keys \X Slots
  /\ hash.total = Absent => hash = NoIndex
  /\ range = Absent \/ range \subseteq ToSet(Values) \X Slots
  /\ excused \subseteq Slots /\ writes \in 0 .. MaxWrites
  /\ WriterOK /\ BuilderOK /\ PagesCut

\* The keys under which the index lists a row.
Filed(i) == {x \in Keys : <<x, i>> \in hash.entries}

\* Rows that the builder has still to enter.
Pending(i) == Building /\ (b.at = "copy" \/ i >= b.i)

\* The keys under which the index should list it, wherever both threads are.
Owed(i) ==
  IF Writing /\ w.i = i /\ w.at # "range"
  THEN IF w.at = "hash" /\ w.op # "insert" THEN {w.old.k} ELSE {}
  ELSE IF i \in live /\ ~Pending(i) THEN {pages[i].k} ELSE {}

\* The rows that are answered for are in the builder's copy as they are in the
\* pages, are not written while it is at work, and keep their keys in a page.
Answered ==
  HasHash =>
    /\ Writing /\ Building => w.i \in excused
    /\ BuilderCall => \A i \in DOMAIN pages \ excused : i <= Len(b.rows) /\ b.rows[i] = pages[i]
    /\ BuilderCall /\ b.at # "row" /\ b.i \notin excused => b.i \in live
    /\ w.at \in {"check", "drop", "look", "make", "add"} /\ w.op # "delete" /\ w.i \notin excused =>
         Cut[w.new.k] = w.new.k

Listed ==
  HasHash =>
    /\ \A e \in hash.entries : e[2] \in DOMAIN pages
    /\ \A i \in DOMAIN pages \ excused : Filed(i) = Owed(i)

\* The rows that the total should count.
Entered == IF b.at = "copy" THEN {} ELSE IF Building THEN {i \in live : i < b.i} ELSE live

\* A writer's insert is counted when its entry is there, its delete later.
Uncounted ==
  IF ~Writing \/ w.at = "range" \/ w.op = "update" THEN 0
  ELSE IF w.op = "insert" THEN -1 ELSE 1

Counted == HasHash /\ excused = {} => hash.total = Cardinality(Entered) + Uncounted

IndexInv == Typed /\ Answered /\ Listed /\ Counted

-----------------------------------------------------------------------------
(* Types.                                                                  *)

\* A row's fields, and what the page keeps of it.
LEMMA RowFields ==
  ASSUME NEW row \in Row
  PROVE  /\ row.k \in Keys /\ row.v \in ToSet(Values) /\ row # Absent
         /\ Stored(row) \in Row /\ Stored(row).v = row.v
         /\ Stored(row).k = Cut[row.k] /\ Cut[row.k] \in Keys /\ Cut[Cut[row.k]] = Cut[row.k]
<1>1. row.k \in Keys /\ row.v \in ToSet(Values)
  BY DEF Row
<1>2. Cut[row.k] \in Keys /\ Cut[Cut[row.k]] = Cut[row.k]
  BY <1>1, RowAssumption
<1>3. Stored(row).v = row.v /\ Stored(row).k = Cut[row.k] /\ Stored(row) = [k |-> Cut[row.k], v |-> row.v]
  BY <1>1 DEF Stored, Row
<1>4. Stored(row) \in Row
  BY <1>1, <1>2, <1>3 DEF Row
<1> QED
  BY <1>1, <1>2, <1>3, <1>4, AbsentAssumption

\* There is an index as long as it counts.
LEMMA HasHashTotal ==
  ASSUME Typed
  PROVE  HasHash <=> hash.total \in Int
BY AbsentAssumption DEF Typed, HasHash, NoIndex

\* Every page is a slot.
LEMMA PagesAreSlots ==
  ASSUME Typed
  PROVE  /\ DOMAIN pages = 1 .. Len(pages) /\ Len(pages) \in 0 .. MaxRows /\ DOMAIN pages \subseteq Slots
         /\ \A i \in DOMAIN pages : pages[i] \in Row
         /\ live \subseteq DOMAIN pages
<1>1. pages \in Seq(Row) /\ Len(pages) <= MaxRows /\ live \subseteq DOMAIN pages
  BY DEF Typed
<1> QED
  BY <1>1, BoundAssumption DEF Slots

\* A new file.
LEMMA InitTyped == Init => Typed
BY BoundAssumption DEF Init, Typed, NoIndex, WriterOK, BuilderOK, PagesCut, Building, BIdle, WIdle

LEMMA StartInsertTyped ==
  ASSUME Typed, NEW row \in Given, StartInsert(row)
  PROVE  Typed'
<1> USE DEF StartInsert
<1>1. row \in Row /\ ZeroRow \in Row
  BY RowAssumption
<1>2. /\ pages' \in Seq(Row) /\ Len(pages') = Len(pages) + 1 /\ DOMAIN pages' = 1 .. Len(pages) + 1
      /\ \A i \in DOMAIN pages : pages'[i] = pages[i] /\ i \in DOMAIN pages' /\ i # Len(pages) + 1
      /\ Len(pages) + 1 \in Slots
  BY <1>1, BoundAssumption DEF Typed, Slots
<1>3. WriterCall'
  BY <1>1, <1>2 DEF WriterCall
<1>4. BuilderOK'
  BY <1>2 DEF Typed, BuilderOK, BuilderCall, Building, HasHash, BIdle
<1>5. PagesCut'
  BY <1>2 DEF PagesCut, Typed, WriterOK, Writing
<1> QED
  BY <1>2, <1>3, <1>4, <1>5, BoundAssumption DEF Typed, WriterOK, Excuse

LEMMA WritePageTyped ==
  ASSUME Typed, WritePage
  PROVE  Typed'
<1> USE DEF WritePage
<1>1. WriterCall /\ w.new \in Row /\ w.i \in DOMAIN pages /\ Stored(w.new) \in Row
      /\ Cut[Stored(w.new).k] = Stored(w.new).k
  BY RowFields DEF Typed, WriterOK, WriterCall, WIdle
<1>2. /\ pages' \in Seq(Row) /\ Len(pages') = Len(pages) /\ DOMAIN pages' = DOMAIN pages
      /\ \A i \in DOMAIN pages : pages'[i] = IF i = w.i THEN Stored(w.new) ELSE pages[i]
  BY <1>1 DEF Typed
<1>3. WriterCall'
  BY <1>1, <1>2 DEF WriterCall
<1>4. BuilderOK'
  BY <1>2 DEF Typed, BuilderOK, BuilderCall, Building, HasHash
<1>5. PagesCut'
  BY <1>1, <1>2 DEF PagesCut, Typed, Writing
<1> QED
  BY <1>2, <1>3, <1>4, <1>5 DEF Typed, WriterOK

LEMMA StartUpdateTyped ==
  ASSUME Typed, NEW i \in live, NEW row \in Given, StartUpdate(i, row)
  PROVE  Typed'
<1> USE DEF StartUpdate
<1>1. row \in Row /\ i \in DOMAIN pages /\ pages[i] \in Row /\ Stored(row) \in Row
      /\ Cut[Stored(row).k] = Stored(row).k /\ Cut[pages[i].k] = pages[i].k
  BY RowFields, RowAssumption DEF Typed, PagesCut, Writing
<1>2. /\ pages' \in Seq(Row) /\ Len(pages') = Len(pages) /\ DOMAIN pages' = DOMAIN pages
      /\ \A j \in DOMAIN pages : pages'[j] = IF j = i THEN Stored(row) ELSE pages[j]
  BY <1>1 DEF Typed
<1>3. WriterCall'
  BY <1>1, <1>2 DEF WriterCall
<1>4. BuilderOK'
  BY <1>2 DEF Typed, BuilderOK, BuilderCall, Building, HasHash
<1>5. PagesCut'
  BY <1>1, <1>2 DEF PagesCut, Typed, Writing, WriterOK
<1>6. excused' \subseteq Slots
  BY <1>1, PagesAreSlots DEF Excuse, Typed
<1> QED
  BY <1>2, <1>3, <1>4, <1>5, <1>6, BoundAssumption DEF Typed, WriterOK

LEMMA StartDeleteTyped ==
  ASSUME Typed, NEW i \in live, StartDelete(i)
  PROVE  Typed'
<1> USE DEF StartDelete
<1>1. i \in DOMAIN pages /\ pages[i] \in Row /\ Cut[pages[i].k] = pages[i].k
  BY DEF Typed, PagesCut, Writing
<1>2. WriterCall'
  BY <1>1 DEF WriterCall
<1>3. BuilderOK'
  BY DEF Typed, BuilderOK, BuilderCall, Building, HasHash
<1>4. PagesCut'
  BY <1>1 DEF PagesCut, Typed, Writing, WriterOK
<1>5. excused' \subseteq Slots
  BY <1>1, PagesAreSlots DEF Excuse, Typed
<1> QED
  BY <1>2, <1>3, <1>4, <1>5, BoundAssumption DEF Typed, WriterOK

\* What the writer does to the index alone leaves pages and liveness as they are.
LEMMA WriterStepTyped ==
  ASSUME Typed, UNCHANGED <<pages, live>>,
         hash' \in [keys : SUBSET Keys, entries : SUBSET (Keys \X Slots), total : Int \cup {Absent}],
         hash'.entries \subseteq hash'.keys \X Slots,
         hash'.total = Absent => hash' = NoIndex,
         range' = range, excused' \subseteq Slots, writes' = writes,
         WriterCall, WriterCall', w'.i = w.i, w.at # "page", BuilderOK'
  PROVE  Typed'
<1>1. PagesCut'
  BY DEF PagesCut, Typed
<1> QED
  BY <1>1 DEF Typed, WriterOK

\* The index with its entries changed still is one.
LEMMA HashKept ==
  ASSUME NEW K \in SUBSET Keys, NEW E \in SUBSET (K \X Slots), NEW t \in Int,
         hash' = [keys |-> K, entries |-> E, total |-> t]
  PROVE  /\ hash' \in [keys : SUBSET Keys, entries : SUBSET (Keys \X Slots), total : Int \cup {Absent}]
         /\ hash'.keys = K /\ hash'.entries = E /\ hash'.total = t
         /\ hash'.entries \subseteq hash'.keys \X Slots
         /\ hash'.total = Absent => hash' = NoIndex
         /\ HasHash'
<1>1. E \in SUBSET (Keys \X Slots)
  OBVIOUS
<1>2. hash'.keys = K /\ hash'.entries = E /\ hash'.total = t /\ t # Absent
  BY AbsentAssumption
<1>3. hash' # NoIndex
  BY <1>2 DEF NoIndex
<1> QED
  BY <1>1, <1>2, <1>3 DEF HasHash

\* The record of an index that counts.
LEMMA HashRecord ==
  ASSUME Typed, HasHash
  PROVE  /\ hash = [keys |-> hash.keys, entries |-> hash.entries, total |-> hash.total]
         /\ hash.keys \in SUBSET Keys /\ hash.entries \in SUBSET (hash.keys \X Slots)
         /\ hash.total \in Int
BY HasHashTotal DEF Typed

LEMMA BuilderKept ==
  ASSUME Typed, UNCHANGED <<pages, live, b>>, HasHash => HasHash',
         b.at = "add" => b.rows[b.i].k \in hash'.keys
  PROVE  BuilderOK'
BY DEF Typed, BuilderOK, BuilderCall, Building

LEMMA WriterAt ==
  ASSUME Typed, w.at # "idle"
  PROVE  WriterCall
BY DEF Typed, WriterOK, WIdle

LEMMA PassIndexTyped ==
  ASSUME Typed, PassIndex
  PROVE  Typed'
<1> USE DEF PassIndex
<1>1. WriterCall /\ WriterCall' /\ w'.i = w.i
  BY WriterAt DEF WriterCall
<1>2. BuilderOK'
  BY DEF Typed, BuilderOK, BuilderCall, Building, HasHash
<1> QED
  BY <1>1, <1>2, WriterStepTyped DEF Typed

\* The old key of a write.
LEMMA OldKey ==
  ASSUME WriterCall, w.op # "insert"
  PROVE  w.old \in Row /\ w.old.k \in Keys
BY RowFields DEF WriterCall

LEMMA NewKey ==
  ASSUME WriterCall, w.op # "delete"
  PROVE  w.new \in Row /\ w.new.k \in Keys /\ Stored(w.new).k = Cut[w.new.k]
BY RowFields DEF WriterCall

LEMMA WriterSlot ==
  ASSUME Typed, WriterCall
  PROVE  w.i \in DOMAIN pages /\ w.i \in Slots
BY PagesAreSlots DEF WriterCall

LEMMA EnterIndexTyped ==
  ASSUME Typed, EnterIndex
  PROVE  Typed'
<1> USE DEF EnterIndex
<1>1. WriterCall
  BY WriterAt
<1>2. excused' \subseteq Slots
  BY <1>1, WriterSlot DEF Typed
<1>3. CASE w.op = "insert"
  <2>1. WriterCall' /\ w'.i = w.i
    BY <1>1, <1>3 DEF WriterCall, HasHash
  <2>2. BuilderOK'
    BY <1>3 DEF Typed, BuilderOK, BuilderCall, Building, HasHash
  <2> QED
    BY <1>1, <1>2, <1>3, <2>1, <2>2, WriterStepTyped DEF Typed
<1>4. CASE w.op # "insert"
  <2>1. /\ hash' = [keys |-> hash.keys, entries |-> hash.entries \ {<<w.old.k, w.i>>}, total |-> hash.total]
        /\ hash.entries \ {<<w.old.k, w.i>>} \in SUBSET (hash.keys \X Slots)
    BY <1>4, HashRecord DEF Discarded
  <2>2. /\ hash' \in [keys : SUBSET Keys, entries : SUBSET (Keys \X Slots), total : Int \cup {Absent}]
        /\ hash'.keys = hash.keys
        /\ hash'.entries \subseteq hash'.keys \X Slots
        /\ hash'.total = Absent => hash' = NoIndex
        /\ HasHash'
    BY <2>1, HashRecord, HashKept
  <2>3. WriterCall' /\ w'.i = w.i
    BY <1>1, <1>4, <2>2 DEF WriterCall, AfterOld
  <2>4. BuilderOK'
    BY <2>2, BuilderKept DEF Typed, BuilderOK, BuilderCall
  <2> QED
    BY <1>1, <1>2, <1>4, <2>2, <2>3, <2>4, WriterStepTyped DEF AfterOld
<1> QED
  BY <1>3, <1>4

LEMMA CheckSetTyped ==
  ASSUME Typed, CheckSet
  PROVE  Typed'
<1> USE DEF CheckSet
<1>1. WriterCall
  BY WriterAt
<1>2. WriterCall' /\ w'.i = w.i
  BY <1>1 DEF WriterCall, AfterOld, EmptySet, HasHash
<1>3. BuilderOK'
  BY DEF Typed, BuilderOK, BuilderCall, Building, HasHash
<1> QED
  BY <1>1, <1>2, <1>3, WriterStepTyped DEF Typed, AfterOld

LEMMA UncountTyped ==
  ASSUME Typed, Uncount
  PROVE  Typed'
<1> USE DEF Uncount
<1>1. WriterCall /\ HasHash
  BY WriterAt DEF WriterCall
<1>2. hash' = [keys |-> hash.keys, entries |-> hash.entries, total |-> hash.total - 1] /\ hash.total - 1 \in Int
  BY <1>1, HashRecord
<1> HIDE DEF Uncount
<1>3. /\ hash' \in [keys : SUBSET Keys, entries : SUBSET (Keys \X Slots), total : Int \cup {Absent}]
      /\ hash'.keys = hash.keys
      /\ hash'.entries \subseteq hash'.keys \X Slots
      /\ hash'.total = Absent => hash' = NoIndex
      /\ HasHash'
  BY <1>1, <1>2, HashRecord, HashKept
<1> USE DEF Uncount
<1>4. WriterCall' /\ w'.i = w.i
  BY <1>1, <1>3 DEF WriterCall
<1>5. BuilderOK'
  BY <1>3, BuilderKept DEF Typed, BuilderOK, BuilderCall
<1> QED
  BY <1>1, <1>3, <1>4, <1>5, WriterStepTyped DEF Typed

\* What replacing or removing a key's set does to the index.
LEMMA SetGone ==
  ASSUME Typed, HasHash, NEW x \in Keys, NEW K \in SUBSET Keys, hash.keys \ {x} \subseteq K,
         hash' = [hash EXCEPT !.keys = K, !.entries = @ \ SetOf(x)]
  PROVE  /\ hash' = [keys |-> K, entries |-> hash.entries \ SetOf(x), total |-> hash.total]
         /\ hash' \in [keys : SUBSET Keys, entries : SUBSET (Keys \X Slots), total : Int \cup {Absent}]
         /\ hash'.keys = K /\ hash'.entries = hash.entries \ SetOf(x) /\ hash'.total = hash.total
         /\ hash'.entries \subseteq hash'.keys \X Slots
         /\ hash'.total = Absent => hash' = NoIndex
         /\ HasHash'
<1>1. hash' = [keys |-> K, entries |-> hash.entries \ SetOf(x), total |-> hash.total]
  BY HashRecord
<1>2. hash.entries \ SetOf(x) \in SUBSET (K \X Slots)
  <2>1. ASSUME NEW e \in hash.entries, e \notin SetOf(x)
        PROVE  e \in K \X Slots
    BY <2>1, HashRecord DEF SetOf
  <2> QED
    BY <2>1
<1> QED
  BY <1>1, <1>2, HashRecord, HashKept

\* What happens to a builder that holds the set.
LEMMA DetachedTyped ==
  ASSUME Typed, HasHash, HasHash', NEW x \in Keys, Detached(x), UNCHANGED pages,
         hash.keys \ {x} \subseteq hash'.keys
  PROVE  BuilderOK'
<1>1. CASE ~BuilderCall
  <2>1. b = BIdle \/ b = [at |-> "copy"]
    BY <1>1 DEF Typed, BuilderOK
  <2>2. b' = b
    BY <2>1 DEF Detached, BIdle
  <2> QED
    BY <2>1, <2>2 DEF BuilderOK, BIdle, Building
<1>2. CASE BuilderCall
  <2>1. CASE b.at = "add" /\ b.rows[b.i].k = x
    <3>1. b' = [b EXCEPT !.at = "lost"]
      BY <2>1 DEF Detached
    <3>2. BuilderCall'
      BY <1>2, <2>1, <3>1 DEF BuilderCall
    <3> QED
      BY <3>2 DEF BuilderOK
  <2>2. CASE ~(b.at = "add" /\ b.rows[b.i].k = x)
    <3>1. b' = b
      BY <2>2 DEF Detached
    <3>2. BuilderCall'
      BY <1>2, <2>2, <3>1 DEF BuilderCall
    <3> QED
      BY <3>2 DEF BuilderOK
  <2> QED
    BY <2>1, <2>2
<1> QED
  BY <1>1, <1>2

\* The rows of a set are slots.
LEMMA ExcusedSlots ==
  ASSUME Typed, NEW x, NEW seen, ExcuseSince(x, seen)
  PROVE  excused' \subseteq Slots
<1>1. \A e \in SetOf(x) : e[2] \in Slots
  BY DEF Typed, SetOf
<1> QED
  BY <1>1 DEF Typed, ExcuseSince

LEMMA DropKeyTyped ==
  ASSUME Typed, DropKey
  PROVE  Typed'
<1>1. WriterCall /\ HasHash /\ w.old.k \in Keys /\ w.at = "drop" /\ w.op # "insert"
  BY WriterAt, OldKey DEF WriterCall, DropKey
<1>2. hash' = [hash EXCEPT !.keys = hash.keys \ {w.old.k}, !.entries = @ \ SetOf(w.old.k)]
  BY HashRecord DEF DropKey, DropSet
<1>3. hash.keys \ {w.old.k} \in SUBSET Keys
  BY <1>1, HashRecord
<1>4. /\ hash' \in [keys : SUBSET Keys, entries : SUBSET (Keys \X Slots), total : Int \cup {Absent}]
      /\ hash'.keys = hash.keys \ {w.old.k}
      /\ hash'.entries \subseteq hash'.keys \X Slots
      /\ hash'.total = Absent => hash' = NoIndex
      /\ HasHash'
  BY <1>1, <1>2, <1>3, SetGone
<1>5. WriterCall' /\ w'.i = w.i
  BY <1>1, <1>4 DEF DropKey, WriterCall, AfterOld
<1>6. BuilderOK'
  BY <1>1, <1>4, DetachedTyped DEF DropKey
<1>7. excused' \subseteq Slots
  BY ExcusedSlots DEF DropKey
<1> QED
  BY <1>1, <1>4, <1>5, <1>6, <1>7, WriterStepTyped DEF DropKey

LEMMA LookKeyTyped ==
  ASSUME Typed, LookKey
  PROVE  Typed'
<1> USE DEF LookKey
<1>1. WriterCall
  BY WriterAt
<1>2. w.new.k \notin hash.keys => SetOf(w.new.k) = {}
  BY DEF Typed, SetOf
<1>3. WriterCall' /\ w'.i = w.i
  BY <1>1, <1>2 DEF WriterCall, HasHash
<1>4. BuilderOK'
  BY DEF Typed, BuilderOK, BuilderCall, Building, HasHash
<1> QED
  BY <1>1, <1>3, <1>4, WriterStepTyped DEF Typed

LEMMA MakeKeyTyped ==
  ASSUME Typed, MakeKey
  PROVE  Typed'
<1>1. WriterCall /\ HasHash /\ w.new.k \in Keys /\ w.at = "make" /\ w.op # "delete"
  BY WriterAt, NewKey DEF WriterCall, MakeKey
<1>2. hash' = [hash EXCEPT !.keys = hash.keys \cup {w.new.k}, !.entries = @ \ SetOf(w.new.k)]
  BY HashRecord DEF MakeKey, MakeSet
<1>3. hash.keys \cup {w.new.k} \in SUBSET Keys
  BY <1>1, HashRecord
<1>4. /\ hash' \in [keys : SUBSET Keys, entries : SUBSET (Keys \X Slots), total : Int \cup {Absent}]
      /\ hash'.keys = hash.keys \cup {w.new.k}
      /\ hash'.entries \subseteq hash'.keys \X Slots
      /\ hash'.total = Absent => hash' = NoIndex
      /\ HasHash'
  BY <1>1, <1>2, <1>3, SetGone
<1>5. WriterCall' /\ w'.i = w.i
  BY <1>1, <1>4 DEF MakeKey, WriterCall
<1>6. BuilderOK'
  BY <1>1, <1>4, DetachedTyped DEF MakeKey
<1>7. excused' \subseteq Slots
  BY ExcusedSlots DEF MakeKey
<1> QED
  BY <1>1, <1>4, <1>5, <1>6, <1>7, WriterStepTyped DEF MakeKey

\* An entry more.
LEMMA AddedTyped ==
  ASSUME Typed, HasHash, NEW x \in hash.keys, NEW i \in Slots, NEW c \in BOOLEAN, hash' = Added(hash, x, i, c)
  PROVE  /\ hash' \in [keys : SUBSET Keys, entries : SUBSET (Keys \X Slots), total : Int \cup {Absent}]
         /\ hash'.keys = hash.keys /\ hash'.entries = hash.entries \cup {<<x, i>>}
         /\ hash'.total = hash.total + (IF c THEN 1 ELSE 0)
         /\ hash'.entries \subseteq hash'.keys \X Slots
         /\ hash'.total = Absent => hash' = NoIndex
         /\ HasHash'
<1>1. hash' = [keys |-> hash.keys, entries |-> hash.entries \cup {<<x, i>>}, total |-> hash.total + (IF c THEN 1 ELSE 0)]
  BY HashRecord DEF Added
<1>2. hash.entries \cup {<<x, i>>} \in SUBSET (hash.keys \X Slots) /\ hash.total + (IF c THEN 1 ELSE 0) \in Int
  BY HashRecord
<1> QED
  BY <1>1, <1>2, HashRecord, HashKept

LEMMA AddEntryTyped ==
  ASSUME Typed, AddEntry
  PROVE  Typed'
<1>1. WriterCall /\ HasHash /\ w.new.k \in hash.keys /\ w.at = "add" /\ w.i \in Slots
  BY WriterAt, WriterSlot DEF WriterCall, AddEntry
<1>2. (w.op = "insert") \in BOOLEAN
  OBVIOUS
<1>3. /\ hash' \in [keys : SUBSET Keys, entries : SUBSET (Keys \X Slots), total : Int \cup {Absent}]
      /\ hash'.keys = hash.keys
      /\ hash'.entries \subseteq hash'.keys \X Slots
      /\ hash'.total = Absent => hash' = NoIndex
      /\ HasHash'
  BY <1>1, <1>2, AddedTyped DEF AddEntry
<1>4. WriterCall' /\ w'.i = w.i
  BY <1>1, <1>3 DEF AddEntry, WriterCall
<1>5. BuilderOK'
  BY <1>3, BuilderKept DEF Typed, BuilderOK, BuilderCall, AddEntry
<1>6. excused' \subseteq Slots
  BY DEF Typed, AddEntry
<1> QED
  BY <1>1, <1>3, <1>4, <1>5, <1>6, WriterStepTyped DEF AddEntry

LEMMA UpdateRangeTyped ==
  ASSUME Typed, UpdateRange
  PROVE  Typed'
<1> USE DEF UpdateRange
<1>1. WriterCall
  BY WriterAt
<1>2. range' = Absent \/ range' \subseteq ToSet(Values) \X Slots
  <2>1. CASE range = Absent
    BY <2>1
  <2>2. CASE range # Absent
    <3>1. range \subseteq ToSet(Values) \X Slots
      BY <2>2 DEF Typed
    <3>2. w.i \in Slots
      BY <1>1, WriterSlot
    <3>3. CASE w.new = Absent
      BY <2>2, <3>1, <3>3
    <3>4. CASE w.new # Absent
      <4>1. w.new.v \in ToSet(Values)
        BY <1>1, <3>4, RowFields DEF WriterCall
      <4> QED
        BY <2>2, <3>1, <3>2, <3>4, <4>1
    <3> QED
      BY <3>3, <3>4
  <2> QED
    BY <2>1, <2>2
<1>3. WriterOK'
  BY DEF WriterOK
<1>4. BuilderOK'
  BY DEF Typed, BuilderOK, BuilderCall, Building, HasHash
<1>5. PagesCut'
  BY DEF Typed, PagesCut, WIdle
<1> QED
  BY <1>2, <1>3, <1>4, <1>5 DEF Typed

LEMMA CreateIndexTyped ==
  ASSUME Typed, CreateIndex
  PROVE  Typed'
<1>1. hash' = [keys |-> {}, entries |-> {}, total |-> 0]
  BY DEF CreateIndex, NoIndex
<1>2. /\ hash' \in [keys : SUBSET Keys, entries : SUBSET (Keys \X Slots), total : Int \cup {Absent}]
      /\ hash'.keys = {}
      /\ hash'.entries \subseteq hash'.keys \X Slots
      /\ hash'.total = Absent => hash' = NoIndex
      /\ HasHash'
  <2>1. {} \in SUBSET Keys /\ {} \in SUBSET ({} \X Slots)
    OBVIOUS
  <2> QED
    BY <1>1, <2>1, HashKept
<1>3. WriterOK'
  <2>1. CASE w = WIdle
    BY <2>1 DEF WriterOK, CreateIndex
  <2>2. CASE WriterCall
    <3>1. w.at \notin {"check", "drop", "uncount", "look", "make", "add"}
      BY <2>2 DEF WriterCall, CreateIndex
    <3> QED
      BY <2>2, <3>1 DEF WriterOK, WriterCall, CreateIndex
  <2> QED
    BY <2>1, <2>2 DEF Typed, WriterOK
<1>4. BuilderOK'
  BY <1>2 DEF BuilderOK, CreateIndex
<1>5. PagesCut'
  BY DEF Typed, PagesCut, CreateIndex
<1>6. excused' \subseteq Slots
  <2>1. CASE Writing
    BY <2>1, WriterAt, WriterSlot DEF Typed, Writing, CreateIndex
  <2>2. CASE ~Writing
    BY <2>2 DEF Typed, CreateIndex
  <2> QED
    BY <2>1, <2>2
<1> QED
  BY <1>2, <1>3, <1>4, <1>5, <1>6 DEF Typed, CreateIndex

\* What the builder does alone.
LEMMA BuilderStepTyped ==
  ASSUME Typed, UNCHANGED <<pages, live, range, w, writes>>, HasHash, HasHash',
         hash' \in [keys : SUBSET Keys, entries : SUBSET (Keys \X Slots), total : Int \cup {Absent}],
         hash'.entries \subseteq hash'.keys \X Slots,
         hash'.total = Absent => hash' = NoIndex,
         hash.keys \subseteq hash'.keys,
         excused' \subseteq Slots, b' = BIdle \/ BuilderCall'
  PROVE  Typed'
<1>1. WriterOK'
  BY DEF Typed, WriterOK, WriterCall
<1>2. PagesCut'
  BY DEF PagesCut, Typed
<1>3. BuilderOK'
  BY DEF BuilderOK
<1> QED
  BY <1>1, <1>2, <1>3 DEF Typed

LEMMA BuilderAt ==
  ASSUME Typed, b.at \notin {"idle", "copy"}
  PROVE  BuilderCall /\ HasHash
BY DEF Typed, BuilderOK, BIdle, Building

\* The index as it was.
LEMMA SameHash ==
  ASSUME Typed, HasHash, hash' = hash
  PROVE  /\ hash' \in [keys : SUBSET Keys, entries : SUBSET (Keys \X Slots), total : Int \cup {Absent}]
         /\ hash'.entries \subseteq hash'.keys \X Slots
         /\ hash'.total = Absent => hash' = NoIndex
         /\ hash.keys \subseteq hash'.keys
         /\ HasHash'
BY DEF Typed, HasHash

LEMMA CopySlabTyped ==
  ASSUME Typed, CopySlab
  PROVE  Typed'
<1>1. HasHash
  BY DEF Typed, BuilderOK, Building, CopySlab
<1>2. BuilderCall'
  <2>1. pages \in Seq(Row) /\ 1 \in Slots /\ Len(pages) \in Nat
    BY BoundAssumption DEF Typed, Slots
  <2>2. pages # <<>> => 1 <= Len(pages)
    BY <2>1
  <2> QED
    BY <2>1, <2>2 DEF BuilderCall, CopySlab
<1> QED
  BY <1>1, <1>2, SameHash, BuilderStepTyped DEF CopySlab, Typed

\* The builder's row, and the next one.
LEMMA BuilderRow ==
  ASSUME Typed, BuilderCall, b.rows # <<>>
  PROVE  /\ b.i \in 1 .. Len(b.rows) /\ b.rows[b.i] \in Row /\ b.rows[b.i].k \in Keys
         /\ Len(b.rows) \in Nat
<1>1. b.i \in 1 .. Len(b.rows) /\ b.rows \in Seq(Row) /\ Len(b.rows) \in Nat
  BY BoundAssumption DEF BuilderCall, Slots
<1>2. b.rows[b.i] \in Row
  BY <1>1
<1> QED
  BY <1>1, <1>2, RowFields

LEMMA NextRowTyped ==
  ASSUME Typed, BuilderCall, b.rows # <<>>, b' = NextRow(b.i), UNCHANGED pages
  PROVE  b' = BIdle \/ BuilderCall'
<1>1. CASE b.i = Len(b.rows)
  BY <1>1 DEF NextRow
<1>2. CASE b.i # Len(b.rows)
  <2>1. b' = [b EXCEPT !.i = b.i + 1, !.at = "row"]
    BY <1>2 DEF NextRow
  <2>2. b.i + 1 \in Slots /\ b.i + 1 <= Len(b.rows)
    BY <1>2, BuilderRow, PagesAreSlots, BoundAssumption DEF BuilderCall, Slots
  <2> QED
    BY <2>1, <2>2 DEF BuilderCall
<1> QED
  BY <1>1, <1>2

LEMMA VisitTyped ==
  ASSUME Typed, Visit
  PROVE  Typed'
<1>1. BuilderCall /\ HasHash /\ b.at = "row"
  BY BuilderAt DEF Visit
<1>2. b' = BIdle \/ BuilderCall'
  <2>1. CASE b.rows = <<>>
    BY <2>1 DEF Visit
  <2>2. CASE b.rows # <<>> /\ b.i \notin live
    BY <1>1, <2>2, NextRowTyped DEF Visit
  <2>3. CASE b.rows # <<>> /\ b.i \in live /\ b.rows[b.i].k \in hash.keys
    <3>1. b' = [b EXCEPT !.at = "fetch"]
      BY <2>3 DEF Visit
    <3> QED
      BY <1>1, <2>3, <3>1 DEF BuilderCall, Visit
  <2>4. CASE b.rows # <<>> /\ b.i \in live /\ b.rows[b.i].k \notin hash.keys
    <3>1. SetOf(b.rows[b.i].k) = {}
      BY <2>4 DEF Typed, SetOf
    <3>2. b' = [b EXCEPT !.at = "make", !.seen = {}]
      BY <2>4, <3>1 DEF Visit
    <3> QED
      BY <1>1, <2>4, <3>2 DEF BuilderCall, Visit
  <2> QED
    BY <2>1, <2>2, <2>3, <2>4
<1> QED
  BY <1>1, <1>2, SameHash, BuilderStepTyped DEF Visit, Typed

\* Past its first place a call has a row.
LEMMA BuilderHasRow ==
  ASSUME BuilderCall, b.at # "row"
  PROVE  b.rows # <<>>
BY DEF BuilderCall, Slots

LEMMA MakeVisitedTyped ==
  ASSUME Typed, MakeVisited
  PROVE  Typed'
<1>1. BuilderCall /\ HasHash /\ b.at = "make" /\ b.rows[b.i].k \in Keys
  BY BuilderAt, BuilderHasRow, BuilderRow DEF MakeVisited
<1>2. hash' = [hash EXCEPT !.keys = hash.keys \cup {b.rows[b.i].k}, !.entries = @ \ SetOf(b.rows[b.i].k)]
  BY HashRecord DEF MakeVisited, MakeSet
<1>3. hash.keys \cup {b.rows[b.i].k} \in SUBSET Keys
  BY <1>1, HashRecord
<1>4. /\ hash' \in [keys : SUBSET Keys, entries : SUBSET (Keys \X Slots), total : Int \cup {Absent}]
      /\ hash.keys \subseteq hash'.keys
      /\ hash'.entries \subseteq hash'.keys \X Slots
      /\ hash'.total = Absent => hash' = NoIndex
      /\ HasHash'
  BY <1>1, <1>2, <1>3, SetGone
<1>5. BuilderCall'
  BY <1>1 DEF MakeVisited, BuilderCall
<1>6. excused' \subseteq Slots
  BY ExcusedSlots DEF MakeVisited
<1> QED
  BY <1>1, <1>4, <1>5, <1>6, BuilderStepTyped DEF MakeVisited

LEMMA FetchVisitedTyped ==
  ASSUME Typed, FetchVisited
  PROVE  Typed'
<1>1. BuilderCall /\ HasHash /\ b.at = "fetch"
  BY BuilderAt DEF FetchVisited
<1>2. BuilderCall'
  BY <1>1 DEF FetchVisited, BuilderCall
<1> QED
  BY <1>1, <1>2, SameHash, BuilderStepTyped DEF FetchVisited, Typed

LEMMA RaiseVisitedTyped ==
  ASSUME Typed, RaiseVisited
  PROVE  Typed'
<1>1. BuilderCall /\ HasHash /\ b.at = "fetch"
  BY BuilderAt DEF RaiseVisited
<1>2. (b.i .. Len(b.rows)) \subseteq Slots
  BY <1>1, BuilderHasRow, BuilderRow, PagesAreSlots, BoundAssumption DEF BuilderCall, Slots
<1>3. excused' \subseteq Slots
  BY <1>2 DEF RaiseVisited, Typed
<1> QED
  BY <1>1, <1>3, SameHash, BuilderStepTyped DEF RaiseVisited

LEMMA AddVisitedTyped ==
  ASSUME Typed, AddVisited
  PROVE  Typed'
<1>1. BuilderCall /\ HasHash /\ b.at = "add" /\ b.rows # <<>> /\ b.rows[b.i].k \in hash.keys /\ b.i \in Slots
  BY BuilderAt, BuilderHasRow DEF AddVisited, BuilderCall
<1>2. /\ hash' \in [keys : SUBSET Keys, entries : SUBSET (Keys \X Slots), total : Int \cup {Absent}]
      /\ hash'.keys = hash.keys
      /\ hash'.entries \subseteq hash'.keys \X Slots
      /\ hash'.total = Absent => hash' = NoIndex
      /\ HasHash'
  BY <1>1, AddedTyped DEF AddVisited
<1>3. b' = BIdle \/ BuilderCall'
  BY <1>1, NextRowTyped DEF AddVisited
<1> QED
  BY <1>1, <1>2, <1>3, BuilderStepTyped DEF AddVisited, Typed

LEMMA LoseVisitedTyped ==
  ASSUME Typed, LoseVisited
  PROVE  Typed'
<1>1. BuilderCall /\ HasHash /\ b.at = "lost" /\ b.rows # <<>> /\ b.i \in Slots
  BY BuilderAt, BuilderHasRow DEF LoseVisited, BuilderCall
<1>2. hash' = [keys |-> hash.keys, entries |-> hash.entries, total |-> hash.total + 1] /\ hash.total + 1 \in Int
  BY <1>1, HashRecord DEF LoseVisited
<1>3. /\ hash' \in [keys : SUBSET Keys, entries : SUBSET (Keys \X Slots), total : Int \cup {Absent}]
      /\ hash'.keys = hash.keys
      /\ hash'.entries \subseteq hash'.keys \X Slots
      /\ hash'.total = Absent => hash' = NoIndex
      /\ HasHash'
  BY <1>1, <1>2, HashRecord, HashKept
<1>4. b' = BIdle \/ BuilderCall'
  BY <1>1, NextRowTyped DEF LoseVisited
<1>5. excused' \subseteq Slots
  BY <1>1 DEF LoseVisited, Typed
<1> QED
  BY <1>1, <1>3, <1>4, <1>5, BuilderStepTyped DEF LoseVisited

LEMMA DropIndexTyped ==
  ASSUME Typed, DropIndex
  PROVE  Typed'
<1>1. /\ hash' \in [keys : SUBSET Keys, entries : SUBSET (Keys \X Slots), total : Int \cup {Absent}]
      /\ hash'.entries \subseteq hash'.keys \X Slots
      /\ hash'.total = Absent => hash' = NoIndex
  BY DEF DropIndex, NoIndex
<1>2. WriterOK'
  BY DEF Typed, WriterOK, WriterCall, DropIndex
<1>3. b = BIdle
  BY DEF Typed, BuilderOK, BuilderCall, DropIndex, Building
<1>4. BuilderOK' /\ PagesCut'
  BY <1>3 DEF BuilderOK, DropIndex, BIdle, Building, Typed, PagesCut
<1> QED
  BY <1>1, <1>2, <1>4 DEF Typed, DropIndex

LEMMA RangeTyped ==
  ASSUME Typed, CreateRangeIndex \/ DropRangeIndex
  PROVE  Typed'
<1> USE DEF CreateRangeIndex, DropRangeIndex
<1>1. range' = Absent \/ range' \subseteq ToSet(Values) \X Slots
  <2>1. CASE DropRangeIndex
    BY <2>1
  <2>2. CASE CreateRangeIndex
    <3>1. \A i \in live : pages[i].v \in ToSet(Values) /\ i \in Slots
      BY PagesAreSlots, RowFields
    <3> QED
      BY <2>2, <3>1
  <2> QED
    BY <2>1, <2>2
<1>2. WriterOK' /\ BuilderOK' /\ PagesCut'
  BY DEF Typed, WriterOK, WriterCall, BuilderOK, BuilderCall, Building, PagesCut, HasHash
<1> QED
  BY <1>1, <1>2 DEF Typed

LEMMA StutterTyped ==
  ASSUME Typed, UNCHANGED vars
  PROVE  Typed'
BY DEF vars, Typed, WriterOK, WriterCall, BuilderOK, BuilderCall, Building, PagesCut, HasHash

LEMMA NextTyped ==
  ASSUME Typed, [Next]_vars
  PROVE  Typed'
<1>1. ASSUME NEW row \in Given, StartInsert(row) PROVE Typed'
  BY <1>1, StartInsertTyped
<1>2. ASSUME NEW row \in Given, NEW i \in live, StartUpdate(i, row) PROVE Typed'
  BY <1>2, StartUpdateTyped
<1>3. ASSUME NEW i \in live, StartDelete(i) PROVE Typed'
  BY <1>3, StartDeleteTyped
<1>4. WritePage \/ PassIndex \/ EnterIndex \/ CheckSet \/ DropKey \/ Uncount => Typed'
  BY WritePageTyped, PassIndexTyped, EnterIndexTyped, CheckSetTyped, DropKeyTyped, UncountTyped
<1>5. LookKey \/ MakeKey \/ AddEntry \/ UpdateRange => Typed'
  BY LookKeyTyped, MakeKeyTyped, AddEntryTyped, UpdateRangeTyped
<1>6. CreateIndex \/ CopySlab \/ Visit \/ MakeVisited \/ FetchVisited => Typed'
  BY CreateIndexTyped, CopySlabTyped, VisitTyped, MakeVisitedTyped, FetchVisitedTyped
<1>7. RaiseVisited \/ AddVisited \/ LoseVisited \/ DropIndex \/ CreateRangeIndex \/ DropRangeIndex => Typed'
  BY RaiseVisitedTyped, AddVisitedTyped, LoseVisitedTyped, DropIndexTyped, RangeTyped
<1> QED
  BY <1>1, <1>2, <1>3, <1>4, <1>5, <1>6, <1>7, StutterTyped DEF Next

\* The variables keep their types, and both threads hold what their places say.
LEMMA TypedAlways == Spec => []Typed
<1>1. Typed /\ [Next]_vars => Typed'
  BY NextTyped
<1> QED
  BY <1>1, InitTyped, PTL DEF Spec

\* Every variable keeps its type, through any overlap of the two threads: no
\* entry is left without its key's set, and what counts stays an integer.
THEOREM TypeCorrect == Spec => []TypeOK
<1>1. Typed => TypeOK
  <2> SUFFICES ASSUME Typed PROVE TypeOK
    OBVIOUS
  <2>1. w.at \in {"idle", "page", "hash", "check", "drop", "uncount", "look", "make", "add", "range"}
    BY DEF Typed, WriterOK, WriterCall, WIdle
  <2>2. b.at \in {"idle", "copy", "row", "make", "fetch", "add", "lost"}
    BY DEF Typed, BuilderOK, BuilderCall, BIdle
  <2> QED
    BY <2>1, <2>2 DEF Typed, TypeOK
<1> QED
  BY <1>1, TypedAlways, PTL

-----------------------------------------------------------------------------
(* The index lists what it should.                                         *)

\* The rows that are live are finitely many.
LEMMA LiveFinite ==
  ASSUME Typed
  PROVE  IsFiniteSet(live) /\ Cardinality(live) \in Nat
<1>1. IsFiniteSet(1 .. Len(pages)) /\ live \subseteq 1 .. Len(pages)
  BY PagesAreSlots, FS_Interval
<1> QED
  BY <1>1, FS_Subset, FS_CardinalityType

\* The row of a call, which is answered for, is not being built.
LEMMA NotBuilt ==
  ASSUME IndexInv, HasHash, Writing, w.i \notin excused
  PROVE  ~Building
BY DEF IndexInv, Answered

\* A step that changes neither pages nor entries, and what is owed to no row.
LEMMA ListedSame ==
  ASSUME IndexInv, HasHash => HasHash', HasHash' => HasHash, UNCHANGED pages, hash'.entries = hash.entries,
         excused \subseteq excused',
         \A i \in DOMAIN pages \ excused' : HasHash => Owed(i)' = Owed(i)
  PROVE  Listed'
<1> SUFFICES ASSUME HasHash'
             PROVE  /\ \A e \in hash'.entries : e[2] \in DOMAIN pages'
                    /\ \A i \in DOMAIN pages' \ excused' : Filed(i)' = Owed(i)'
  BY DEF Listed
<1>1. \A i : Filed(i)' = Filed(i)
  BY DEF Filed
<1> QED
  BY <1>1 DEF IndexInv, Listed

LEMMA StartInsertInv ==
  ASSUME IndexInv, NEW row \in Given, StartInsert(row)
  PROVE  Answered' /\ Listed' /\ Counted'
<1> USE DEF StartInsert
<1> DEFINE n == Len(pages) + 1
<1>1. /\ DOMAIN pages = 1 .. Len(pages) /\ DOMAIN pages' = 1 .. n /\ Len(pages) \in Nat
      /\ \A i \in DOMAIN pages : pages'[i] = pages[i] /\ i # n
      /\ n \notin live /\ n \notin DOMAIN pages
  BY PagesAreSlots DEF IndexInv, Typed
<1>2. w'.at = "page" /\ w'.op = "insert" /\ w'.i = n /\ Writing'
  BY DEF Writing
<1>3. (HasHash' <=> HasHash) /\ (Building' <=> Building) /\ b' = b /\ hash' = hash
  BY DEF HasHash, Building
<1>4. Building => n \in excused'
  BY DEF Excuse
<1>5. excused \subseteq excused'
  BY DEF Excuse
<1>6. Answered'
  <2>1. HasHash /\ BuilderCall' =>
          \A i \in DOMAIN pages' \ excused' : i <= Len(b.rows) /\ b.rows[i] = pages'[i]
    <3>1. BuilderCall' => Building /\ BuilderCall
      BY <1>1, <1>3 DEF BuilderCall, Building, IndexInv, Typed, BuilderOK, BIdle
    <3> QED
      BY <1>1, <1>4, <1>5, <3>1 DEF IndexInv, Answered
  <2>2. HasHash /\ BuilderCall' /\ b.at # "row" /\ b.i \notin excused' => b.i \in live'
    <3>1. BuilderCall' => Building /\ BuilderCall
      BY <1>1, <1>3 DEF BuilderCall, Building, IndexInv, Typed, BuilderOK, BIdle
    <3> QED
      BY <1>5, <3>1 DEF IndexInv, Answered
  <2> QED
    BY <1>2, <1>3, <1>4, <2>1, <2>2 DEF Answered
<1>7. Listed'
  <2> SUFFICES ASSUME HasHash
               PROVE  /\ \A e \in hash.entries : e[2] \in DOMAIN pages'
                      /\ \A i \in DOMAIN pages' \ excused' : Filed(i)' = Owed(i)'
    BY <1>3 DEF Listed
  <2>1. \A e \in hash.entries : e[2] \in DOMAIN pages
    BY DEF IndexInv, Listed
  <2>2. \A i : Filed(i)' = Filed(i)
    BY <1>3 DEF Filed
  <2>3. ASSUME NEW i \in DOMAIN pages' \ excused', i = n
        PROVE  Filed(i) = Owed(i)'
    <3>1. Filed(i) = {}
      BY <1>1, <2>1, <2>3 DEF Filed
    <3>2. Owed(i)' = {}
      BY <1>2, <2>3 DEF Owed
    <3> QED
      BY <3>1, <3>2
  <2>4. ASSUME NEW i \in DOMAIN pages' \ excused', i # n
        PROVE  Filed(i) = Owed(i)'
    <3>1. i \in DOMAIN pages \ excused /\ pages'[i] = pages[i] /\ (i \in live' <=> i \in live)
      BY <1>1, <1>5, <2>4
    <3>2. Pending(i)' <=> Pending(i)
      BY <1>3 DEF Pending
    <3>3. Owed(i)' = Owed(i)
      BY <1>2, <2>4, <3>1, <3>2 DEF Owed
    <3> QED
      BY <3>1, <3>3 DEF IndexInv, Listed
  <2> QED
    BY <1>1, <2>1, <2>2, <2>3, <2>4
<1>8. Counted'
  <2> SUFFICES ASSUME HasHash, excused' = {}
               PROVE  hash.total = Cardinality(Entered') + Uncounted'
    BY <1>3 DEF Counted
  <2>1. excused = {} /\ ~Building /\ ~Building'
    BY <1>3, <1>4, <1>5
  <2>2. hash.total = Cardinality(live)
    BY <2>1, LiveFinite DEF IndexInv, Counted, Entered, Uncounted, Building
  <2>3. Entered' = live \cup {n} /\ Uncounted' = -1
    BY <1>2, <2>1 DEF Entered, Uncounted, Building
  <2>4. Cardinality(live \cup {n}) = Cardinality(live) + 1 /\ Cardinality(live) \in Nat
    BY <1>1, LiveFinite, FS_AddElement DEF IndexInv
  <2> QED
    BY <2>2, <2>3, <2>4
<1> QED
  BY <1>6, <1>7, <1>8

LEMMA WritePageInv ==
  ASSUME IndexInv, WritePage
  PROVE  Answered' /\ Listed' /\ Counted'
<1> USE DEF WritePage
<1>1. /\ WriterCall /\ w.i \in DOMAIN pages /\ w.op = "insert" /\ w.at = "page" /\ Writing /\ Writing'
      /\ w'.i = w.i /\ w'.op = "insert" /\ w'.at = "hash"
  BY WriterAt, WriterSlot DEF IndexInv, WriterCall, Writing
<1>2. DOMAIN pages' = DOMAIN pages /\ \A i \in DOMAIN pages : i # w.i => pages'[i] = pages[i]
  BY DEF IndexInv, Typed
<1>3. (HasHash' <=> HasHash) /\ (Building' <=> Building) /\ b' = b /\ hash' = hash /\ (BuilderCall' => BuilderCall)
  BY DEF HasHash, Building, BuilderCall, IndexInv, Typed
<1>4. Answered'
  <2>1. ASSUME HasHash, BuilderCall'
        PROVE  \A i \in DOMAIN pages' \ excused' : i <= Len(b.rows) /\ b.rows[i] = pages'[i]
    <3>1. Building /\ BuilderCall
      BY <1>3, <2>1 DEF BuilderCall, Building
    <3>2. w.i \in excused
      BY <1>1, <2>1, <3>1 DEF IndexInv, Answered
    <3> QED
      BY <1>2, <2>1, <3>1, <3>2 DEF IndexInv, Answered
  <2> QED
    BY <1>1, <1>3, <2>1 DEF IndexInv, Answered
<1>5. Listed'
  <2> SUFFICES ASSUME HasHash
               PROVE  /\ \A e \in hash.entries : e[2] \in DOMAIN pages'
                      /\ \A i \in DOMAIN pages' \ excused' : Filed(i)' = Owed(i)'
    BY <1>3 DEF Listed
  <2>1. \A i : Filed(i)' = Filed(i)
    BY <1>3 DEF Filed
  <2>2. ASSUME NEW i \in DOMAIN pages
        PROVE  Owed(i)' = Owed(i)
    <3>1. Pending(i)' <=> Pending(i)
      BY <1>3 DEF Pending
    <3> QED
      BY <1>1, <1>2, <3>1 DEF Owed
  <2> QED
    BY <1>2, <2>1, <2>2 DEF IndexInv, Listed
<1>6. Entered' = Entered /\ Uncounted' = Uncounted
  BY <1>1, <1>3 DEF Entered, Uncounted
<1> QED
  BY <1>3, <1>4, <1>5, <1>6 DEF IndexInv, Counted

LEMMA StartUpdateInv ==
  ASSUME IndexInv, NEW i \in live, NEW row \in Given, StartUpdate(i, row)
  PROVE  Answered' /\ Listed' /\ Counted'
<1> USE DEF StartUpdate
<1>1. /\ DOMAIN pages' = DOMAIN pages /\ i \in DOMAIN pages /\ \A j \in DOMAIN pages : j # i => pages'[j] = pages[j]
      /\ ~Writing /\ Writing' /\ w'.at = "hash" /\ w'.op = "update" /\ w'.i = i /\ w'.old = pages[i]
  BY PagesAreSlots DEF Writing, IndexInv
<1>2. (HasHash' <=> HasHash) /\ (Building' <=> Building) /\ b' = b /\ hash' = hash /\ live' = live
  BY DEF HasHash, Building
<1>3. excused \subseteq excused' /\ (Building => i \in excused')
  BY DEF Excuse
<1>4. BuilderCall' => BuilderCall /\ Building
  BY <1>1 DEF BuilderCall, Building, IndexInv, Typed
<1>5. Answered'
  BY <1>1, <1>2, <1>3, <1>4 DEF IndexInv, Answered
<1>6. Listed'
  <2> SUFFICES ASSUME HasHash
               PROVE  /\ \A e \in hash.entries : e[2] \in DOMAIN pages'
                      /\ \A j \in DOMAIN pages' \ excused' : Filed(j)' = Owed(j)'
    BY <1>2 DEF Listed
  <2>1. \A j : Filed(j)' = Filed(j)
    BY <1>2 DEF Filed
  <2>2. ASSUME NEW j \in DOMAIN pages \ excused'
        PROVE  Owed(j)' = Owed(j)
    <3>1. Pending(j)' <=> Pending(j)
      BY <1>2 DEF Pending
    <3>2. CASE j = i
      <4>1. Owed(j)' = {pages[i].k}
        BY <1>1, <3>2 DEF Owed
      <4>2. Owed(j) = {pages[i].k}
        BY <1>1, <1>3, <2>2, <3>2 DEF Owed, Pending
      <4> QED
        BY <4>1, <4>2
    <3>3. CASE j # i
      BY <1>1, <1>2, <3>1, <3>3 DEF Owed
    <3> QED
      BY <3>2, <3>3
  <2> QED
    BY <1>1, <1>3, <2>1, <2>2 DEF IndexInv, Listed
<1>7. Entered' = Entered /\ Uncounted' = Uncounted
  BY <1>1, <1>2 DEF Entered, Uncounted
<1> QED
  BY <1>2, <1>3, <1>5, <1>6, <1>7 DEF IndexInv, Counted

LEMMA StartDeleteInv ==
  ASSUME IndexInv, NEW i \in live, StartDelete(i)
  PROVE  Answered' /\ Listed' /\ Counted'
<1> USE DEF StartDelete
<1>1. /\ pages' = pages /\ i \in DOMAIN pages
      /\ ~Writing /\ Writing' /\ w'.at = "hash" /\ w'.op = "delete" /\ w'.i = i /\ w'.old = pages[i]
  BY PagesAreSlots DEF Writing, IndexInv
<1>2. (HasHash' <=> HasHash) /\ (Building' <=> Building) /\ b' = b /\ hash' = hash /\ live' = live \ {i}
  BY DEF HasHash, Building
<1>3. excused \subseteq excused' /\ (Building => i \in excused')
  BY DEF Excuse
<1>4. BuilderCall' => BuilderCall /\ Building
  BY <1>1 DEF BuilderCall, Building
<1>5. Answered'
  BY <1>1, <1>2, <1>3, <1>4 DEF IndexInv, Answered
<1>6. Listed'
  <2> SUFFICES ASSUME HasHash
               PROVE  /\ \A e \in hash.entries : e[2] \in DOMAIN pages'
                      /\ \A j \in DOMAIN pages' \ excused' : Filed(j)' = Owed(j)'
    BY <1>2 DEF Listed
  <2>1. \A j : Filed(j)' = Filed(j)
    BY <1>2 DEF Filed
  <2>2. ASSUME NEW j \in DOMAIN pages \ excused'
        PROVE  Owed(j)' = Owed(j)
    <3>1. Pending(j)' <=> Pending(j)
      BY <1>2 DEF Pending
    <3>2. CASE j = i
      <4>1. Owed(j)' = {pages[i].k}
        BY <1>1, <3>2 DEF Owed
      <4>2. Owed(j) = {pages[i].k}
        BY <1>1, <1>3, <2>2, <3>2 DEF Owed, Pending
      <4> QED
        BY <4>1, <4>2
    <3>3. CASE j # i
      BY <1>1, <1>2, <3>1, <3>3 DEF Owed
    <3> QED
      BY <3>2, <3>3
  <2> QED
    BY <1>1, <1>3, <2>1, <2>2 DEF IndexInv, Listed
<1>7. Counted'
  <2> SUFFICES ASSUME HasHash, excused' = {}
               PROVE  hash.total = Cardinality(Entered') + Uncounted'
    BY <1>2 DEF Counted
  <2>1. excused = {} /\ ~Building /\ ~Building'
    BY <1>2, <1>3
  <2>2. hash.total = Cardinality(live)
    BY <1>1, <2>1, LiveFinite DEF IndexInv, Counted, Entered, Uncounted, Building
  <2>3. Entered' = live \ {i} /\ Uncounted' = 1
    BY <1>1, <1>2, <2>1 DEF Entered, Uncounted, Building
  <2>4. Cardinality(live \ {i}) = Cardinality(live) - 1 /\ Cardinality(live) \in Nat
    BY LiveFinite, FS_RemoveElement DEF IndexInv
  <2> QED
    BY <2>2, <2>3, <2>4
<1> QED
  BY <1>5, <1>6, <1>7

\* The builder is where it was, or has lost the set that it held.
SameBuild ==
  /\ Building' <=> Building
  /\ b'.at = "copy" <=> b.at = "copy"
  /\ BuilderCall' => BuilderCall /\ b'.rows = b.rows /\ (b'.at = "row" <=> b.at = "row")
  /\ Building /\ b.at # "copy" => b'.i = b.i

LEMMA DetachedSame ==
  ASSUME Typed, NEW x, Detached(x), UNCHANGED pages
  PROVE  SameBuild
<1>1. CASE b.at = "add" /\ b.rows[b.i].k = x
  <2>1. BuilderCall /\ b' = [b EXCEPT !.at = "lost"]
    BY <1>1, BuilderAt DEF Detached
  <2>2. b'.at = "lost" /\ b'.rows = b.rows /\ b'.i = b.i
    BY <2>1 DEF BuilderCall
  <2> QED
    BY <1>1, <2>1, <2>2 DEF SameBuild, Building
<1>2. CASE ~(b.at = "add" /\ b.rows[b.i].k = x)
  <2>1. b' = b
    BY <1>2 DEF Detached
  <2>2. BuilderCall' => BuilderCall
    <3>1. ASSUME BuilderCall' PROVE BuilderCall
      <4>1. b.at \notin {"idle", "copy"}
        BY <2>1, <3>1 DEF BuilderCall
      <4> QED
        BY <4>1, BuilderAt
    <3> QED
      BY <3>1
  <2> QED
    BY <2>1, <2>2 DEF SameBuild, Building
<1> QED
  BY <1>1, <1>2

LEMMA StillSame ==
  ASSUME Typed, b' = b, UNCHANGED pages
  PROVE  SameBuild
<1>1. ASSUME BuilderCall' PROVE BuilderCall
  <2>1. b.at \notin {"idle", "copy"}
    BY <1>1 DEF BuilderCall
  <2> QED
    BY <2>1, BuilderAt
<1> QED
  BY <1>1 DEF SameBuild, Building

\* A writer's step between its places: what is to be shown of its own row.
LEMMA WriterStepInv ==
  ASSUME IndexInv, WriterCall, UNCHANGED <<pages, live>>, HasHash' <=> HasHash, excused \subseteq excused', SameBuild,
         Writing' => w'.i = w.i,
         HasHash' /\ w'.at \in {"check", "drop", "look", "make", "add"} /\ w'.op # "delete" /\ w'.i \notin excused' =>
           Cut[w'.new.k] = w'.new.k,
         HasHash => \A e \in hash'.entries : e \in hash.entries \/ e[2] = w.i,
         HasHash => \A e \in hash.entries \ hash'.entries : e[2] = w.i \/ e[2] \in excused',
         HasHash => \A j \in DOMAIN pages \ excused' : j = w.i => Filed(j)' = Owed(j)'
  PROVE  Answered' /\ Listed'
<1>1. w.i \in DOMAIN pages /\ Writing
  BY WriterSlot DEF IndexInv, WriterCall, Writing
<1>a. BuilderCall => Building /\ b.at # "copy"
  BY DEF BuilderCall, Building
<1>2. Answered'
  BY <1>1, <1>a DEF IndexInv, Answered, SameBuild
<1>3. Listed'
  <2> SUFFICES ASSUME HasHash
               PROVE  /\ \A e \in hash'.entries : e[2] \in DOMAIN pages
                      /\ \A j \in DOMAIN pages \ excused' : Filed(j)' = Owed(j)'
    BY DEF Listed
  <2>1. \A e \in hash'.entries : e[2] \in DOMAIN pages
    BY <1>1 DEF IndexInv, Listed
  <2>2. ASSUME NEW j \in DOMAIN pages \ excused', j # w.i
        PROVE  Filed(j)' = Owed(j)'
    <3>1. Filed(j)' = Filed(j)
      <4>1. \A x \in Keys : <<x, j>> \in hash'.entries <=> <<x, j>> \in hash.entries
        BY <2>2
      <4> QED
        BY <4>1 DEF Filed
    <3>2. Pending(j)' <=> Pending(j)
      BY DEF Pending, SameBuild
    <3>3. Owed(j)' = Owed(j)
      BY <2>2, <3>2 DEF Owed
    <3> QED
      BY <2>2, <3>1, <3>3 DEF IndexInv, Listed
  <2> QED
    BY <2>1, <2>2
<1> QED
  BY <1>2, <1>3

\* What the total should count does not change with the builder's hold.
LEMMA EnteredSame ==
  ASSUME SameBuild, UNCHANGED live
  PROVE  Entered' = Entered
BY DEF SameBuild, Entered

\* The writer's row, on its way.
LEMMA OnItsWay ==
  ASSUME IndexInv, HasHash, WriterCall, w.at \notin {"hash", "range"}, w.i \notin excused
  PROVE  Filed(w.i) = {}
BY WriterSlot DEF IndexInv, Listed, Owed, Writing, WriterCall

\* The writer's row, at its end, while no index is being built.
LEMMA AtItsEnd ==
  ASSUME WriterCall', w'.at = "range", ~Building', NEW i, i = w'.i
  PROVE  Owed(i)' = IF w'.op # "delete" THEN {pages'[i].k} ELSE {}
BY DEF WriterCall, Owed, Pending

LEMMA PassIndexInv ==
  ASSUME IndexInv, PassIndex
  PROVE  Answered' /\ Listed' /\ Counted'
<1> USE DEF PassIndex
<1>1. /\ WriterCall /\ w' = [w EXCEPT !.at = "range"] /\ w'.at = "range" /\ w'.i = w.i /\ w'.op = w.op
      /\ Writing /\ w.i \in DOMAIN pages /\ WriterCall'
  BY WriterAt, WriterSlot DEF IndexInv, WriterCall, Writing
<1>2. SameBuild /\ (HasHash' <=> HasHash) /\ (Building' <=> Building)
  BY StillSame DEF IndexInv, HasHash, Building
<1>3. ASSUME HasHash, NEW j \in DOMAIN pages \ excused, j = w.i
      PROVE  Filed(j)' = Owed(j)'
  <2>1. ~Building /\ ~Building' /\ w.op = "update" /\ w.old.k = w.new.k
    BY <1>1, <1>2, <1>3, NotBuilt DEF KeyStays
  <2>2. Cut[w.old.k] = w.old.k /\ pages[w.i] = Stored(w.new) /\ Stored(w.new).k = Cut[w.new.k]
    BY <1>1, <2>1, NewKey DEF WriterCall
  <2>3. Owed(j)' = {pages[j].k}
    BY <1>1, <1>3, <2>1, AtItsEnd
  <2>4. Filed(j) = {w.old.k}
    BY <1>1, <1>3, <2>1 DEF IndexInv, Listed, Owed
  <2>5. Filed(j)' = Filed(j)
    BY DEF Filed
  <2> QED
    BY <1>3, <2>1, <2>2, <2>3, <2>4, <2>5
<1>4. Answered' /\ Listed'
  BY <1>1, <1>2, <1>3, WriterStepInv
<1>5. Entered' = Entered /\ (HasHash => Uncounted' = Uncounted)
  BY <1>1, <1>2, EnteredSame DEF Uncounted, KeyStays, Writing
<1> QED
  BY <1>2, <1>4, <1>5 DEF IndexInv, Counted

LEMMA EnterIndexInv ==
  ASSUME IndexInv, EnterIndex, Typed'
  PROVE  Answered' /\ Listed' /\ Counted'
<1> USE DEF EnterIndex
<1>1. WriterCall /\ Writing /\ w.i \in DOMAIN pages /\ HasHash /\ w.at = "hash"
  BY WriterAt, WriterSlot DEF IndexInv, Writing
<1>2. /\ w'.i = w.i /\ w'.op = w.op /\ w'.new = w.new /\ w'.at \in {"look", "check", "uncount"}
      /\ Writing' /\ WriterCall'
  <2>1. /\ w'.i = w.i /\ w'.op = w.op /\ w'.new = w.new /\ w'.at \in {"look", "check", "uncount"}
    BY <1>1 DEF WriterCall, AfterOld
  <2> QED
    BY <2>1 DEF Writing, Typed, WriterOK, WIdle
<1>3. SameBuild /\ HasHash' /\ excused \subseteq excused'
  <2>1. HasHash'
    BY <1>2 DEF IndexInv, WriterCall
  <2> QED
    BY <2>1, StillSame DEF IndexInv
<1>4. hash'.entries = (IF w.op = "insert" THEN hash.entries ELSE hash.entries \ {<<w.old.k, w.i>>})
      /\ hash'.total = hash.total
  BY <1>1, HashRecord DEF Discarded, IndexInv
<1>5. ASSUME NEW j \in DOMAIN pages \ excused', j = w.i
      PROVE  Filed(j)' = Owed(j)'
  <2>1. Owed(j)' = {}
    BY <1>2, <1>5 DEF Owed
  <2>2. Filed(j) = IF w.op = "insert" THEN {} ELSE {w.old.k}
    BY <1>1, <1>3, <1>5 DEF IndexInv, Listed, Owed
  <2>3. Filed(j)' = {}
    BY <1>4, <1>5, <2>2 DEF Filed
  <2> QED
    BY <2>1, <2>3
<1>6. w'.op # "delete" /\ w'.i \notin excused' => Cut[w'.new.k] = w'.new.k
  BY <1>1, <1>2, NewKey, RowFields DEF NotAnswered
<1>7. Answered' /\ Listed'
  BY <1>1, <1>2, <1>3, <1>4, <1>5, <1>6, WriterStepInv
<1>8. Entered' = Entered /\ Uncounted' = Uncounted
  BY <1>1, <1>2, <1>3, EnteredSame DEF Uncounted
<1> QED
  BY <1>1, <1>3, <1>4, <1>7, <1>8 DEF IndexInv, Counted

LEMMA CheckSetInv ==
  ASSUME IndexInv, CheckSet, Typed'
  PROVE  Answered' /\ Listed' /\ Counted'
<1> USE DEF CheckSet
<1>1. WriterCall /\ Writing /\ w.i \in DOMAIN pages /\ HasHash /\ w.at = "check"
  BY WriterAt, WriterSlot DEF IndexInv, Writing, WriterCall
<1>2. /\ w'.i = w.i /\ w'.op = w.op /\ w'.new = w.new /\ w'.at \in {"drop", "look", "uncount"} /\ Writing'
      /\ SameBuild /\ (HasHash' <=> HasHash)
  BY <1>1, StillSame DEF WriterCall, AfterOld, IndexInv, HasHash, Writing
<1>3. ASSUME NEW j \in DOMAIN pages \ excused', j = w.i
      PROVE  Filed(j)' = Owed(j)'
  <2>1. Owed(j)' = {} /\ Filed(j) = {}
    BY <1>1, <1>2, <1>3, OnItsWay DEF Owed
  <2> QED
    BY <2>1 DEF Filed
<1>4. w'.op # "delete" /\ w'.i \notin excused' => Cut[w'.new.k] = w'.new.k
  BY <1>1, <1>2 DEF IndexInv, Answered
<1>5. Answered' /\ Listed'
  BY <1>1, <1>2, <1>3, <1>4, WriterStepInv
<1>6. Entered' = Entered /\ Uncounted' = Uncounted
  BY <1>1, <1>2, EnteredSame DEF Uncounted
<1> QED
  BY <1>1, <1>2, <1>5, <1>6 DEF IndexInv, Counted

LEMMA DropKeyInv ==
  ASSUME IndexInv, DropKey, Typed'
  PROVE  Answered' /\ Listed' /\ Counted'
<1> USE DEF DropKey
<1>1. WriterCall /\ Writing /\ w.i \in DOMAIN pages /\ HasHash /\ w.at = "drop" /\ w.seen = {}
  BY WriterAt, WriterSlot DEF IndexInv, Writing, WriterCall
<1>2. /\ w'.i = w.i /\ w'.op = w.op /\ w'.new = w.new /\ w'.at \in {"look", "uncount"} /\ Writing'
      /\ WriterCall'
  <2>1. /\ w'.i = w.i /\ w'.op = w.op /\ w'.new = w.new /\ w'.at \in {"look", "uncount"}
    BY <1>1 DEF WriterCall, AfterOld
  <2> QED
    BY <2>1 DEF Writing, Typed, WriterOK, WIdle
<1>3. SameBuild /\ HasHash' /\ excused \subseteq excused'
  <2>1. HasHash'
    BY <1>2 DEF WriterCall
  <2> QED
    BY <2>1, DetachedSame DEF IndexInv, ExcuseSince
<1>4. hash'.entries = hash.entries \ SetOf(w.old.k) /\ hash'.total = hash.total
      /\ \A e \in SetOf(w.old.k) : e[2] \in excused'
  BY <1>1, HashRecord DEF DropSet, ExcuseSince, IndexInv
<1>5. ASSUME NEW j \in DOMAIN pages \ excused', j = w.i
      PROVE  Filed(j)' = Owed(j)'
  <2>1. Owed(j)' = {} /\ Filed(j) = {}
    BY <1>1, <1>2, <1>3, <1>5, OnItsWay DEF Owed
  <2> QED
    BY <1>4, <2>1 DEF Filed
<1>6. w'.op # "delete" /\ w'.i \notin excused' => Cut[w'.new.k] = w'.new.k
  BY <1>1, <1>2, <1>3 DEF IndexInv, Answered
<1>7. Answered' /\ Listed'
  BY <1>1, <1>2, <1>3, <1>4, <1>5, <1>6, WriterStepInv
<1>8. Entered' = Entered /\ Uncounted' = Uncounted
  BY <1>1, <1>2, <1>3, EnteredSame DEF Uncounted
<1> QED
  BY <1>1, <1>3, <1>4, <1>7, <1>8 DEF IndexInv, Counted

LEMMA UncountInv ==
  ASSUME IndexInv, Uncount, Typed'
  PROVE  Answered' /\ Listed' /\ Counted'
<1> USE DEF Uncount
<1>1. WriterCall /\ Writing /\ w.i \in DOMAIN pages /\ HasHash /\ w.at = "uncount" /\ w.op = "delete"
  BY WriterAt, WriterSlot DEF IndexInv, Writing, WriterCall
<1>2. w'.i = w.i /\ w'.op = w.op /\ w'.at = "range" /\ Writing' /\ WriterCall'
  <2>1. w'.i = w.i /\ w'.op = w.op /\ w'.at = "range"
    BY <1>1 DEF WriterCall
  <2> QED
    BY <2>1 DEF Writing, Typed, WriterOK, WIdle
<1>3. SameBuild /\ HasHash' /\ (Building' <=> Building)
      /\ hash'.entries = hash.entries /\ hash'.total = hash.total - 1 /\ hash.total \in Int
  <2>1. hash' = [keys |-> hash.keys, entries |-> hash.entries, total |-> hash.total - 1] /\ hash.total \in Int
    BY <1>1, HashRecord DEF IndexInv
  <2>2. hash'.total \in Int
    BY <2>1
  <2>3. HasHash'
    BY <2>2, AbsentAssumption DEF HasHash, NoIndex
  <2> QED
    BY <2>1, <2>3, StillSame DEF IndexInv, Building
<1>4. ASSUME NEW j \in DOMAIN pages \ excused', j = w.i
      PROVE  Filed(j)' = Owed(j)'
  <2>1. Filed(j) = {} /\ ~Building'
    BY <1>1, <1>3, <1>4, OnItsWay, NotBuilt
  <2>2. Owed(j)' = {}
    BY <1>1, <1>2, <1>4, <2>1, AtItsEnd
  <2> QED
    BY <1>3, <2>1, <2>2 DEF Filed
<1>5. Answered' /\ Listed'
  BY <1>1, <1>2, <1>3, <1>4, WriterStepInv
<1>6. Entered' = Entered /\ Uncounted' = 0 /\ Uncounted = 1
  BY <1>1, <1>2, <1>3, EnteredSame DEF Uncounted
<1>7. ASSUME excused' = {} PROVE hash'.total = Cardinality(Entered') + Uncounted'
  <2>1. hash.total = Cardinality(Entered) + 1 /\ ~Building
    BY <1>1, <1>6, <1>7, NotBuilt DEF IndexInv, Counted
  <2>2. Cardinality(Entered) \in Nat
    BY <2>1, LiveFinite DEF Entered, Building, IndexInv
  <2> QED
    BY <1>3, <1>6, <2>1, <2>2
<1> QED
  BY <1>5, <1>7 DEF Counted

LEMMA LookKeyInv ==
  ASSUME IndexInv, LookKey, Typed'
  PROVE  Answered' /\ Listed' /\ Counted'
<1> USE DEF LookKey
<1>1. WriterCall /\ Writing /\ w.i \in DOMAIN pages /\ HasHash /\ w.at = "look"
  BY WriterAt, WriterSlot DEF IndexInv, Writing, WriterCall
<1>2. /\ w'.i = w.i /\ w'.op = w.op /\ w'.new = w.new /\ w'.at \in {"make", "add"} /\ Writing'
      /\ SameBuild /\ (HasHash' <=> HasHash)
  BY <1>1, StillSame DEF WriterCall, IndexInv, HasHash, Writing
<1>3. ASSUME NEW j \in DOMAIN pages \ excused', j = w.i
      PROVE  Filed(j)' = Owed(j)'
  <2>1. Owed(j)' = {} /\ Filed(j) = {}
    BY <1>1, <1>2, <1>3, OnItsWay DEF Owed
  <2> QED
    BY <2>1 DEF Filed
<1>4. w'.op # "delete" /\ w'.i \notin excused' => Cut[w'.new.k] = w'.new.k
  BY <1>1, <1>2 DEF IndexInv, Answered
<1>5. Answered' /\ Listed'
  BY <1>1, <1>2, <1>3, <1>4, WriterStepInv
<1>6. Entered' = Entered /\ Uncounted' = Uncounted
  BY <1>1, <1>2, EnteredSame DEF Uncounted
<1> QED
  BY <1>1, <1>2, <1>5, <1>6 DEF IndexInv, Counted

LEMMA MakeKeyInv ==
  ASSUME IndexInv, MakeKey, Typed'
  PROVE  Answered' /\ Listed' /\ Counted'
<1> USE DEF MakeKey
<1>1. WriterCall /\ Writing /\ w.i \in DOMAIN pages /\ HasHash /\ w.at = "make" /\ w.seen = {}
  BY WriterAt, WriterSlot DEF IndexInv, Writing, WriterCall
<1>2. /\ w'.i = w.i /\ w'.op = w.op /\ w'.new = w.new /\ w'.at = "add" /\ Writing' /\ WriterCall'
  <2>1. /\ w'.i = w.i /\ w'.op = w.op /\ w'.new = w.new /\ w'.at = "add"
    BY <1>1 DEF WriterCall
  <2> QED
    BY <2>1 DEF Writing, Typed, WriterOK, WIdle
<1>3. SameBuild /\ HasHash' /\ excused \subseteq excused'
  <2>1. HasHash'
    BY <1>2 DEF WriterCall
  <2> QED
    BY <2>1, DetachedSame DEF IndexInv, ExcuseSince
<1>4. hash'.entries = hash.entries \ SetOf(w.new.k) /\ hash'.total = hash.total
      /\ \A e \in SetOf(w.new.k) : e[2] \in excused'
  BY <1>1, HashRecord DEF MakeSet, ExcuseSince, IndexInv
<1>5. ASSUME NEW j \in DOMAIN pages \ excused', j = w.i
      PROVE  Filed(j)' = Owed(j)'
  <2>1. Owed(j)' = {} /\ Filed(j) = {}
    BY <1>1, <1>2, <1>3, <1>5, OnItsWay DEF Owed
  <2> QED
    BY <1>4, <2>1 DEF Filed
<1>6. w'.op # "delete" /\ w'.i \notin excused' => Cut[w'.new.k] = w'.new.k
  BY <1>1, <1>2, <1>3 DEF IndexInv, Answered
<1>7. Answered' /\ Listed'
  BY <1>1, <1>2, <1>3, <1>4, <1>5, <1>6, WriterStepInv
<1>8. Entered' = Entered /\ Uncounted' = Uncounted
  BY <1>1, <1>2, <1>3, EnteredSame DEF Uncounted
<1> QED
  BY <1>1, <1>3, <1>4, <1>7, <1>8 DEF IndexInv, Counted

LEMMA AddEntryInv ==
  ASSUME IndexInv, AddEntry, Typed'
  PROVE  Answered' /\ Listed' /\ Counted'
<1> USE DEF AddEntry
<1>1. /\ WriterCall /\ Writing /\ w.i \in DOMAIN pages /\ HasHash /\ w.at = "add" /\ w.op \in {"insert", "update"}
      /\ w.new.k \in Keys /\ pages[w.i] = Stored(w.new) /\ Stored(w.new).k = Cut[w.new.k]
  BY WriterAt, WriterSlot, NewKey DEF IndexInv, Writing, WriterCall
<1>2. w'.i = w.i /\ w'.op = w.op /\ w'.at = "range" /\ Writing' /\ WriterCall'
  <2>1. w'.i = w.i /\ w'.op = w.op /\ w'.at = "range"
    BY <1>1 DEF WriterCall
  <2> QED
    BY <2>1 DEF Writing, Typed, WriterOK, WIdle
<1>3. /\ SameBuild /\ HasHash' /\ (Building' <=> Building)
      /\ hash'.entries = hash.entries \cup {<<w.new.k, w.i>>}
      /\ hash'.total = hash.total + (IF w.op = "insert" THEN 1 ELSE 0) /\ hash.total \in Int
  <2>1. hash' = [keys |-> hash.keys, entries |-> hash.entries \cup {<<w.new.k, w.i>>},
                 total |-> hash.total + (IF w.op = "insert" THEN 1 ELSE 0)] /\ hash.total \in Int
    BY <1>1, HashRecord DEF IndexInv, Added
  <2>2. hash'.total \in Int
    BY <2>1
  <2>3. HasHash'
    BY <2>2, AbsentAssumption DEF HasHash, NoIndex
  <2> QED
    BY <2>1, <2>3, StillSame DEF IndexInv, Building
<1>4. ASSUME NEW j \in DOMAIN pages \ excused', j = w.i
      PROVE  Filed(j)' = Owed(j)'
  <2>1. Filed(j) = {} /\ ~Building'
    BY <1>1, <1>3, <1>4, OnItsWay, NotBuilt
  <2>2. Owed(j)' = {pages[j].k}
    BY <1>1, <1>2, <1>4, <2>1, AtItsEnd
  <2>3. pages[j].k = w.new.k
    BY <1>1, <1>4 DEF IndexInv, Answered
  <2>4. Filed(j)' = {w.new.k}
    BY <1>1, <1>3, <1>4, <2>1 DEF Filed
  <2> QED
    BY <2>2, <2>3, <2>4
<1>5. Answered' /\ Listed'
  BY <1>1, <1>2, <1>3, <1>4, WriterStepInv
<1>6. Entered' = Entered /\ Uncounted' = 0 /\ Uncounted = IF w.op = "insert" THEN -1 ELSE 0
  BY <1>1, <1>2, <1>3, EnteredSame DEF Uncounted
<1>7. ASSUME excused' = {} PROVE hash'.total = Cardinality(Entered') + Uncounted'
  <2>1. hash.total = Cardinality(Entered) + Uncounted /\ ~Building
    BY <1>1, <1>6, <1>7, NotBuilt DEF IndexInv, Counted
  <2>2. Cardinality(Entered) \in Nat
    BY <2>1, LiveFinite DEF Entered, Building, IndexInv
  <2> QED
    BY <1>1, <1>3, <1>6, <2>1, <2>2
<1> QED
  BY <1>5, <1>7 DEF Counted

LEMMA UpdateRangeInv ==
  ASSUME IndexInv, UpdateRange
  PROVE  Answered' /\ Listed' /\ Counted'
<1> USE DEF UpdateRange
<1>1. WriterCall /\ Writing /\ w.i \in DOMAIN pages /\ w.at = "range" /\ ~Writing' /\ w'.at = "idle"
  BY WriterAt, WriterSlot DEF IndexInv, Writing, WIdle
<1>2. SameBuild /\ (HasHash' <=> HasHash)
  BY StillSame DEF IndexInv, HasHash
<1>3. ASSUME HasHash, NEW j \in DOMAIN pages \ excused', j = w.i
      PROVE  Filed(j)' = Owed(j)'
  <2>1. Filed(j)' = Filed(j) /\ (Pending(j)' <=> Pending(j))
    BY <1>2 DEF Filed, Pending, Building
  <2>2. Owed(j)' = Owed(j)
    BY <1>1, <2>1 DEF Owed
  <2> QED
    BY <1>3, <2>1, <2>2 DEF IndexInv, Listed
<1>4. Answered' /\ Listed'
  BY <1>1, <1>2, <1>3, WriterStepInv
<1>5. Entered' = Entered /\ Uncounted' = Uncounted
  BY <1>1, <1>2, EnteredSame DEF Uncounted
<1> QED
  BY <1>2, <1>4, <1>5 DEF IndexInv, Counted

LEMMA CreateIndexInv ==
  ASSUME IndexInv, CreateIndex
  PROVE  Answered' /\ Listed' /\ Counted'
<1> USE DEF CreateIndex
<1>1. hash'.entries = {} /\ hash'.total = 0 /\ b'.at = "copy" /\ Building' /\ ~BuilderCall'
  BY DEF NoIndex, Building, BuilderCall
<1>2. (Writing' <=> Writing) /\ (Writing => w.i \in excused')
  BY DEF Writing
<1>3. Answered'
  <2>1. w.at \in {"check", "drop", "look", "make", "add"} => FALSE
    BY WriterAt DEF IndexInv, WriterCall
  <2> QED
    BY <1>1, <1>2, <2>1 DEF Answered
<1>4. Listed'
  <2>1. ASSUME NEW j \in DOMAIN pages \ excused'
        PROVE  Filed(j)' = {} /\ Owed(j)' = {}
    BY <1>1, <1>2 DEF Filed, Owed, Pending
  <2> QED
    BY <1>1, <2>1 DEF Listed
<1>5. Counted'
  <2> SUFFICES ASSUME excused' = {} PROVE hash'.total = Cardinality(Entered') + Uncounted'
    BY DEF Counted
  <2>1. Entered' = {} /\ Uncounted' = 0
    BY <1>1, <1>2 DEF Entered, Uncounted
  <2> QED
    BY <1>1, <2>1, FS_EmptySet
<1> QED
  BY <1>3, <1>4, <1>5

\* While the builder is at work, the rows answered for are not written.
LEMMA BuilderFacts ==
  ASSUME IndexInv, BuilderCall, HasHash
  PROVE  /\ Building /\ b.at \notin {"copy", "idle"} /\ b.i \in Nat /\ Len(b.rows) \in Nat
         /\ Writing => w.i \in excused
         /\ \A j \in DOMAIN pages \ excused : j \in 1 .. Len(b.rows) /\ b.rows[j] = pages[j]
         /\ \A j \in DOMAIN pages \ excused :
              Filed(j) = IF j \in live /\ j < b.i THEN {pages[j].k} ELSE {}
<1>1. Building /\ b.at \notin {"copy", "idle"} /\ b.i \in Nat /\ Len(b.rows) \in Nat
  BY DEF BuilderCall, Building, Slots
<1>2. Writing => w.i \in excused
  BY <1>1 DEF IndexInv, Answered
<1>3. DOMAIN pages = 1 .. Len(pages) /\ Len(pages) \in Nat
  BY PagesAreSlots DEF IndexInv
<1>4. \A j \in DOMAIN pages \ excused : j \in 1 .. Len(b.rows) /\ b.rows[j] = pages[j]
  BY <1>1, <1>3 DEF IndexInv, Answered
<1>5. ASSUME NEW j \in DOMAIN pages \ excused
      PROVE  Filed(j) = IF j \in live /\ j < b.i THEN {pages[j].k} ELSE {}
  <2>1. Pending(j) <=> ~(j < b.i)
    BY <1>1, <1>3 DEF Pending
  <2>2. Owed(j) = IF j \in live /\ ~Pending(j) THEN {pages[j].k} ELSE {}
    BY <1>2 DEF Owed
  <2> QED
    BY <2>1, <2>2 DEF IndexInv, Listed
<1> QED
  BY <1>1, <1>2, <1>4, <1>5

\* A step that keeps the builder at its row.
LEMMA BuilderStays ==
  ASSUME IndexInv, BuilderCall, HasHash, HasHash', UNCHANGED <<pages, live, w>>, excused \subseteq excused',
         BuilderCall', b'.rows = b.rows, b'.i = b.i,
         b'.at # "row" => b.at # "row" \/ b.i \in live,
         hash'.entries \subseteq hash.entries, \A e \in hash.entries \ hash'.entries : e[2] \in excused',
         hash'.total = hash.total
  PROVE  Answered' /\ Listed' /\ Counted'
<1>1. /\ Building /\ Building' /\ b'.at # "copy" /\ b.at # "copy" /\ (Writing' <=> Writing)
      /\ (Writing => w.i \in excused)
  BY BuilderFacts DEF BuilderCall, Building, Writing
<1>2. Answered'
  <2>1. b.at # "row" /\ b.i \notin excused => b.i \in live
    BY DEF IndexInv, Answered
  <2>2. \A j \in DOMAIN pages \ excused : j <= Len(b.rows) /\ b.rows[j] = pages[j]
    BY DEF IndexInv, Answered
  <2>3. w.at \in {"check", "drop", "look", "make", "add"} => Writing
    BY DEF Writing
  <2> QED
    BY <1>1, <2>1, <2>2, <2>3 DEF Answered
<1>3. Listed'
  <2>1. ASSUME NEW j \in DOMAIN pages \ excused'
        PROVE  Filed(j)' = Owed(j)'
    <3>1. \A x \in Keys : <<x, j>> \in hash'.entries <=> <<x, j>> \in hash.entries
      BY <2>1
    <3>2. Filed(j)' = Filed(j)
      BY <3>1 DEF Filed
    <3>3. Owed(j)' = Owed(j)
      BY <1>1 DEF Owed, Pending
    <3> QED
      BY <2>1, <3>2, <3>3 DEF IndexInv, Listed
  <2> QED
    BY <2>1 DEF IndexInv, Listed
<1>4. Entered' = Entered /\ Uncounted' = Uncounted
  BY <1>1 DEF Entered, Uncounted
<1> QED
  BY <1>2, <1>3, <1>4 DEF IndexInv, Counted

\* The next row, or the end.
LEMMA NextRowIs ==
  ASSUME Typed, BuilderCall, b.rows # <<>>, b' = NextRow(b.i)
  PROVE  /\ b.i \in 1 .. Len(b.rows)
         /\ b.i = Len(b.rows) => b' = BIdle /\ ~Building' /\ ~BuilderCall'
         /\ b.i # Len(b.rows) => /\ b'.i = b.i + 1 /\ b'.at = "row" /\ b'.rows = b.rows
                                 /\ Building'
<1>1. b.i \in 1 .. Len(b.rows)
  BY BuilderRow
<1>2. b.i = Len(b.rows) => b' = BIdle /\ ~Building' /\ ~BuilderCall'
  BY DEF NextRow, BIdle, Building, BuilderCall
<1>3. b.i # Len(b.rows) => b' = [b EXCEPT !.i = b.i + 1, !.at = "row"]
  BY DEF NextRow
<1> QED
  BY <1>1, <1>2, <1>3 DEF BuilderCall, Building

\* A step that takes the builder to the next row.
LEMMA BuilderMoves ==
  ASSUME IndexInv, BuilderCall, HasHash, HasHash', UNCHANGED <<pages, live, w>>, excused \subseteq excused',
         b.rows # <<>>, b' = NextRow(b.i),
         \/ b.i \in excused' /\ hash'.entries \subseteq hash.entries \cup {<<b.rows[b.i].k, b.i>>}
                             /\ hash.entries \subseteq hash'.entries
         \/ b.i \notin live /\ hash'.entries = hash.entries
         \/ b.i \in live /\ hash'.entries = hash.entries \cup {<<b.rows[b.i].k, b.i>>}
  PROVE  Answered' /\ Listed'
<1>1. /\ b.i \in 1 .. Len(b.rows) /\ b.rows[b.i].k \in Keys /\ (Writing' <=> Writing) /\ b'.at # "copy"
      /\ Len(b.rows) \in Nat /\ Len(pages) \in Nat /\ DOMAIN pages = 1 .. Len(pages) /\ Len(b.rows) <= Len(pages)
  BY BuilderRow, NextRowIs, PagesAreSlots DEF IndexInv, Writing, BIdle, BuilderCall
<1>2. Answered'
  <2>1. BuilderCall' => b'.at = "row" /\ b'.rows = b.rows
    BY NextRowIs DEF IndexInv
  <2>2. w.at \in {"check", "drop", "look", "make", "add"} => Writing
    BY DEF Writing
  <2> QED
    BY <1>1, <2>1, <2>2, BuilderFacts DEF Answered
<1>3. Listed'
  <2>1. \A e \in hash'.entries : e[2] \in DOMAIN pages
    BY <1>1 DEF IndexInv, Listed
  <2>2. ASSUME NEW j \in DOMAIN pages \ excused'
        PROVE  Filed(j)' = Owed(j)'
    <3>1. j \in 1 .. Len(b.rows) /\ b.rows[j] = pages[j] /\ j \in DOMAIN pages \ excused
      BY <2>2, BuilderFacts
    <3>2. Pending(j)' <=> b.i < j
      BY <1>1, <3>1, NextRowIs DEF IndexInv, Pending
    <3>3. Owed(j)' = IF j \in live /\ j <= b.i THEN {pages[j].k} ELSE {}
      BY <1>1, <2>2, <3>1, <3>2, BuilderFacts DEF Owed
    <3>4. Filed(j) = IF j \in live /\ j < b.i THEN {pages[j].k} ELSE {}
      BY <3>1, BuilderFacts
    <3>5. CASE j # b.i
      <4>1. \A x \in Keys : <<x, j>> \in hash'.entries <=> <<x, j>> \in hash.entries
        BY <3>5
      <4>2. Filed(j)' = Filed(j)
        BY <4>1 DEF Filed
      <4> QED
        BY <1>1, <3>1, <3>3, <3>4, <3>5, <4>2
    <3>6. CASE j = b.i
      <4>1. CASE b.i \notin live /\ hash'.entries = hash.entries
        BY <3>3, <3>4, <3>6, <4>1 DEF Filed
      <4>2. CASE b.i \in live /\ hash'.entries = hash.entries \cup {<<b.rows[b.i].k, b.i>>}
        <5>1. Filed(j) = {}
          BY <1>1, <3>4, <3>6
        <5>2. Filed(j)' = {pages[j].k}
          BY <1>1, <3>1, <3>6, <4>2, <5>1 DEF Filed
        <5> QED
          BY <1>1, <3>3, <3>6, <4>2, <5>2
      <4> QED
        BY <2>2, <3>6, <4>1, <4>2
    <3> QED
      BY <3>5, <3>6
  <2> QED
    BY <2>1, <2>2 DEF Listed
<1> QED
  BY <1>2, <1>3

\* The row that the builder leaves counts if it is live.
LEMMA EnteredNext ==
  ASSUME IndexInv, BuilderCall, HasHash, UNCHANGED <<pages, live, w>>, b.rows # <<>>, b' = NextRow(b.i),
         excused = {}
  PROVE  /\ Entered' = Entered \cup ({b.i} \cap live) /\ b.i \notin Entered
         /\ IsFiniteSet(Entered) /\ Cardinality(Entered) \in Nat
         /\ Uncounted' = 0 /\ Uncounted = 0
<1>1. /\ b.i \in 1 .. Len(b.rows) /\ b'.at # "copy" /\ Len(b.rows) \in Nat
      /\ \A j \in live : j \in 1 .. Len(b.rows)
  BY BuilderRow, NextRowIs, BuilderFacts, PagesAreSlots DEF IndexInv, BIdle
<1>2. Entered = {j \in live : j < b.i}
  BY BuilderFacts DEF Entered
<1>3. Entered' = {j \in live : j <= b.i}
  <2>1. CASE b.i = Len(b.rows)
    <3>1. Entered' = live
      BY <1>1, <2>1, NextRowIs DEF Entered, IndexInv
    <3> QED
      BY <1>1, <2>1, <3>1
  <2>2. CASE b.i # Len(b.rows)
    <3>1. Entered' = {j \in live : j < b.i + 1}
      BY <1>1, <2>2, NextRowIs DEF Entered, IndexInv
    <3> QED
      BY <1>1, <3>1
  <2> QED
    BY <2>1, <2>2
<1>4. IsFiniteSet(Entered) /\ Cardinality(Entered) \in Nat
  BY <1>2, LiveFinite, FS_Subset, FS_CardinalityType DEF IndexInv
<1>5. ~Writing /\ ~Writing'
  BY BuilderFacts DEF Writing
<1> QED
  BY <1>1, <1>2, <1>3, <1>4, <1>5 DEF Uncounted

LEMMA CopySlabInv ==
  ASSUME IndexInv, CopySlab
  PROVE  Answered' /\ Listed' /\ Counted'
<1> USE DEF CopySlab
<1>1. /\ Building /\ Building' /\ HasHash /\ HasHash' /\ hash' = hash /\ b'.i = 1 /\ b'.at = "row" /\ b'.rows = pages
      /\ (Writing' <=> Writing) /\ (Writing => w.i \in excused) /\ DOMAIN pages = 1 .. Len(pages)
      /\ Len(pages) \in Nat
  BY PagesAreSlots DEF IndexInv, Typed, BuilderOK, Building, HasHash, Answered, Writing
<1>2. Answered'
  <2>1. w.at \in {"check", "drop", "look", "make", "add"} => Writing
    BY DEF Writing
  <2> QED
    BY <1>1, <2>1 DEF Answered
<1>3. Listed'
  <2>1. ASSUME NEW j \in DOMAIN pages \ excused
        PROVE  Filed(j)' = Owed(j)'
    <3>1. Owed(j)' = {}
      BY <1>1, <2>1 DEF Owed, Pending
    <3>2. Owed(j) = {}
      BY <1>1, <2>1 DEF Owed, Pending
    <3>3. Filed(j)' = Filed(j)
      BY DEF Filed
    <3> QED
      BY <1>1, <2>1, <3>1, <3>2, <3>3 DEF IndexInv, Listed
  <2> QED
    BY <1>1, <2>1 DEF IndexInv, Listed
<1>4. Entered' = {} /\ Entered = {} /\ Uncounted' = Uncounted
  <2>1. Entered' = {j \in live : j < 1}
    BY <1>1 DEF Entered
  <2>2. \A j \in live : ~(j < 1)
    BY <1>1, PagesAreSlots DEF IndexInv
  <2> QED
    BY <2>1, <2>2 DEF Entered, Uncounted, Writing
<1> QED
  BY <1>1, <1>2, <1>3, <1>4 DEF IndexInv, Counted

LEMMA VisitInv ==
  ASSUME IndexInv, Visit, Typed'
  PROVE  Answered' /\ Listed' /\ Counted'
<1> USE DEF Visit
<1>1. BuilderCall /\ HasHash /\ HasHash' /\ b.at = "row" /\ hash' = hash
  BY BuilderAt DEF IndexInv, HasHash
<1>2. CASE b.rows = <<>>
  <2>1. DOMAIN pages \subseteq excused /\ live \subseteq DOMAIN pages /\ (Writing => w.i \in excused)
    <3>1. Len(b.rows) = 0
      BY <1>2
    <3>2. \A j \in DOMAIN pages \ excused : j \in 1 .. 0
      BY <1>1, <3>1, BuilderFacts
    <3>3. Writing => w.i \in excused
      BY <1>1, BuilderFacts
    <3>4. live \subseteq DOMAIN pages
      BY PagesAreSlots DEF IndexInv
    <3> QED
      BY <3>2, <3>3, <3>4
  <2>2. DOMAIN pages \ excused = {} /\ ~Building' /\ b' = BIdle /\ (Writing' <=> Writing)
    <3>1. \A j \in DOMAIN pages \ excused : j \in 1 .. 0
      BY <1>1, <1>2, BuilderFacts
    <3> QED
      BY <1>2, <3>1 DEF BIdle, Building, Writing
  <2>3. Answered'
    <3>1. Writing => w.i \in excused
      BY <1>1, BuilderFacts
    <3>2. ~BuilderCall'
      BY <2>2 DEF BuilderCall, BIdle
    <3>3. w.at \in {"check", "drop", "look", "make", "add"} => Writing
      BY DEF Writing
    <3> QED
      BY <2>2, <3>1, <3>2, <3>3 DEF Answered
  <2>4. Listed'
    BY <1>1, <2>2 DEF IndexInv, Listed
  <2>5. Counted'
    <3> SUFFICES ASSUME excused = {} PROVE hash.total = Cardinality(Entered') + Uncounted'
      BY <1>1 DEF Counted
    <3>1. live = {} /\ ~Writing
      BY <1>1, <2>2, BuilderFacts, PagesAreSlots DEF IndexInv
    <3>2. Entered = {} /\ Entered' = {} /\ Uncounted = 0 /\ Uncounted' = 0
      BY <2>2, <3>1 DEF Entered, Uncounted
    <3> QED
      BY <1>1, <3>2 DEF IndexInv, Counted
  <2> QED
    BY <2>3, <2>4, <2>5
<1>3. CASE b.rows # <<>> /\ b.i \notin live
  <2>1. b' = NextRow(b.i)
    BY <1>3
  <2>2. Answered' /\ Listed'
    BY <1>1, <1>3, <2>1, BuilderMoves
  <2>3. Counted'
    <3> SUFFICES ASSUME excused = {} PROVE hash.total = Cardinality(Entered') + Uncounted'
      BY <1>1 DEF Counted
    <3>1. Entered' = Entered /\ Uncounted' = Uncounted
      BY <1>1, <1>3, <2>1, EnteredNext
    <3> QED
      BY <1>1, <3>1 DEF IndexInv, Counted
  <2> QED
    BY <2>2, <2>3
<1>4. CASE b.rows # <<>> /\ b.i \in live
  <2>1. b'.rows = b.rows /\ b'.i = b.i /\ b'.at \in {"fetch", "make"}
    BY <1>1, <1>4 DEF BuilderCall
  <2>2. BuilderCall'
    <3>1. b'.at # "idle" /\ b'.at # "copy"
      BY <2>1
    <3> HIDE DEF Visit
    <3>2. b' # BIdle /\ b' # [at |-> "copy"]
      BY <3>1 DEF BIdle
    <3> QED
      BY <3>2 DEF Typed, BuilderOK
  <2> QED
    BY <1>1, <1>4, <2>1, <2>2, BuilderStays
<1> QED
  BY <1>2, <1>3, <1>4

LEMMA MakeVisitedInv ==
  ASSUME IndexInv, MakeVisited, Typed'
  PROVE  Answered' /\ Listed' /\ Counted'
<1> USE DEF MakeVisited
<1>1. BuilderCall /\ HasHash /\ b.at = "make" /\ b.seen = {}
  BY BuilderAt DEF IndexInv, BuilderCall
<1>2. b'.rows = b.rows /\ b'.i = b.i /\ b'.at = "fetch"
  BY <1>1 DEF BuilderCall
<1>3. BuilderCall' /\ HasHash'
  BY <1>2 DEF Typed, BuilderOK, BIdle, Building
<1>4. hash'.entries = hash.entries \ SetOf(b.rows[b.i].k) /\ hash'.total = hash.total
      /\ excused \subseteq excused' /\ \A e \in SetOf(b.rows[b.i].k) : e[2] \in excused'
  BY <1>1, HashRecord DEF MakeSet, ExcuseSince, IndexInv
<1> QED
  BY <1>1, <1>2, <1>3, <1>4, BuilderStays

LEMMA FetchVisitedInv ==
  ASSUME IndexInv, FetchVisited, Typed'
  PROVE  Answered' /\ Listed' /\ Counted'
<1> USE DEF FetchVisited
<1>1. BuilderCall /\ HasHash /\ HasHash' /\ b.at = "fetch"
  BY BuilderAt DEF IndexInv, HasHash
<1>2. b'.rows = b.rows /\ b'.i = b.i /\ b'.at = "add"
  BY <1>1 DEF BuilderCall
<1>3. BuilderCall'
  BY <1>2 DEF Typed, BuilderOK, BIdle
<1> QED
  BY <1>1, <1>2, <1>3, BuilderStays

LEMMA RaiseVisitedInv ==
  ASSUME IndexInv, RaiseVisited
  PROVE  Answered' /\ Listed' /\ Counted'
<1> USE DEF RaiseVisited
<1>1. /\ BuilderCall /\ HasHash /\ HasHash' /\ b.rows # <<>> /\ ~Building' /\ hash' = hash /\ ~BuilderCall'
      /\ (Writing' <=> Writing) /\ (Writing => w.i \in excused) /\ b.i \in 1 .. Len(b.rows) /\ Len(b.rows) \in Nat
  BY BuilderAt, BuilderHasRow, BuilderRow, BuilderFacts DEF IndexInv, HasHash, BIdle, Building, BuilderCall, Writing
<1>2. \A j \in DOMAIN pages \ excused' : j \in DOMAIN pages \ excused /\ j < b.i
  BY <1>1, BuilderFacts
<1>3. Answered'
  <2>1. w.at \in {"check", "drop", "look", "make", "add"} => Writing
    BY DEF Writing
  <2> QED
    BY <1>1, <2>1 DEF Answered
<1>4. Listed'
  <2>1. ASSUME NEW j \in DOMAIN pages \ excused'
        PROVE  Filed(j)' = Owed(j)'
    <3>1. Filed(j)' = Filed(j)
      BY <1>1 DEF Filed
    <3>2. Filed(j) = IF j \in live THEN {pages[j].k} ELSE {}
      BY <1>1, <1>2, <2>1, BuilderFacts
    <3>3. Owed(j)' = IF j \in live THEN {pages[j].k} ELSE {}
      BY <1>1, <2>1 DEF Owed, Pending
    <3> QED
      BY <3>1, <3>2, <3>3
  <2> QED
    BY <1>1, <2>1 DEF IndexInv, Listed
<1>5. excused' # {}
  BY <1>1
<1> QED
  BY <1>3, <1>4, <1>5 DEF Counted

LEMMA AddVisitedInv ==
  ASSUME IndexInv, AddVisited, Typed'
  PROVE  Answered' /\ Listed' /\ Counted'
<1> USE DEF AddVisited
<1>1. /\ BuilderCall /\ HasHash /\ b.at = "add" /\ b.rows # <<>> /\ b' = NextRow(b.i)
      /\ (b.i \notin excused => b.i \in live)
  BY BuilderAt, BuilderHasRow DEF IndexInv, Answered
<1>2. /\ HasHash' /\ hash'.entries = hash.entries \cup {<<b.rows[b.i].k, b.i>>} /\ hash'.total = hash.total + 1
  <2>1. b.i \in Slots /\ b.rows[b.i].k \in hash.keys /\ TRUE \in BOOLEAN
    BY <1>1 DEF BuilderCall
  <2> QED
    BY <1>1, <2>1, AddedTyped DEF IndexInv
<1>3. Answered' /\ Listed'
  BY <1>1, <1>2, BuilderMoves
<1>4. ASSUME excused' = {} PROVE hash'.total = Cardinality(Entered') + Uncounted'
  <2>1. Entered' = Entered \cup {b.i} /\ b.i \notin Entered /\ IsFiniteSet(Entered)
        /\ Cardinality(Entered) \in Nat /\ Uncounted' = 0 /\ Uncounted = 0
    BY <1>1, <1>4, EnteredNext
  <2>2. hash.total = Cardinality(Entered)
    BY <1>1, <1>4, <2>1 DEF IndexInv, Counted
  <2>3. Cardinality(Entered') = Cardinality(Entered) + 1
    BY <2>1, FS_AddElement
  <2>4. hash'.total = Cardinality(Entered')
    BY <1>2, <2>2, <2>3
  <2>5. Uncounted' = 0 /\ Cardinality(Entered') \in Nat
    BY <2>1, <2>3
  <2> HIDE DEF AddVisited
  <2> QED
    BY <2>4, <2>5
<1> QED
  BY <1>3, <1>4 DEF Counted

LEMMA LoseVisitedInv ==
  ASSUME IndexInv, LoseVisited, Typed'
  PROVE  Answered' /\ Listed' /\ Counted'
<1> USE DEF LoseVisited
<1>1. BuilderCall /\ HasHash /\ b.rows # <<>> /\ b' = NextRow(b.i)
  BY BuilderAt, BuilderHasRow DEF IndexInv
<1>2. hash'.entries = hash.entries /\ hash'.total = hash.total + 1 /\ hash.total \in Int /\ hash'.total \in Int
  BY <1>1, HashRecord DEF IndexInv
<1>3. HasHash'
  BY <1>2, AbsentAssumption DEF HasHash, NoIndex
<1>4. Answered' /\ Listed'
  BY <1>1, <1>2, <1>3, BuilderMoves
<1>5. excused' # {}
  OBVIOUS
<1> QED
  BY <1>4, <1>5 DEF Counted

\* Steps that leave both threads and the hash index as they are.
LEMMA OthersInv ==
  ASSUME IndexInv, UNCHANGED <<pages, live, hash, w, b, excused>>
  PROVE  Answered' /\ Listed' /\ Counted'
BY DEF IndexInv, Answered, Listed, Counted, HasHash, Writing, Building, BuilderCall, Filed, Owed, Pending,
       Entered, Uncounted

LEMMA DropIndexInv ==
  ASSUME DropIndex
  PROVE  Answered' /\ Listed' /\ Counted'
BY DEF DropIndex, HasHash, Answered, Listed, Counted

LEMMA InitInv == Init => IndexInv
BY InitTyped DEF Init, IndexInv, HasHash, Answered, Listed, Counted

LEMMA NextInv ==
  ASSUME IndexInv, [Next]_vars
  PROVE  IndexInv'
<1>t. Typed'
  BY NextTyped DEF IndexInv
<1> DEFINE Rest == Answered /\ Listed /\ Counted
<1>1. ASSUME NEW row \in Given, StartInsert(row) PROVE Rest'
  BY <1>1, StartInsertInv
<1>2. ASSUME NEW row \in Given, NEW i \in live, StartUpdate(i, row) PROVE Rest'
  BY <1>2, StartUpdateInv
<1>3. ASSUME NEW i \in live, StartDelete(i) PROVE Rest'
  BY <1>3, StartDeleteInv
<1>4. WritePage \/ PassIndex \/ EnterIndex \/ CheckSet \/ DropKey \/ Uncount => Rest'
  BY <1>t, WritePageInv, PassIndexInv, EnterIndexInv, CheckSetInv, DropKeyInv, UncountInv
<1>5. LookKey \/ MakeKey \/ AddEntry \/ UpdateRange => Rest'
  BY <1>t, LookKeyInv, MakeKeyInv, AddEntryInv, UpdateRangeInv
<1>6. CreateIndex \/ CopySlab \/ Visit \/ MakeVisited \/ FetchVisited => Rest'
  BY <1>t, CreateIndexInv, CopySlabInv, VisitInv, MakeVisitedInv, FetchVisitedInv
<1>7. RaiseVisited \/ AddVisited \/ LoseVisited \/ DropIndex => Rest'
  BY <1>t, RaiseVisitedInv, AddVisitedInv, LoseVisitedInv, DropIndexInv
<1>8. CreateRangeIndex \/ DropRangeIndex \/ UNCHANGED vars => Rest'
  BY OthersInv DEF CreateRangeIndex, DropRangeIndex, vars
<1>9. Rest'
  BY <1>1, <1>2, <1>3, <1>4, <1>5, <1>6, <1>7, <1>8 DEF Next
<1> QED
  BY <1>t, <1>9 DEF IndexInv

\* Wherever both threads are, the index lists each row that is answered for
\* under the keys that it should at that moment, and counts what it should.
THEOREM IndexInvariant == Spec => []IndexInv
<1>1. IndexInv /\ [Next]_vars => IndexInv'
  BY NextInv
<1> QED
  BY <1>1, InitInv, PTL DEF Spec

\* core.py find: once both threads are idle, a lookup in the hash index gives
\* the rows that a scan gives, but for those the overlap leaves out.
THEOREM FindCorrect == Spec => []FindTrue
<1>1. ASSUME IndexInv PROVE FindTrue
  <2> SUFFICES ASSUME Quiet, HasHash
               PROVE  /\ \A x \in Keys :
                           HashLookup(Indexed, "k", x) \ excused = {i \in live : pages[i].k = x} \ excused
                      /\ excused = {} => hash.total = Cardinality(live)
    BY DEF FindTrue
  <2>1. ASSUME NEW x \in Keys, NEW i, i \notin excused
        PROVE  i \in HashLookup(Indexed, "k", x) <=> i \in live /\ pages[i].k = x
    <3>1. Indexed.hash["k"] = hash
      BY DEF Indexed
    <3>2. i \in HashLookup(Indexed, "k", x) <=> \E e \in hash.entries : e[1] = x /\ e[2] = i
      BY <3>1 DEF HashLookup
    <3>3. (\E e \in hash.entries : e[1] = x /\ e[2] = i) <=> <<x, i>> \in hash.entries
      BY <1>1 DEF IndexInv, Typed
    <3>4. <<x, i>> \in hash.entries => i \in DOMAIN pages
      BY <1>1 DEF IndexInv, Listed
    <3>5. i \in DOMAIN pages => Filed(i) = IF i \in live THEN {pages[i].k} ELSE {}
      BY <1>1, <2>1 DEF IndexInv, Listed, Owed, Pending, Quiet
    <3>6. i \in live => i \in DOMAIN pages
      BY <1>1 DEF IndexInv, Typed
    <3> QED
      BY <3>2, <3>3, <3>4, <3>5, <3>6 DEF Filed
  <2>2. \A x \in Keys : HashLookup(Indexed, "k", x) \ excused = {i \in live : pages[i].k = x} \ excused
    BY <2>1
  <2>3. excused = {} => hash.total = Cardinality(live)
    BY <1>1, LiveFinite DEF IndexInv, Counted, Entered, Uncounted, Quiet, Building
  <2> QED
    BY <2>2, <2>3
<1> QED
  BY <1>1, IndexInvariant, PTL

-----------------------------------------------------------------------------
(* The range index.                                                        *)

\* The values under which the range index lists a slot, and those under which
\* it should, wherever the writer is.
Ranked(i) == {x \in ToSet(Values) : <<x, i>> \in range}
OwedValues(i) ==
  IF Writing /\ i = w.i THEN (IF w.old = Absent THEN {} ELSE {w.old.v})
  ELSE IF i \in live THEN {pages[i].v} ELSE {}

RangeTrue == range # Absent => \A i \in Slots : Ranked(i) = OwedValues(i)

\* Steps of the writer inside a call, and of the builder.
LEMMA RangeStays ==
  ASSUME RangeTrue, UNCHANGED <<range, live>>, Writing' <=> Writing,
         Writing => w'.i = w.i /\ w'.old = w.old,
         \A i \in live : (Writing /\ i = w.i) \/ pages'[i] = pages[i]
  PROVE  RangeTrue'
<1>1. ASSUME NEW i \in Slots PROVE Ranked(i)' = Ranked(i) /\ OwedValues(i)' = OwedValues(i)
  <2>1. Ranked(i)' = Ranked(i)
    BY DEF Ranked
  <2>2. OwedValues(i)' = OwedValues(i)
    BY DEF OwedValues
  <2> QED
    BY <2>1, <2>2
<1> QED
  BY <1>1 DEF RangeTrue

LEMMA StartInsertRange ==
  ASSUME IndexInv, RangeTrue, NEW row \in Given, StartInsert(row)
  PROVE  RangeTrue'
<1> USE DEF StartInsert
<1>1. /\ Writing' /\ ~Writing /\ w'.i = Len(pages) + 1 /\ w'.old = Absent
      /\ Len(pages) + 1 \notin live
      /\ \A i \in live : pages'[i] = pages[i]
  BY PagesAreSlots DEF IndexInv, Typed, Writing
<1> HIDE DEF StartInsert
<1>2. ASSUME NEW i \in Slots PROVE Ranked(i)' = Ranked(i) /\ OwedValues(i)' = OwedValues(i)
  <2>1. Ranked(i)' = Ranked(i)
    BY DEF Ranked, StartInsert
  <2>2. OwedValues(i)' = OwedValues(i)
    <3>1. CASE i = Len(pages) + 1
      BY <1>1, <3>1 DEF OwedValues
    <3>2. CASE i # Len(pages) + 1
      <4>1. i \in live' <=> i \in live
        BY <3>2 DEF StartInsert
      <4> QED
        BY <1>1, <3>2, <4>1 DEF OwedValues
    <3> QED
      BY <3>1, <3>2
  <2> QED
    BY <2>1, <2>2
<1> QED
  BY <1>2 DEF RangeTrue, StartInsert

LEMMA StartUpdateRange ==
  ASSUME IndexInv, RangeTrue, NEW i \in live, NEW row \in Given, StartUpdate(i, row)
  PROVE  RangeTrue'
<1> USE DEF StartUpdate
<1>1. /\ Writing' /\ ~Writing /\ w'.i = i /\ w'.old = pages[i] /\ pages[i] # Absent
      /\ \A j \in live : j # i => pages'[j] = pages[j]
  BY PagesAreSlots, AbsentAssumption DEF IndexInv, Typed, Writing
<1>2. ASSUME NEW j \in Slots PROVE Ranked(j)' = Ranked(j) /\ OwedValues(j)' = OwedValues(j)
  <2>1. Ranked(j)' = Ranked(j)
    BY DEF Ranked
  <2>2. OwedValues(j)' = OwedValues(j)
    BY <1>1 DEF OwedValues
  <2> QED
    BY <2>1, <2>2
<1> QED
  BY <1>2 DEF RangeTrue

LEMMA StartDeleteRange ==
  ASSUME IndexInv, RangeTrue, NEW i \in live, StartDelete(i)
  PROVE  RangeTrue'
<1> USE DEF StartDelete
<1>1. /\ Writing' /\ ~Writing /\ w'.i = i /\ w'.old = pages[i] /\ pages[i] # Absent
  BY PagesAreSlots, AbsentAssumption DEF IndexInv, Typed, Writing
<1>2. ASSUME NEW j \in Slots PROVE Ranked(j)' = Ranked(j) /\ OwedValues(j)' = OwedValues(j)
  <2>1. Ranked(j)' = Ranked(j)
    BY DEF Ranked
  <2>2. OwedValues(j)' = OwedValues(j)
    BY <1>1 DEF OwedValues
  <2> QED
    BY <2>1, <2>2
<1> QED
  BY <1>2 DEF RangeTrue

LEMMA UpdateRangeRange ==
  ASSUME IndexInv, RangeTrue, UpdateRange
  PROVE  RangeTrue'
<1> USE DEF UpdateRange
<1>1. /\ WriterCall /\ Writing /\ ~Writing' /\ (w.i \in live <=> w.op # "delete")
      /\ IF w.op = "insert" THEN w.old = Absent ELSE w.old \in Row /\ w.old # Absent
      /\ IF w.op = "delete" THEN w.new = Absent
         ELSE w.new \in Row /\ w.new # Absent /\ w.new.v \in ToSet(Values) /\ pages[w.i].v = w.new.v
  BY WriterAt, RowFields, AbsentAssumption DEF IndexInv, WriterCall, Writing, WIdle
<1> SUFFICES ASSUME range' # Absent, NEW i \in Slots
             PROVE  Ranked(i)' = OwedValues(i)'
  BY DEF RangeTrue
<1>2. range # Absent
  OBVIOUS
<1>3. Ranked(i) = OwedValues(i)
  BY <1>2 DEF RangeTrue
<1>4. OwedValues(i)' = IF i \in live THEN {pages[i].v} ELSE {}
  BY <1>1 DEF OwedValues
<1>5. CASE i # w.i
  <2>1. Ranked(i)' = Ranked(i)
    BY <1>2, <1>5 DEF Ranked
  <2> QED
    BY <1>1, <1>3, <1>4, <1>5, <2>1 DEF OwedValues
<1>6. CASE i = w.i
  <2>1. Ranked(i) = IF w.old = Absent THEN {} ELSE {w.old.v}
    BY <1>1, <1>3, <1>6 DEF OwedValues
  <2>2. \A x \in ToSet(Values) :
          <<x, i>> \in range' <=>
            (<<x, i>> \in range /\ ~(w.old # Absent /\ x = w.old.v)) \/ (w.new # Absent /\ x = w.new.v)
    BY <1>2, <1>6
  <2>3. Ranked(i)' = IF w.new = Absent THEN {} ELSE {w.new.v}
    BY <1>1, <2>1, <2>2 DEF Ranked
  <2> QED
    BY <1>1, <1>4, <1>6, <2>3
<1> QED
  BY <1>5, <1>6

LEMMA CreateRangeIndexRange ==
  ASSUME IndexInv, CreateRangeIndex
  PROVE  RangeTrue'
<1> USE DEF CreateRangeIndex
<1>1. ~Writing' /\ ~Writing /\ \A i \in live : pages[i].v \in ToSet(Values)
  BY PagesAreSlots, RowFields DEF IndexInv, Writing
<1>2. ASSUME NEW i \in Slots PROVE Ranked(i)' = OwedValues(i)'
  <2>1. \A x \in ToSet(Values) : <<x, i>> \in range' <=> i \in live /\ x = pages[i].v
    OBVIOUS
  <2>2. OwedValues(i)' = IF i \in live THEN {pages[i].v} ELSE {}
    BY <1>1 DEF OwedValues
  <2> QED
    BY <1>1, <2>1, <2>2 DEF Ranked
<1> QED
  BY <1>2 DEF RangeTrue

LEMMA NextRange ==
  ASSUME IndexInv, RangeTrue, [Next]_vars
  PROVE  RangeTrue'
<1>1. ASSUME NEW row \in Given, StartInsert(row) PROVE RangeTrue'
  BY <1>1, StartInsertRange
<1>2. ASSUME NEW row \in Given, NEW i \in live, StartUpdate(i, row) PROVE RangeTrue'
  BY <1>2, StartUpdateRange
<1>3. ASSUME NEW i \in live, StartDelete(i) PROVE RangeTrue'
  BY <1>3, StartDeleteRange
<1>4. UpdateRange \/ CreateRangeIndex => RangeTrue'
  BY UpdateRangeRange, CreateRangeIndexRange
<1>5. DropRangeIndex => RangeTrue'
  BY DEF DropRangeIndex, RangeTrue
<1>6. WritePage => RangeTrue'
  <2> SUFFICES ASSUME WritePage PROVE RangeTrue'
    OBVIOUS
  <2>1. WriterCall /\ w'.i = w.i /\ w'.old = w.old /\ Writing /\ Writing'
    BY WriterAt DEF WritePage, WriterCall, IndexInv, Writing
  <2>2. \A i \in live : i = w.i \/ pages'[i] = pages[i]
    BY PagesAreSlots DEF WritePage, IndexInv
  <2> QED
    BY <2>1, <2>2, RangeStays DEF WritePage
<1>7. PassIndex \/ EnterIndex \/ CheckSet \/ DropKey \/ Uncount \/ LookKey \/ MakeKey \/ AddEntry => RangeTrue'
  <2> SUFFICES ASSUME PassIndex \/ EnterIndex \/ CheckSet \/ DropKey \/ Uncount \/ LookKey \/ MakeKey \/ AddEntry
               PROVE RangeTrue'
    OBVIOUS
  <2>1. w.at # "idle" /\ UNCHANGED <<pages, range, live>>
    BY DEF PassIndex, EnterIndex, CheckSet, DropKey, Uncount, LookKey, MakeKey, AddEntry
  <2>2. WriterCall
    BY <2>1, WriterAt DEF IndexInv
  <2>3. w'.i = w.i /\ w'.old = w.old /\ w'.at # "idle"
    BY <2>2 DEF WriterCall, PassIndex, EnterIndex, CheckSet, DropKey, Uncount, LookKey, MakeKey, AddEntry, AfterOld
  <2> QED
    BY <2>1, <2>3, RangeStays DEF Writing
<1>8. CreateIndex \/ CopySlab \/ Visit \/ MakeVisited \/ FetchVisited \/ RaiseVisited \/ AddVisited \/ LoseVisited
      \/ DropIndex \/ UNCHANGED vars => RangeTrue'
  <2>1. CreateIndex \/ CopySlab \/ Visit \/ MakeVisited \/ FetchVisited \/ RaiseVisited \/ AddVisited \/ LoseVisited
        \/ DropIndex \/ UNCHANGED vars => UNCHANGED <<pages, live, range, w>>
    BY DEF CreateIndex, CopySlab, Visit, MakeVisited, FetchVisited, RaiseVisited, AddVisited, LoseVisited, DropIndex, vars
  <2> QED
    BY <2>1, RangeStays DEF Writing
<1> QED
  BY <1>1, <1>2, <1>3, <1>4, <1>5, <1>6, <1>7, <1>8 DEF Next


\* A range index lists every live row under its value and nothing else, but for
\* the row of a call under way, which it lists as it was.
THEOREM RangeIndexInvariant == Spec => [](IndexInv /\ RangeTrue)
<1>1. Init => RangeTrue
  BY DEF Init, RangeTrue
<1>2. IndexInv /\ RangeTrue /\ [Next]_vars => (IndexInv /\ RangeTrue)'
  BY NextInv, NextRange
<1> QED
  BY <1>1, <1>2, InitInv, PTL DEF Spec

-----------------------------------------------------------------------------
(* Lists of indices.                                                       *)

\* What a filter leaves, each element as often as it was.
LEMMA SelectedElements ==
  ASSUME NEW S, NEW s \in Seq(S), NEW T
  PROVE  /\ Selected(s, T) \in Seq(S)
         /\ \A x : x \in ToSet(Selected(s, T)) <=> x \in ToSet(s) /\ x \in T
         /\ Once(s) => Once(Selected(s, T))
<1> DEFINE parts == [n \in 1 .. Len(s) |-> IF s[n] \in T THEN <<s[n]>> ELSE <<>>]
<1>1. /\ Len(s) \in Nat /\ DOMAIN s = 1 .. Len(s) /\ Len(parts) = Len(s)
      /\ \A n \in 1 .. Len(s) : s[n] \in S /\ parts[n] = IF s[n] \in T THEN <<s[n]>> ELSE <<>>
  OBVIOUS
<1>2. parts \in Seq(Seq(S))
  <2>1. \A n \in 1 .. Len(s) : (IF s[n] \in T THEN <<s[n]>> ELSE <<>>) \in Seq(S)
    BY <1>1
  <2> QED
    BY <1>1, <2>1
<1>3. Selected(s, T) = FlattenSeq(parts)
  BY DEF Selected
<1> HIDE DEF parts
<1>4. \A n \in 1 .. Len(parts) : \A x : x \in ToSet(parts[n]) <=> s[n] \in T /\ x = s[n]
  <2>1. ASSUME NEW n \in 1 .. Len(parts), NEW x PROVE x \in ToSet(parts[n]) <=> s[n] \in T /\ x = s[n]
    <3>1. CASE s[n] \in T
      <4>1. parts[n] = <<s[n]>>
        BY <1>1, <3>1
      <4> QED
        BY <3>1, <4>1 DEF ToSet
    <3>2. CASE s[n] \notin T
      <4>1. parts[n] = <<>>
        BY <1>1, <3>2
      <4> QED
        BY <3>2, <4>1 DEF ToSet
    <3> QED
      BY <3>1, <3>2
  <2> QED
    BY <2>1
<1>5. \A x : x \in ToSet(Selected(s, T)) <=> x \in ToSet(s) /\ x \in T
  <2>1. \A x : x \in ToSet(FlattenSeq(parts)) <=> \E n \in 1 .. Len(parts) : x \in ToSet(parts[n])
    BY <1>2, FlattenElements
  <2>2. \A x : x \in ToSet(s) <=> \E n \in 1 .. Len(s) : x = s[n]
    BY <1>1 DEF ToSet
  <2>3. \A x : (\E n \in 1 .. Len(s) : x = s[n]) /\ x \in T <=> \E n \in 1 .. Len(s) : s[n] \in T /\ x = s[n]
    OBVIOUS
  <2>4. \A x : x \in ToSet(FlattenSeq(parts)) <=> \E n \in 1 .. Len(s) : s[n] \in T /\ x = s[n]
    BY <1>1, <1>4, <2>1
  <2> QED
    BY <1>3, <2>2, <2>3, <2>4
<1>6. ASSUME Once(s) PROVE Once(FlattenSeq(parts))
  <2>1. \A a \in 1 .. Len(parts) : Once(parts[a])
    <3>1. \A a \in 1 .. Len(parts) : parts[a] = <<s[a]>> \/ parts[a] = <<>>
      BY <1>1
    <3> QED
      BY <3>1 DEF Once
  <2>2. ASSUME NEW a \in 1 .. Len(parts), NEW z \in 1 .. Len(parts), a # z
        PROVE  ToSet(parts[a]) \cap ToSet(parts[z]) = {}
    <3>1. s[a] # s[z]
      <4>1. a < z \/ z < a
        BY <1>1, <2>2
      <4> QED
        BY <1>1, <1>6, <4>1 DEF Once
    <3> QED
      BY <1>4, <3>1
  <2> QED
    BY <1>2, <2>1, <2>2, FlattenOnce
<1>7. FlattenSeq(parts) \in Seq(S)
  BY <1>2, FlattenOrder
<1> QED
  BY <1>3, <1>5, <1>6, <1>7

\* All indices of a table.
LEMMA AllElements ==
  ASSUME NEW db, Len(db.rows) \in Nat
  PROVE  /\ All(db) \in Seq(1 .. Len(db.rows)) /\ Once(All(db))
         /\ \A i : i \in ToSet(All(db)) <=> i \in 1 .. Len(db.rows)
<1> DEFINE m == Len(db.rows)
<1>1. All(db) = [n \in 1 .. m |-> n] /\ m \in Nat
  BY DEF All
<1> HIDE DEF m
<1>2. Len(All(db)) = m /\ DOMAIN All(db) = 1 .. m /\ All(db) \in Seq(1 .. m) /\ \A n \in 1 .. m : All(db)[n] = n
  BY <1>1
<1>3. Once(All(db)) /\ \A i : i \in ToSet(All(db)) <=> i \in 1 .. m
  BY <1>2 DEF Once, ToSet
<1> QED
  BY <1>2, <1>3 DEF m

\* Those of a set, each once.
LEMMA InOrderElements ==
  ASSUME NEW db, Len(db.rows) \in Nat, NEW X
  PROVE  /\ InOrder(db, X) \in Seq(1 .. Len(db.rows)) /\ Once(InOrder(db, X))
         /\ \A i : i \in ToSet(InOrder(db, X)) <=> i \in 1 .. Len(db.rows) /\ i \in X
BY AllElements, SelectedElements DEF InOrder

\* The rows that the predicate leaves.
LEMMA KeptElements ==
  ASSUME NEW db, NEW q, NEW S, NEW indices \in Seq(S)
  PROVE  /\ Kept(db, q, indices) \in Seq(S)
         /\ Once(indices) => Once(Kept(db, q, indices))
         /\ \A i : i \in ToSet(Kept(db, q, indices)) <=>
              i \in ToSet(indices) /\ i \in DOMAIN db.rows /\ db.rows[i] # Absent /\ Where(q, db.rows[i])
<1> DEFINE T == {i \in DOMAIN db.rows : db.rows[i] # Absent /\ Where(q, db.rows[i])}
<1>1. Kept(db, q, indices) = Selected(indices, T)
  BY DEF Kept
<1>2. \A i : i \in T <=> i \in DOMAIN db.rows /\ db.rows[i] # Absent /\ Where(q, db.rows[i])
  OBVIOUS
<1> HIDE DEF T
<1> QED
  BY <1>1, <1>2, SelectedElements


-----------------------------------------------------------------------------
(* Plans.                                                                  *)

\* A plan scans, or is of a column with an index whose condition it stands for.
LEMMA PlanIs ==
  ASSUME NEW db, NEW conds
  PROVE  \/ Plan(db, conds) = Scan
         \/ /\ conds # Everything
            /\ \E c \in RangeColumns(db, conds) : Plan(db, conds) = RangePlan(c, conds[c])
         \/ /\ conds # Everything
            /\ \E c \in HashColumns(db, conds) :
                 Plan(db, conds) = [mode |-> "hash", column |-> c, value |-> conds[c][1][2]]
BY DEF Plan

\* Without indexes every plan scans.
LEMMA BarePlan ==
  ASSUME NEW db, NEW conds, DOMAIN db.range = {}, DOMAIN db.hash = {}
  PROVE  Plan(db, conds) = Scan
BY PlanIs DEF RangeColumns, HashColumns

\* The pairs of a condition with some operators.
LEMMA WithElements ==
  ASSUME NEW spec \in Seq(Operators \X Int), NEW ops
  PROVE  /\ With(spec, ops) \in Seq(Operators \X Int)
         /\ \A p : p \in ToSet(With(spec, ops)) <=> p \in ToSet(spec) /\ p[1] \in ops
<1> DEFINE T == {s \in ToSet(spec) : s[1] \in ops}
<1>1. With(spec, ops) = Selected(spec, T)
  BY DEF With
<1>2. \A p : p \in T <=> p \in ToSet(spec) /\ p[1] \in ops
  OBVIOUS
<1> HIDE DEF T
<1> QED
  BY <1>1, <1>2, SelectedElements

\* The bounds of a range plan are pairs of its condition, or none.
LEMMA RangePlanIs ==
  ASSUME NEW c, NEW spec \in Seq(Operators \X Int), spec # <<>>, OpsOf(spec) \subseteq RangeOps
  PROVE  \E low, high :
           /\ RangePlan(c, spec) = [mode |-> "range", column |-> c, low |-> low, high |-> high]
           /\ low = NoBound \/ low \in ToSet(spec)
           /\ high = NoBound \/ high \in ToSet(spec)
<1> DEFINE lows == With(spec, LowOps)
           highs == With(spec, HighOps)
<1>1. /\ lows \in Seq(Operators \X Int) /\ highs \in Seq(Operators \X Int)
      /\ \A p : p \in ToSet(lows) <=> p \in ToSet(spec) /\ p[1] \in LowOps
      /\ \A p : p \in ToSet(highs) <=> p \in ToSet(spec) /\ p[1] \in HighOps
  BY WithElements
<1>2. RangePlan(c, spec) =
        CASE lows # <<>> /\ highs # <<>> ->
               [mode |-> "range", column |-> c, low |-> Last(lows), high |-> Last(highs)]
          [] lows # <<>> /\ highs = <<>> -> [mode |-> "range", column |-> c, low |-> Head(lows), high |-> NoBound]
          [] lows = <<>> /\ highs # <<>> -> [mode |-> "range", column |-> c, low |-> NoBound, high |-> Head(highs)]
  BY DEF RangePlan
<1>3. lows # <<>> \/ highs # <<>>
  <2>1. 1 \in 1 .. Len(spec) /\ spec[1] \in ToSet(spec) /\ spec[1][1] \in OpsOf(spec)
    BY DEF ToSet, OpsOf
  <2>2. spec[1] \in ToSet(lows) \/ spec[1] \in ToSet(highs)
    BY <1>1, <2>1 DEF RangeOps, LowOps, HighOps
  <2>3. \A p : p \notin ToSet(<<>>)
    BY DEF ToSet
  <2> HIDE DEF lows, highs
  <2> QED
    BY <2>2, <2>3
<1> HIDE DEF lows, highs
<1>4. ASSUME NEW s \in Seq(Operators \X Int), s # <<>> PROVE Last(s) \in ToSet(s) /\ Head(s) \in ToSet(s)
  <2>1. Len(s) \in 1 .. Len(s) /\ 1 \in 1 .. Len(s) /\ Head(s) = s[1] /\ Last(s) = s[Len(s)] /\ DOMAIN s = 1 .. Len(s)
    BY <1>4 DEF Last
  <2> QED
    BY <2>1 DEF ToSet
<1>5. CASE lows # <<>> /\ highs # <<>>
  <2> DEFINE low == Last(lows)
             high == Last(highs)
  <2>1. low \in ToSet(spec) /\ high \in ToSet(spec)
    BY <1>1, <1>4, <1>5
  <2>2. RangePlan(c, spec) = [mode |-> "range", column |-> c, low |-> low, high |-> high]
    BY <1>2, <1>5
  <2> HIDE DEF low, high
  <2> QED
    BY <2>1, <2>2
<1>6. CASE lows # <<>> /\ highs = <<>>
  <2>1. Head(lows) \in ToSet(spec)
    BY <1>1, <1>4, <1>6
  <2>2. RangePlan(c, spec) = [mode |-> "range", column |-> c, low |-> Head(lows), high |-> NoBound]
    BY <1>2, <1>6
  <2> QED
    BY <2>1, <2>2
<1>7. CASE lows = <<>> /\ highs # <<>>
  <2>1. Head(highs) \in ToSet(spec)
    BY <1>1, <1>4, <1>7
  <2>2. RangePlan(c, spec) = [mode |-> "range", column |-> c, low |-> NoBound, high |-> Head(highs)]
    BY <1>2, <1>7
  <2> QED
    BY <2>1, <2>2
<1> QED
  BY <1>3, <1>5, <1>6, <1>7

\* So what meets the condition lies within them.
LEMMA MeetsWithin ==
  ASSUME NEW conds, Conditions(conds), NEW c \in DOMAIN conds, NEW row, Meets(row, conds), NEW plan,
         plan.low = NoBound \/ plan.low \in ToSet(conds[c]),
         plan.high = NoBound \/ plan.high \in ToSet(conds[c])
  PROVE  Within(row[c], plan)
<1>1. conds[c] \in Seq(Operators \X Int)
  BY DEF Conditions
<1>2. ASSUME NEW p \in ToSet(conds[c]) PROVE Compare(p[1], row[c], p[2])
  <2>1. PICK n \in 1 .. Len(conds[c]) : p = conds[c][n]
    BY <1>1 DEF ToSet
  <2>2. Compare(conds[c][n][1], row[c], conds[c][n][2])
    BY <2>1 DEF Meets
  <2> QED
    BY <2>1, <2>2
<1> QED
  BY <1>2 DEF Within


-----------------------------------------------------------------------------
(* The table with its indexes, and without.                                *)

LEMMA Databases ==
  ASSUME IndexInv
  PROVE  /\ Len(pages) \in Nat /\ DOMAIN pages = 1 .. Len(pages) /\ Len(pages) <= MaxRows
         /\ \A db \in {Indexed, Bare} :
              /\ db.rows = Visible /\ Len(db.rows) = Len(pages) /\ DOMAIN db.rows = DOMAIN pages
              /\ \A i \in DOMAIN pages : db.rows[i] # Absent <=> i \in live
              /\ \A i \in live : i \in DOMAIN pages /\ pages[i] \in Row /\ db.rows[i] = pages[i]
         /\ DOMAIN Bare.range = {} /\ DOMAIN Bare.hash = {}
         /\ DOMAIN Indexed.hash = IF HasHash THEN {"k"} ELSE {}
         /\ HasHash => Indexed.hash["k"] = hash
         /\ DOMAIN Indexed.range = IF range = Absent THEN {} ELSE {"v"}
         /\ range # Absent => Indexed.range["v"] = range
<1>1. /\ Len(pages) \in Nat /\ DOMAIN pages = 1 .. Len(pages) /\ Len(pages) <= MaxRows
      /\ \A i \in DOMAIN pages : pages[i] \in Row /\ pages[i] # Absent
      /\ live \subseteq DOMAIN pages
  BY PagesAreSlots, AbsentAssumption DEF IndexInv, Typed
<1>2. /\ Len(Visible) = Len(pages) /\ DOMAIN Visible = DOMAIN pages
      /\ \A i \in DOMAIN pages : Visible[i] = IF i \in live THEN pages[i] ELSE Absent
  BY <1>1 DEF Visible
<1>3. Indexed.rows = Visible /\ Bare.rows = Visible
  BY DEF Indexed, Bare
<1>4. DOMAIN Bare.range = {} /\ DOMAIN Bare.hash = {}
  BY DEF Indexed, Bare
<1>5. /\ DOMAIN Indexed.hash = IF HasHash THEN {"k"} ELSE {}
      /\ HasHash => Indexed.hash["k"] = hash
      /\ DOMAIN Indexed.range = IF range = Absent THEN {} ELSE {"v"}
      /\ range # Absent => Indexed.range["v"] = range
  BY DEF Indexed
<1> QED
  BY <1>1, <1>2, <1>3, <1>4, <1>5

\* What execute, limit and order aside, leaves of a list of indices.
LEMMA KeptRows ==
  ASSUME IndexInv, NEW db \in {Indexed, Bare}, NEW q, NEW indices \in Seq(DOMAIN pages)
  PROVE  /\ Kept(db, q, indices) \in Seq(DOMAIN pages)
         /\ Once(indices) => Once(Kept(db, q, indices))
         /\ \A i : i \in ToSet(Kept(db, q, indices)) <=> i \in ToSet(indices) /\ i \in live /\ Where(q, pages[i])
<1>1. /\ DOMAIN db.rows = DOMAIN pages /\ \A i \in DOMAIN pages : db.rows[i] # Absent <=> i \in live
      /\ \A i \in live : i \in DOMAIN pages /\ db.rows[i] = pages[i]
  BY Databases
<1>2. /\ Kept(db, q, indices) \in Seq(DOMAIN pages)
      /\ Once(indices) => Once(Kept(db, q, indices))
      /\ \A i : i \in ToSet(Kept(db, q, indices)) <=>
           i \in ToSet(indices) /\ i \in DOMAIN db.rows /\ db.rows[i] # Absent /\ Where(q, db.rows[i])
  BY KeptElements
<1> QED
  BY <1>1, <1>2

\* What the builder makes is built.
LEMMA BuilderBuilds ==
  /\ Built(AnyRow)
  /\ \A q, conds : Built(q) /\ Conditions(conds) => Built(Filter(q, conds)) /\ Built(WhereFn(q, conds))
<1>1. Built(AnyRow)
  BY DEF Built, AnyRow
<1>2. ASSUME NEW q, NEW conds, Built(q), Conditions(conds)
      PROVE  Built(Filter(q, conds)) /\ Built(WhereFn(q, conds))
  <2> DEFINE where == q.where
             planned == q.conds
             Query(x, y) == [where |-> x, conds |-> y, order |-> Absent, limit |-> -1, offset |-> 0]
  <2>1. q = Query(where, planned)
    BY <1>2 DEF Built, AnyRow
  <2> HIDE DEF where, planned
  <2>a. ASSUME NEW x, NEW y, y = Everything \/ (y \in x /\ Conditions(y))
        PROVE  Built(Query(x, y))
    <3> DEFINE made == Query(x, y)
    <3>1. made = [where |-> x, conds |-> y, order |-> Absent, limit |-> -1, offset |-> 0]
      OBVIOUS
    <3>2. made.where = x /\ made.conds = y
      OBVIOUS
    <3> HIDE DEF made
    <3>3. Built(made)
      BY <2>a, <3>1, <3>2, Zenon DEF Built
    <3> QED
      BY <3>3, Zenon DEF made
  <2>2. Built(WhereFn(q, conds))
    <3>1. WhereFn(q, conds) = [q EXCEPT !.where = where \cup {conds}, !.conds = Everything]
      BY Zenon DEF WhereFn, where
    <3>2. WhereFn(q, conds) = Query(where \cup {conds}, Everything)
      BY ONLY <2>1, <3>1
    <3> HIDE DEF Query
    <3> QED
      BY <2>a, <3>2, Zenon
  <2> DEFINE merged == Merged(q.conds, conds)
  <2>3. Conditions(merged)
    <3>1. CASE q.conds = Everything
      BY <1>2, <3>1 DEF Merged
    <3>2. CASE q.conds # Everything
      <4>1. Conditions(q.conds)
        BY <1>2, <3>2 DEF Built
      <4> DEFINE D == DOMAIN q.conds \cup DOMAIN conds
      <4>2. merged = [c \in D |-> IF c \in DOMAIN conds THEN conds[c] ELSE q.conds[c]]
        BY <3>2 DEF Merged
      <4>3. DOMAIN merged = D /\ merged \in [D -> Seq(Operators \X Int)]
        BY <1>2, <4>1, <4>2 DEF Conditions
      <4> QED
        BY <4>3 DEF Conditions
    <3> QED
      BY <3>1, <3>2
  <2>4. Filter(q, conds) = Query(where \cup {merged}, merged)
    <3>1. q.conds = planned
      BY <2>1
    <3>2. merged = Merged(planned, conds)
      BY <3>1
    <3>3. Filter(q, conds) = [q EXCEPT !.where = where \cup {merged}, !.conds = merged]
      BY <3>1, Zenon DEF Filter, where
    <3> HIDE DEF merged
    <3> QED
      BY ONLY <2>1, <3>3
  <2> HIDE DEF merged, Query
  <2>5. Built(Filter(q, conds))
    BY <2>3, <2>4, <2>a
  <2> QED
    BY <2>2, <2>5
<1> QED
  BY <1>1, <1>2

\* The fields of a query.
LEMMA BuiltFields ==
  ASSUME NEW q, Built(q)
  PROVE  q = [where |-> q.where, conds |-> q.conds, order |-> Absent, limit |-> -1, offset |-> 0]
BY DEF Built

\* The indices that execute goes through.
Listing(db, q) == LET plan == Plan(db, q.conds) IN IF plan = Scan THEN All(db) ELSE Candidates(db, plan)

\* Without limit and order the answer is what is left of them.
LEMMA WholeAnswer ==
  ASSUME IndexInv, NEW db \in {Indexed, Bare}, NEW q, Built(q), Listing(db, q) \in Seq(DOMAIN pages)
  PROVE  Execute(db, q) = Kept(db, q, Listing(db, q))
<1> DEFINE kept == Kept(db, q, Listing(db, q))
<1>1. kept \in Seq(DOMAIN pages)
  <2> DEFINE listing == Listing(db, q)
  <2> HIDE DEF listing
  <2>1. listing \in Seq(DOMAIN pages) => Kept(db, q, listing) \in Seq(DOMAIN pages)
    BY KeptRows
  <2> QED
    BY <2>1 DEF listing
<1>2. Execute(db, q) = Sliced(q, kept)
  <2>1. q.order = Absent /\ q.limit = -1
    BY BuiltFields
  <2> QED
    BY <2>1 DEF Execute, Listing, Finish
<1> HIDE DEF kept
<1>3. Len(kept) \in Nat /\ q.limit = -1 /\ q.offset = 0
  BY <1>1, BuiltFields
<1>4. Sliced(q, kept) = SubSeq(kept, 1, Len(kept))
  BY <1>3 DEF Sliced
<1>5. SubSeq(kept, 1, Len(kept)) = kept
  BY <1>1, SubSeqFull
<1>6. Execute(db, q) = kept
  BY <1>2, <1>4, <1>5
<1> QED
  BY <1>6 DEF kept

\* Values are distinct.
LEMMA ValuesOnce == Values \in Seq(Int) /\ Once(Values)
BY ValuesAssumption DEF Once

\* What the range index gives, each row once.
LEMMA RangeListed ==
  ASSUME IndexInv, RangeTrue, Quiet, range # Absent, NEW plan, plan.column = "v"
  PROVE  /\ RangeLookup(Indexed, plan) \in Seq(DOMAIN pages) /\ Once(RangeLookup(Indexed, plan))
         /\ \A i : i \in ToSet(RangeLookup(Indexed, plan)) <=> i \in live /\ Within(pages[i].v, plan)
<1> DEFINE found(x) == {e[2] : e \in {f \in Indexed.range[plan.column] : f[1] = x /\ Within(x, plan)}}
           parts == [n \in 1 .. Len(Values) |-> InOrder(Indexed, found(Values[n]))]
<1>1. RangeLookup(Indexed, plan) = FlattenSeq(parts)
  BY DEF RangeLookup
<1>2. Values \in Seq(Int) /\ Len(Values) \in Nat /\ DOMAIN Values = 1 .. Len(Values) /\ Once(Values)
  BY ValuesOnce
<1>3. ASSUME NEW x \in ToSet(Values), NEW i
      PROVE  i \in found(x) <=> i \in live /\ x = pages[i].v /\ Within(x, plan)
  <2>1. Indexed.range[plan.column] = range /\ range \subseteq ToSet(Values) \X Slots
    BY Databases DEF IndexInv, Typed
  <2>2. i \in found(x) <=> <<x, i>> \in range /\ Within(x, plan)
    BY <2>1
  <2>3. <<x, i>> \in range <=> i \in Slots /\ x \in Ranked(i)
    BY <2>1 DEF Ranked
  <2>4. i \in Slots => Ranked(i) = IF i \in live THEN {pages[i].v} ELSE {}
    BY DEF RangeTrue, OwedValues, Quiet
  <2>5. i \in live => i \in Slots
    BY PagesAreSlots DEF IndexInv
  <2> QED
    BY <2>2, <2>3, <2>4, <2>5
<1> HIDE DEF found
<1>4. Len(parts) = Len(Values) /\ \A n \in 1 .. Len(Values) : parts[n] = InOrder(Indexed, found(Values[n]))
  BY <1>2
<1>5. Len(Indexed.rows) = Len(pages) /\ Len(pages) \in Nat /\ DOMAIN pages = 1 .. Len(pages)
      /\ live \subseteq DOMAIN pages
  BY Databases
<1>6. ASSUME NEW n \in 1 .. Len(Values)
      PROVE  /\ parts[n] \in Seq(DOMAIN pages) /\ Once(parts[n])
             /\ \A i : i \in ToSet(parts[n]) <=> i \in live /\ Values[n] = pages[i].v /\ Within(Values[n], plan)
  <2>1. Values[n] \in ToSet(Values)
    BY <1>2 DEF ToSet
  <2> QED
    BY <1>3, <1>4, <1>5, <2>1, InOrderElements
<1>7. parts \in Seq(Seq(DOMAIN pages))
  BY <1>2, <1>4, <1>6
<1> HIDE DEF parts
<1>8. Once(FlattenSeq(parts))
  <2>1. ASSUME NEW a \in 1 .. Len(parts), NEW z \in 1 .. Len(parts), a # z
        PROVE  ToSet(parts[a]) \cap ToSet(parts[z]) = {}
    <3>1. Values[a] # Values[z]
      <4>1. a < z \/ z < a
        BY <1>2, <1>4, <2>1
      <4> QED
        BY <1>2, <1>4, <4>1 DEF Once
    <3>2. a \in 1 .. Len(Values) /\ z \in 1 .. Len(Values)
      BY <1>4
    <3>3. \A i : i \in ToSet(parts[a]) => Values[a] = pages[i].v
      BY <1>6, <3>2
    <3>4. \A i : i \in ToSet(parts[z]) => Values[z] = pages[i].v
      BY <1>6, <3>2
    <3> QED
      BY <3>1, <3>3, <3>4
  <2> QED
    BY <1>4, <1>6, <1>7, <2>1, FlattenOnce
<1>9. ASSUME NEW i PROVE i \in ToSet(FlattenSeq(parts)) <=> i \in live /\ Within(pages[i].v, plan)
  <2>1. i \in ToSet(FlattenSeq(parts)) <=> \E n \in 1 .. Len(Values) : i \in ToSet(parts[n])
    BY <1>4, <1>7, FlattenElements
  <2>2. i \in live => \E n \in 1 .. Len(Values) : Values[n] = pages[i].v
    <3>1. i \in live => pages[i].v \in ToSet(Values)
      BY PagesAreSlots, RowFields DEF IndexInv
    <3>2. \A x \in ToSet(Values) : \E n \in 1 .. Len(Values) : Values[n] = x
      BY <1>2 DEF ToSet
    <3> QED
      BY <3>1, <3>2
  <2> QED
    BY <1>6, <2>1, <2>2
<1>10. FlattenSeq(parts) \in Seq(DOMAIN pages)
  BY <1>7, FlattenOrder
<1> QED
  BY <1>1, <1>8, <1>9, <1>10


\* What a lookup in the hash index gives.
LEMMA HashListed ==
  ASSUME IndexInv, Quiet, HasHash, NEW x
  PROVE  /\ \A i : i \in HashLookup(Indexed, "k", x) => i \in DOMAIN pages
         /\ \A i \in live \ excused : pages[i].k = x => i \in HashLookup(Indexed, "k", x)
<1>1. Indexed.hash["k"] = hash
  BY Databases
<1>2. \A i : i \in HashLookup(Indexed, "k", x) <=> \E e \in hash.entries : e[1] = x /\ e[2] = i
  BY <1>1 DEF HashLookup
<1>3. \A e \in hash.entries : e[2] \in DOMAIN pages
  BY DEF IndexInv, Listed
<1>4. ASSUME NEW i \in live \ excused, pages[i].k = x
      PROVE  i \in HashLookup(Indexed, "k", x)
  <2>1. i \in DOMAIN pages
    BY Databases
  <2>2. Filed(i) = {pages[i].k}
    BY <1>4, <2>1 DEF IndexInv, Listed, Owed, Pending, Quiet
  <2>3. <<x, i>> \in hash.entries
    BY <1>4, <2>2 DEF Filed
  <2> QED
    BY <1>2, <2>3
<1> QED
  BY <1>2, <1>3, <1>4

\* An index that counts no row, with no row left out, is of an empty table.
LEMMA NothingCounted ==
  ASSUME IndexInv, Quiet, HasHash, excused = {}, hash.total <= 0
  PROVE  live = {}
<1>1. hash.total = Cardinality(live) /\ IsFiniteSet(live)
  BY LiveFinite DEF IndexInv, Counted, Entered, Uncounted, Quiet, Building
<1>2. Cardinality(live) = 0
  <2>1. Cardinality(live) \in Nat
    BY <1>1, FS_CardinalityType
  <2> QED
    BY <1>1, <2>1
<1> QED
  BY <1>1, <1>2, FS_EmptySet

\* The row that the plan's condition is about meets it.
LEMMA PlannedConds ==
  ASSUME NEW q, q.conds = Everything \/ (q.conds \in q.where /\ Conditions(q.conds)), q.conds # Everything
  PROVE  /\ Conditions(q.conds)
         /\ \A row : Where(q, row) => Meets(row, q.conds)
BY DEF Where

\* Whichever index a plan goes through, its list has each index at most once and
\* every row that the query asks for, but for what the hash index does not
\* answer for.
LEMMA Listings ==
  ASSUME IndexInv, RangeTrue, Quiet, NEW q,
         q.conds = Everything \/ (q.conds \in q.where /\ Conditions(q.conds))
  PROVE  LET plan == Plan(Indexed, q.conds)
         IN  /\ Listing(Indexed, q) \in Seq(DOMAIN pages) /\ Once(Listing(Indexed, q))
             /\ plan = Scan \/ plan.mode \in {"range", "hash"}
             /\ plan # Scan => \A i \in live : Where(q, pages[i]) =>
                  i \in CandidateSet(Indexed, plan) \/ (plan.mode = "hash" /\ i \in excused)
             /\ \A i \in live : Where(q, pages[i]) =>
                  \/ i \in ToSet(Listing(Indexed, q))
                  \/ plan.mode = "hash" /\ (i \in excused \/ hash.total <= 0)
             /\ plan.mode = "hash" => HasHash
<1> DEFINE plan == Plan(Indexed, q.conds)
<1>d. Len(Indexed.rows) = Len(pages) /\ Len(pages) \in Nat /\ DOMAIN pages = 1 .. Len(pages)
      /\ \A i \in live : i \in DOMAIN pages /\ pages[i] \in Row
  BY Databases
<1>1. CASE plan = Scan
  <2>1. Listing(Indexed, q) = All(Indexed) /\ plan.mode = "scan"
    BY <1>1 DEF Listing, Scan
  <2>2. /\ All(Indexed) \in Seq(DOMAIN pages) /\ Once(All(Indexed))
        /\ \A i : i \in ToSet(All(Indexed)) <=> i \in DOMAIN pages
    BY <1>d, AllElements
  <2> QED
    BY <1>1, <1>d, <2>1, <2>2
<1>2. ASSUME q.conds # Everything, NEW c \in RangeColumns(Indexed, q.conds), plan = RangePlan(c, q.conds[c])
      PROVE  /\ Listing(Indexed, q) \in Seq(DOMAIN pages) /\ Once(Listing(Indexed, q))
             /\ plan.mode = "range" /\ plan # Scan
             /\ \A i \in live : Where(q, pages[i]) => i \in CandidateSet(Indexed, plan)
             /\ \A i \in live : Where(q, pages[i]) => i \in ToSet(Listing(Indexed, q))
  <2>1. /\ c = "v" /\ range # Absent /\ c \in DOMAIN q.conds
        /\ q.conds[c] # <<>> /\ OpsOf(q.conds[c]) \subseteq RangeOps
    BY <1>2, Databases DEF RangeColumns
  <2>2. Conditions(q.conds) /\ q.conds[c] \in Seq(Operators \X Int)
        /\ \A row : Where(q, row) => Meets(row, q.conds)
    BY <1>2, <2>1, PlannedConds DEF Conditions
  <2>3. PICK low, high :
           /\ plan = [mode |-> "range", column |-> c, low |-> low, high |-> high]
           /\ low = NoBound \/ low \in ToSet(q.conds[c])
           /\ high = NoBound \/ high \in ToSet(q.conds[c])
    BY <1>2, <2>1, <2>2, RangePlanIs
  <2>4. plan.mode = "range" /\ plan.column = "v" /\ plan # Scan /\ plan.low = low /\ plan.high = high
    BY <2>1, <2>3 DEF Scan
  <2>5. Listing(Indexed, q) = RangeLookup(Indexed, plan)
        /\ CandidateSet(Indexed, plan) = ToSet(RangeLookup(Indexed, plan))
    BY <2>4 DEF Listing, Candidates, CandidateSet
  <2> HIDE DEF plan
  <2>6. /\ RangeLookup(Indexed, plan) \in Seq(DOMAIN pages) /\ Once(RangeLookup(Indexed, plan))
        /\ \A i : i \in ToSet(RangeLookup(Indexed, plan)) <=> i \in live /\ Within(pages[i].v, plan)
    BY <2>1, <2>4, RangeListed
  <2>7. ASSUME NEW i \in live, Where(q, pages[i]) PROVE Within(pages[i].v, plan)
    <3>1. Meets(pages[i], q.conds)
      BY <2>2, <2>7
    <3>2. Within(pages[i][c], plan)
      BY <2>1, <2>2, <2>3, <2>4, <3>1, MeetsWithin
    <3> QED
      BY <2>1, <3>2
  <2> QED
    BY <2>4, <2>5, <2>6, <2>7
<1>3. ASSUME q.conds # Everything, NEW c \in HashColumns(Indexed, q.conds),
             plan = [mode |-> "hash", column |-> c, value |-> q.conds[c][1][2]]
      PROVE  /\ Listing(Indexed, q) \in Seq(DOMAIN pages) /\ Once(Listing(Indexed, q))
             /\ plan.mode = "hash" /\ plan # Scan /\ HasHash
             /\ \A i \in live : Where(q, pages[i]) => i \in CandidateSet(Indexed, plan) \/ i \in excused
             /\ \A i \in live : Where(q, pages[i]) =>
                  i \in ToSet(Listing(Indexed, q)) \/ i \in excused \/ hash.total <= 0
  <2>1. c = "k" /\ HasHash /\ c \in DOMAIN q.conds /\ IsPlain(q.conds[c])
    BY <1>3, Databases DEF HashColumns
  <2>2. plan.mode = "hash" /\ plan.column = "k" /\ plan.value = q.conds["k"][1][2] /\ plan # Scan
    BY <1>3, <2>1 DEF Scan
  <2> DEFINE found == HashLookup(Indexed, "k", plan.value)
  <2>3. /\ CandidateSet(Indexed, plan) = found
        /\ Listing(Indexed, q) = IF hash.total <= 0 THEN <<>> ELSE InOrder(Indexed, found)
    BY <2>1, <2>2, Databases DEF Listing, Candidates, CandidateSet
  <2> HIDE DEF plan
  <2>4. /\ \A i : i \in found => i \in DOMAIN pages
        /\ \A i \in live \ excused : pages[i].k = plan.value => i \in found
    BY <2>1, HashListed
  <2> HIDE DEF found
  <2>5. /\ InOrder(Indexed, found) \in Seq(DOMAIN pages) /\ Once(InOrder(Indexed, found))
        /\ \A i : i \in ToSet(InOrder(Indexed, found)) <=> i \in DOMAIN pages /\ i \in found
    BY <1>d, InOrderElements
  <2>6. <<>> \in Seq(DOMAIN pages) /\ Once(<<>>)
    BY DEF Once
  <2>7. ASSUME NEW i \in live, Where(q, pages[i]) PROVE pages[i].k = plan.value
    <3>1. Meets(pages[i], q.conds)
      BY <1>3, <2>7, PlannedConds
    <3>2. Compare("is", pages[i]["k"], q.conds["k"][1][2])
      BY <2>1, <3>1 DEF Meets, IsPlain
    <3> QED
      BY <2>2, <3>2 DEF Compare
  <2> QED
    BY <1>d, <2>1, <2>2, <2>3, <2>4, <2>5, <2>6, <2>7
<1> QED
  BY <1>1, <1>2, <1>3, PlanIs


-----------------------------------------------------------------------------
(* Answers.                                                                *)

\* A scan finds what the query asks for, each row once.
LEMMA BareAnswer ==
  ASSUME IndexInv, NEW q, Built(q)
  PROVE  \A i : i \in ToSet(Execute(Bare, q)) <=> i \in live /\ Where(q, pages[i])
<1>1. Len(Bare.rows) = Len(pages) /\ Len(pages) \in Nat /\ DOMAIN pages = 1 .. Len(pages)
      /\ DOMAIN Bare.range = {} /\ DOMAIN Bare.hash = {} /\ \A i \in live : i \in DOMAIN pages
  BY Databases
<1>2. Listing(Bare, q) = All(Bare)
  BY <1>1, BarePlan DEF Listing
<1>3. All(Bare) \in Seq(DOMAIN pages) /\ \A i : i \in ToSet(All(Bare)) <=> i \in DOMAIN pages
  BY <1>1, AllElements
<1>4. Execute(Bare, q) = Kept(Bare, q, All(Bare))
  BY <1>2, <1>3, WholeAnswer
<1> QED
  BY <1>1, <1>3, <1>4, KeptRows

\* With the indexes, each row once, and those it is asked for but for what the
\* hash index does not answer for.
LEMMA IndexedAnswer ==
  ASSUME IndexInv, RangeTrue, Quiet, NEW q, Built(q)
  PROVE  LET plan == Plan(Indexed, q.conds)
         IN  /\ Execute(Indexed, q) \in Seq(DOMAIN pages) /\ Once(Execute(Indexed, q))
             /\ \A i \in ToSet(Execute(Indexed, q)) : i \in live /\ Where(q, pages[i])
             /\ \A i \in live : Where(q, pages[i]) =>
                  \/ i \in ToSet(Execute(Indexed, q))
                  \/ plan.mode = "hash" /\ (i \in excused \/ hash.total <= 0)
             /\ plan.mode = "hash" => HasHash
<1> DEFINE plan == Plan(Indexed, q.conds)
           listing == Listing(Indexed, q)
<1>1. /\ listing \in Seq(DOMAIN pages) /\ Once(listing)
      /\ \A i \in live : Where(q, pages[i]) =>
           \/ i \in ToSet(listing)
           \/ plan.mode = "hash" /\ (i \in excused \/ hash.total <= 0)
      /\ plan.mode = "hash" => HasHash
  BY Listings DEF Built
<1>2. Execute(Indexed, q) = Kept(Indexed, q, listing)
  BY <1>1, WholeAnswer
<1> HIDE DEF plan, listing
<1>3. /\ Kept(Indexed, q, listing) \in Seq(DOMAIN pages)
      /\ Once(Kept(Indexed, q, listing))
      /\ \A i : i \in ToSet(Kept(Indexed, q, listing)) <=> i \in ToSet(listing) /\ i \in live /\ Where(q, pages[i])
  BY <1>1, KeptRows
<1>4. /\ Execute(Indexed, q) \in Seq(DOMAIN pages) /\ Once(Execute(Indexed, q))
      /\ \A i \in ToSet(Execute(Indexed, q)) : i \in live /\ Where(q, pages[i])
      /\ \A i \in live : Where(q, pages[i]) =>
           \/ i \in ToSet(Execute(Indexed, q))
           \/ plan.mode = "hash" /\ (i \in excused \/ hash.total <= 0)
      /\ plan.mode = "hash" => HasHash
  BY <1>1, <1>2, <1>3
<1> QED
  BY <1>4 DEF plan

\* query.py:1-22: planned or scanned, a query gives the same rows.
THEOREM PlannedCorrect == Spec => []PlannedComplete
<1>1. ASSUME IndexInv, RangeTrue PROVE PlannedComplete
  <2> SUFFICES ASSUME Quiet, NEW q \in Queries
               PROVE  LET hashed == Plan(Indexed, q.conds).mode = "hash"
                      IN  \/ hashed /\ excused # {} /\ hash.total <= 0
                          \/ ToSet(Execute(Indexed, q)) \ (IF hashed THEN excused ELSE {})
                               = ToSet(Execute(Bare, q)) \ (IF hashed THEN excused ELSE {})
    BY DEF PlannedComplete
  <2> DEFINE hashed == Plan(Indexed, q.conds).mode = "hash"
             found == ToSet(Execute(Indexed, q))
             scanned == ToSet(Execute(Bare, q))
             left == IF hashed THEN excused ELSE {}
  <2>1. Built(q)
    BY QueryAssumption
  <2>2. \A i : i \in scanned <=> i \in live /\ Where(q, pages[i])
    BY <1>1, <2>1, BareAnswer
  <2>3. /\ \A i \in found : i \in live /\ Where(q, pages[i])
        /\ \A i \in live : Where(q, pages[i]) => i \in found \/ (hashed /\ (i \in excused \/ hash.total <= 0))
        /\ hashed => HasHash
    BY <1>1, <2>1, IndexedAnswer
  <2> SUFFICES (hashed /\ excused # {} /\ hash.total <= 0) \/ found \ left = scanned \ left
    OBVIOUS
  <2> HIDE DEF hashed, found, scanned
  <2>4. CASE hashed /\ excused = {} /\ hash.total <= 0
    <3>1. live = {}
      BY <1>1, <2>3, <2>4, NothingCounted
    <3> QED
      BY <2>2, <2>3, <3>1
  <2>5. CASE ~(hashed /\ hash.total <= 0)
    BY <2>2, <2>3, <2>5
  <2> QED
    BY <2>4, <2>5
<1> QED
  BY <1>1, RangeIndexInvariant, PTL

\* The rows that count and the aggregates go through.
LEMMA CountedRows ==
  ASSUME IndexInv, RangeTrue, Quiet, excused = {}, NEW q, Built(q)
  PROVE  LET plan == Plan(Indexed, q.conds)
             kept == Kept(Indexed, q, InOrder(Indexed, IF plan = Scan THEN DOMAIN Indexed.rows
                                                       ELSE CandidateSet(Indexed, plan)))
         IN  /\ kept \in Seq(DOMAIN pages)
             /\ ToSet(kept) = ToSet(Execute(Indexed, q))
             /\ Len(kept) = Len(Execute(Indexed, q))
<1> DEFINE plan == Plan(Indexed, q.conds)
           rows == IF plan = Scan THEN DOMAIN Indexed.rows ELSE CandidateSet(Indexed, plan)
           kept == Kept(Indexed, q, InOrder(Indexed, rows))
           found == Execute(Indexed, q)
<1>1. /\ Len(Indexed.rows) = Len(pages) /\ Len(pages) \in Nat /\ DOMAIN pages = 1 .. Len(pages)
      /\ DOMAIN Indexed.rows = DOMAIN pages /\ \A i \in live : i \in DOMAIN pages
  BY Databases
<1>2. plan # Scan => \A i \in live : Where(q, pages[i]) => i \in CandidateSet(Indexed, plan)
  BY Listings DEF Built
<1>3. \A i \in live : Where(q, pages[i]) => i \in rows
  BY <1>1, <1>2
<1>4. /\ found \in Seq(DOMAIN pages) /\ Once(found)
      /\ \A i \in ToSet(found) : i \in live /\ Where(q, pages[i])
      /\ \A i \in live : Where(q, pages[i]) =>
           i \in ToSet(found) \/ (plan.mode = "hash" /\ hash.total <= 0)
      /\ plan.mode = "hash" => HasHash
  BY IndexedAnswer
<1> HIDE DEF plan, rows, found
<1>5. \A i : i \in ToSet(found) <=> i \in live /\ Where(q, pages[i])
  <2>1. plan.mode = "hash" /\ hash.total <= 0 => live = {}
    BY <1>4, NothingCounted
  <2> QED
    BY <1>4, <2>1
<1>6. /\ InOrder(Indexed, rows) \in Seq(DOMAIN pages) /\ Once(InOrder(Indexed, rows))
      /\ \A i : i \in ToSet(InOrder(Indexed, rows)) <=> i \in DOMAIN pages /\ i \in rows
  BY <1>1, InOrderElements
<1>7. /\ kept \in Seq(DOMAIN pages) /\ Once(kept)
      /\ \A i : i \in ToSet(kept) <=> i \in ToSet(InOrder(Indexed, rows)) /\ i \in live /\ Where(q, pages[i])
  BY <1>6, KeptRows
<1> HIDE DEF kept
<1>8. \A i : i \in ToSet(kept) <=> i \in ToSet(found)
  BY <1>1, <1>3, <1>5, <1>6, <1>7
<1>9. ToSet(kept) = ToSet(found)
  BY <1>8
<1>10. Len(kept) = Len(found)
  <2>1. Cardinality(ToSet(kept)) = Len(kept)
    BY <1>7, OnceLength
  <2>2. Cardinality(ToSet(found)) = Len(found)
    BY <1>4, OnceLength
  <2> QED
    BY <1>9, <2>1, <2>2
<1> QED
  BY <1>7, <1>9, <1>10 DEF kept, rows, plan, found

\* query.py count and the aggregates: with nothing left out, they are about the
\* rows that execute gives, as many and with the same values.
THEOREM CountsCorrect == Spec => []CountsAgree
<1>1. ASSUME IndexInv, RangeTrue PROVE CountsAgree
  <2> SUFFICES ASSUME Quiet, excused = {}, NEW q \in Queries
               PROVE  LET found == Execute(Indexed, q)
                      IN  /\ Count(Indexed, q) = Len(found)
                          /\ \A c \in {"k", "v"} :
                               LET values == MatchingValues(Indexed, q, c)
                               IN  /\ ToSet(values) = {pages[i][c] : i \in ToSet(found)}
                                   /\ Len(values) = Len(found)
    BY DEF CountsAgree
  <2> DEFINE plan == Plan(Indexed, q.conds)
             rows == IF plan = Scan THEN DOMAIN Indexed.rows ELSE CandidateSet(Indexed, plan)
             kept == Kept(Indexed, q, InOrder(Indexed, rows))
             found == Execute(Indexed, q)
  <2>1. Built(q)
    BY QueryAssumption
  <2>2. kept \in Seq(DOMAIN pages) /\ ToSet(kept) = ToSet(found) /\ Len(kept) = Len(found)
    BY <1>1, <2>1, CountedRows
  <2>3. Count(Indexed, q) = Len(kept)
    BY DEF Count
  <2>4. \A c \in {"k", "v"} : MatchingValues(Indexed, q, c) = [n \in 1 .. Len(kept) |-> Indexed.rows[kept[n]][c]]
    BY DEF MatchingValues
  <2>5. \A i \in ToSet(found) : i \in live
    BY <1>1, <2>1, IndexedAnswer
  <2>6. \A i \in live : Indexed.rows[i] = pages[i]
    BY <1>1, Databases
  <2> HIDE DEF kept, found
  <2>7. Len(kept) \in Nat /\ \A i : i \in ToSet(kept) <=> \E n \in 1 .. Len(kept) : i = kept[n]
    BY <2>2 DEF ToSet
  <2>8. ASSUME NEW c \in {"k", "v"}
        PROVE  /\ ToSet(MatchingValues(Indexed, q, c)) = {pages[i][c] : i \in ToSet(found)}
               /\ Len(MatchingValues(Indexed, q, c)) = Len(found)
    <3> DEFINE values == [n \in 1 .. Len(kept) |-> Indexed.rows[kept[n]][c]]
    <3>1. Len(values) = Len(kept) /\ DOMAIN values = 1 .. Len(kept)
      BY <2>7
    <3>2. \A n \in 1 .. Len(kept) : values[n] = pages[kept[n]][c]
      BY <2>2, <2>5, <2>6, <2>7
    <3> HIDE DEF values
    <3>3. \A x : x \in ToSet(values) <=> \E n \in 1 .. Len(kept) : x = pages[kept[n]][c]
      BY <3>1, <3>2 DEF ToSet
    <3>4. \A x : x \in ToSet(values) <=> \E i \in ToSet(found) : x = pages[i][c]
      BY <2>2, <2>7, <3>3
    <3>5. MatchingValues(Indexed, q, c) = values
      BY <2>4 DEF values
    <3> QED
      BY <2>2, <3>1, <3>4, <3>5
  <2> QED
    BY <2>2, <2>3, <2>8 DEF found
<1> QED
  BY <1>1, RangeIndexInvariant, PTL


-----------------------------------------------------------------------------
(* Pages of an ordered query.                                              *)

\* The values in the order of the sort.
LEMMA SortKeys ==
  ASSUME NEW desc \in BOOLEAN
  PROVE  LET keys == IF desc THEN Reverse(Values) ELSE Values
         IN  /\ keys \in Seq(Int) /\ Len(keys) \in Nat
             /\ \A a, z \in 1 .. Len(keys) : a < z => IF desc THEN keys[a] > keys[z] ELSE keys[a] < keys[z]
<1> DEFINE m == Len(Values)
<1>1. /\ Values \in Seq(Int) /\ m \in Nat /\ \A n \in 1 .. m : Values[n] \in Int
      /\ \A a, z \in 1 .. m : a < z => Values[a] < Values[z]
  BY ValuesAssumption
<1>2. CASE desc
  <2> DEFINE keys == Reverse(Values)
  <2>1. keys = [n \in 1 .. m |-> Values[(m - n) + 1]]
    BY DEF Reverse
  <2> HIDE DEF m
  <2>2. \A n \in 1 .. m : (m - n) + 1 \in 1 .. m
    BY <1>1
  <2>3. Len(keys) = m /\ keys \in Seq(Int) /\ \A n \in 1 .. m : keys[n] = Values[(m - n) + 1]
    BY <1>1, <2>1, <2>2
  <2>4. ASSUME NEW a \in 1 .. m, NEW z \in 1 .. m, a < z PROVE keys[a] > keys[z]
    <3>1. (m - z) + 1 < (m - a) + 1
      BY <1>1, <2>4
    <3>2. Values[(m - z) + 1] < Values[(m - a) + 1]
      BY <1>1, <2>2, <3>1
    <3> QED
      BY <1>1, <2>2, <2>3, <3>2
  <2> HIDE DEF keys
  <2>5. /\ keys \in Seq(Int) /\ Len(keys) \in Nat
        /\ \A a, z \in 1 .. Len(keys) : a < z => keys[a] > keys[z]
    BY <1>1, <2>3, <2>4
  <2> QED
    BY <1>2, <2>5 DEF keys
<1>3. CASE ~desc
  BY <1>1, <1>3
<1> QED
  BY <1>2, <1>3

\* Sorting keeps each row once and puts the rows in order.
LEMMA SortedRows ==
  ASSUME IndexInv, NEW c, NEW desc \in BOOLEAN, NEW indices \in Seq(DOMAIN pages), Once(indices),
         \A i \in ToSet(indices) : i \in live
  PROVE  LET s == Sorted(Indexed, [column |-> c, desc |-> desc], indices)
         IN  /\ s \in Seq(DOMAIN pages) /\ Once(s)
             /\ \A m, n \in 1 .. Len(s) : m < n =>
                  IF desc THEN pages[s[m]][c] >= pages[s[n]][c] ELSE pages[s[m]][c] <= pages[s[n]][c]
<1> DEFINE keys == IF desc THEN Reverse(Values) ELSE Values
           having(x) == {i \in ToSet(indices) : Indexed.rows[i][c] = x}
           parts == [n \in 1 .. Len(keys) |-> Selected(indices, having(keys[n]))]
           s == Sorted(Indexed, [column |-> c, desc |-> desc], indices)
<1>1. s = FlattenSeq(parts)
  BY DEF Sorted
<1>2. /\ Len(keys) \in Nat /\ \A n \in 1 .. Len(keys) : keys[n] \in Int
      /\ \A a, z \in 1 .. Len(keys) : a < z => IF desc THEN keys[a] > keys[z] ELSE keys[a] < keys[z]
  BY SortKeys
<1> HIDE DEF keys
<1>3. \A x, i : i \in having(x) <=> i \in ToSet(indices) /\ pages[i][c] = x
  <2>1. \A i \in live : Indexed.rows[i] = pages[i]
    BY Databases
  <2> QED
    BY <2>1
<1> HIDE DEF having
<1>4. Len(parts) = Len(keys) /\ \A n \in 1 .. Len(keys) : parts[n] = Selected(indices, having(keys[n]))
  BY <1>2
<1>5. ASSUME NEW n \in 1 .. Len(keys)
      PROVE  /\ parts[n] \in Seq(DOMAIN pages) /\ Once(parts[n])
             /\ \A i : i \in ToSet(parts[n]) => pages[i][c] = keys[n]
  BY <1>3, <1>4, SelectedElements
<1>6. parts \in Seq(Seq(DOMAIN pages))
  BY <1>2, <1>4, <1>5
<1> HIDE DEF parts
<1>7. ASSUME NEW a \in 1 .. Len(parts), NEW z \in 1 .. Len(parts), a # z
      PROVE  ToSet(parts[a]) \cap ToSet(parts[z]) = {}
  <2>1. a \in 1 .. Len(keys) /\ z \in 1 .. Len(keys) /\ (a < z \/ z < a)
    BY <1>2, <1>4, <1>7
  <2>2. keys[a] # keys[z]
    <3>1. keys[a] \in Int /\ keys[z] \in Int
      BY <1>2, <2>1
    <3> QED
      BY <1>2, <2>1, <3>1
  <2> QED
    BY <1>5, <2>1, <2>2
<1>8. FlattenSeq(parts) \in Seq(DOMAIN pages) /\ Once(FlattenSeq(parts))
      /\ \A m, n \in 1 .. Len(FlattenSeq(parts)) :
           m < n => Follow(parts, Len(parts), FlattenSeq(parts)[m], FlattenSeq(parts)[n])
  BY <1>4, <1>5, <1>6, <1>7, FlattenOnce, FlattenOrder
<1>9. ASSUME NEW x, NEW y, Follow(parts, Len(parts), x, y)
      PROVE  IF desc THEN pages[x][c] >= pages[y][c] ELSE pages[x][c] <= pages[y][c]
  <2>1. PICK a, z \in 1 .. Len(parts) : \E d \in 1 .. Len(parts[a]), e \in 1 .. Len(parts[z]) :
               /\ x = parts[a][d] /\ y = parts[z][e]
               /\ a < z \/ (a = z /\ d < e)
    BY <1>9 DEF Follow
  <2>2. a \in 1 .. Len(keys) /\ z \in 1 .. Len(keys) /\ (a < z \/ a = z)
    BY <1>4, <2>1
  <2>3. x \in ToSet(parts[a]) /\ y \in ToSet(parts[z])
    BY <2>1 DEF ToSet
  <2>4. pages[x][c] = keys[a] /\ pages[y][c] = keys[z]
    BY <1>5, <2>2, <2>3
  <2>5. keys[a] \in Int /\ keys[z] \in Int
    BY <1>2, <2>2
  <2> QED
    BY <1>2, <2>2, <2>4, <2>5
<1> HIDE DEF s
<1>10. /\ s \in Seq(DOMAIN pages) /\ Once(s)
       /\ \A m, n \in 1 .. Len(s) : m < n =>
            IF desc THEN pages[s[m]][c] >= pages[s[n]][c] ELSE pages[s[m]][c] <= pages[s[n]][c]
  BY <1>1, <1>8, <1>9
<1> QED
  BY <1>10 DEF s

\* query.py order_by, limit, offset: the pages of one row each, put together,
\* are the whole answer in order.
THEOREM PagesCorrect == Spec => []PagesCover
<1>1. ASSUME IndexInv, RangeTrue PROVE PagesCover
  <2> SUFFICES ASSUME Quiet, NEW q \in Queries, NEW c \in {"k", "v"}, NEW desc \in BOOLEAN
               PROVE  LET ordered == [q EXCEPT !.order = [column |-> c, desc |-> desc]]
                          whole == Execute(Indexed, ordered)
                          page(n) == Execute(Indexed, [ordered EXCEPT !.limit = 1, !.offset = n - 1])
                      IN  /\ whole = FlattenSeq([n \in 1 .. MaxRows |-> page(n)])
                          /\ \A m \in 1 .. Len(whole), n \in 1 .. Len(whole) : m < n =>
                               IF desc THEN pages[whole[m]][c] >= pages[whole[n]][c]
                               ELSE pages[whole[m]][c] <= pages[whole[n]][c]
    BY DEF PagesCover
  <2> DEFINE order == [column |-> c, desc |-> desc]
             ordered == [q EXCEPT !.order = order]
             paged(n) == [ordered EXCEPT !.limit = 1, !.offset = n - 1]
             where == q.where
             conds == q.conds
             listing == Listing(Indexed, q)
             kept == Kept(Indexed, q, listing)
             s == Sorted(Indexed, order, kept)
  <2>1. Built(q) /\ q = [where |-> q.where, conds |-> q.conds, order |-> Absent, limit |-> -1, offset |-> 0]
    BY QueryAssumption, BuiltFields
  <2>2. ordered = [where |-> where, conds |-> conds, order |-> order, limit |-> -1, offset |-> 0]
    BY <2>1
  <2> HIDE DEF ordered, where, conds, order
  <2>3. ASSUME NEW n
        PROVE  /\ paged(n).where = where /\ paged(n).conds = conds /\ paged(n).order = order
               /\ paged(n).limit = 1 /\ paged(n).offset = n - 1
    BY <2>2
  <2> HIDE DEF paged
  <2>4. listing \in Seq(DOMAIN pages) /\ Once(listing)
    BY <1>1, <2>1, Listings DEF Built
  <2> HIDE DEF listing
  <2>5. kept \in Seq(DOMAIN pages) /\ Once(kept) /\ \A i \in ToSet(kept) : i \in live
    BY <1>1, <2>4, KeptRows
  <2> HIDE DEF kept
  <2>6. /\ s \in Seq(DOMAIN pages) /\ Once(s)
        /\ \A m, n \in 1 .. Len(s) : m < n =>
             IF desc THEN pages[s[m]][c] >= pages[s[n]][c] ELSE pages[s[m]][c] <= pages[s[n]][c]
    BY <1>1, <2>5, SortedRows DEF order
  <2>7. order # Absent
    BY AbsentAssumption DEF order
  <2>8. ASSUME NEW p, p.where = where, p.conds = conds, p.order = order, p.limit # 0
        PROVE  Execute(Indexed, p) = Sliced(p, s)
    <3>1. Listing(Indexed, p) = listing
      BY <2>8 DEF Listing, listing, conds
    <3>2. Kept(Indexed, p, listing) = kept
      BY <2>8 DEF Kept, Where, kept, where
    <3>3. Execute(Indexed, p) = Finish(Indexed, p, Listing(Indexed, p))
      BY DEF Execute, Listing
    <3> QED
      BY <2>7, <2>8, <3>1, <3>2, <3>3 DEF Finish
  <2> HIDE DEF s
  <2>9. Len(s) \in Nat /\ Len(s) <= MaxRows
    <3>1. IsFiniteSet(ToSet(s)) /\ Cardinality(ToSet(s)) = Len(s) /\ Len(s) \in Nat
      BY <2>6, OnceLength
    <3>2. ToSet(s) \subseteq 1 .. Len(pages) /\ Len(pages) \in Nat /\ Len(pages) <= MaxRows
      BY <1>1, <2>6, Databases DEF ToSet
    <3>3. IsFiniteSet(1 .. Len(pages)) /\ Cardinality(1 .. Len(pages)) = Len(pages)
      <4> DEFINE m == Len(pages)
      <4>1. m \in Nat
        BY <3>2
      <4> HIDE DEF m
      <4>2. 1 \in Int /\ m \in Int
        BY <4>1
      <4>3. IsFiniteSet(1 .. m) /\ Cardinality(1 .. m) = IF 1 > m THEN 0 ELSE m - 1 + 1
        BY <4>2, FS_Interval, Zenon
      <4>4. (IF 1 > m THEN 0 ELSE m - 1 + 1) = m
        BY <4>1
      <4>5. IsFiniteSet(1 .. m) /\ Cardinality(1 .. m) = m
        BY <4>3, <4>4
      <4> QED
        BY <4>5, Zenon DEF m
    <3>4. Cardinality(ToSet(s)) <= Len(pages)
      BY <3>2, <3>3, FS_Subset
    <3> QED
      BY <3>1, <3>2, <3>4, BoundAssumption
  <2>10. Execute(Indexed, ordered) = s
    <3>1. Execute(Indexed, ordered) = Sliced(ordered, s) /\ ordered.limit = -1 /\ ordered.offset = 0
      BY <2>2, <2>8
    <3>2. Sliced(ordered, s) = SubSeq(s, 1, Len(s))
      BY <2>9, <3>1 DEF Sliced
    <3> QED
      BY <2>6, <3>1, <3>2, SubSeqFull
  <2>11. ASSUME NEW n \in 1 .. MaxRows
         PROVE  Execute(Indexed, paged(n)) = IF n <= Len(s) THEN <<s[n]>> ELSE <<>>
    <3>1. Execute(Indexed, paged(n)) = Sliced(paged(n), s) /\ paged(n).limit = 1 /\ paged(n).offset = n - 1
      BY <2>3, <2>8
    <3>2. Sliced(paged(n), s) = SubSeq(s, n, IF n > Len(s) THEN Len(s) ELSE n)
      BY <2>9, <3>1, BoundAssumption DEF Sliced
    <3>3. CASE n <= Len(s)
      <4>1. n \in Nat /\ n \in 1 .. Len(s) /\ s[n] \in DOMAIN pages
        BY <2>6, <2>9, <3>3, BoundAssumption
      <4>2. /\ SubSeq(s, n, n) \in Seq(DOMAIN pages) /\ Len(SubSeq(s, n, n)) = 1
            /\ SubSeq(s, n, n)[1] = s[n]
        <5>1. \A i \in n .. n : s[i] \in DOMAIN pages
          BY <4>1
        <5>2. /\ SubSeq(s, n, n) \in Seq(DOMAIN pages) /\ Len(SubSeq(s, n, n)) = IF n <= n THEN n - n + 1 ELSE 0
              /\ \A i \in 1 .. n - n + 1 : SubSeq(s, n, n)[i] = s[n + i - 1]
          BY <4>1, <5>1, SubSeqProperties
        <5>3. 1 \in 1 .. n - n + 1 /\ n + 1 - 1 = n /\ n - n + 1 = 1 /\ n <= n
          BY <4>1
        <5> QED
          BY <5>2, <5>3
      <4>3. SubSeq(s, n, n) = <<s[n]>>
        <5> DEFINE page == SubSeq(s, n, n)
        <5>1. page \in Seq(DOMAIN pages) /\ Len(page) = 1 /\ page[1] = s[n] /\ s[n] \in DOMAIN pages
          BY <4>1, <4>2
        <5> HIDE DEF page
        <5>2. page = <<s[n]>>
          BY ONLY <5>1
        <5> QED
          BY <5>2, Zenon DEF page
      <4>4. ~(n > Len(s))
        BY <2>9, <4>1
      <4> QED
        BY <3>1, <3>2, <3>3, <4>3, <4>4
    <3>4. CASE ~(n <= Len(s))
      <4>1. SubSeq(s, n, Len(s)) = <<>>
        BY <2>9, <3>4, SubSeqEmpty, BoundAssumption
      <4> QED
        BY <2>9, <3>1, <3>2, <3>4, <4>1, BoundAssumption
    <3> QED
      BY <3>3, <3>4
  <2>12. FlattenSeq([n \in 1 .. MaxRows |-> IF n <= Len(s) THEN <<s[n]>> ELSE <<>>]) = s
    BY <2>6, <2>9, FlattenOnes, BoundAssumption
  <2>13. [n \in 1 .. MaxRows |-> Execute(Indexed, paged(n))]
           = [n \in 1 .. MaxRows |-> IF n <= Len(s) THEN <<s[n]>> ELSE <<>>]
    BY <2>11
  <2>14. Execute(Indexed, ordered) = FlattenSeq([n \in 1 .. MaxRows |-> Execute(Indexed, paged(n))])
    BY <2>10, <2>12, <2>13
  <2>15. /\ Execute(Indexed, ordered) = FlattenSeq([n \in 1 .. MaxRows |-> Execute(Indexed, paged(n))])
         /\ \A m \in 1 .. Len(Execute(Indexed, ordered)), n \in 1 .. Len(Execute(Indexed, ordered)) : m < n =>
              IF desc THEN pages[Execute(Indexed, ordered)[m]][c] >= pages[Execute(Indexed, ordered)[n]][c]
              ELSE pages[Execute(Indexed, ordered)[m]][c] <= pages[Execute(Indexed, ordered)[n]][c]
      BY <2>6, <2>10, <2>14, Zenon
  <2> QED
    BY <2>15, Zenon DEF ordered, order, paged
<1> QED
  BY <1>1, RangeIndexInvariant, PTL
=============================================================================
