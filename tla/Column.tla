------------------------------- MODULE Column -------------------------------
(***************************************************************************)
(* Column of columnar.py: one column of a columnar table, as a record that *)
(* each operation maps to another.  A column starts raw (a dictionary one  *)
(* starts encoded), is encoded when its first values suggest it, and falls *)
(* back to raw for good when a value does not suit the encoding.  The      *)
(* fields of the encodings that exclude each other share names:            *)
(*                                                                         *)
(*   data   _data when raw, the bits of a bool column (those past its end  *)
(*          read as False), _dict_codes, _deltas, the windows of           *)
(*          _for_packed (_for_count is their number)                       *)
(*   base   _delta_base, _for_min         last   _delta_prev               *)
(*   width  of _delta_typecode (1 or 2), of a window (_for_bits)           *)
(*   cache  _delta_cache, _for_cache      given  the fallback flags        *)
(*                                                                         *)
(* Values are integers; those of a dictionary column stand for strings,    *)
(* those of a float column are halves.  Every value fits its column's type.*)
(***************************************************************************)
EXTENDS Integers, Sequences, FiniteSets, FiniteSetsExt, Functions

CONSTANTS
  Null, NoCache,
  Raises,        \* what a read gives that ends in an exception
  DeltaSamples,  \* values that decide on delta encoding
  ForThreshold,  \* values that decide on frame-of-reference encoding
  MaxBits,       \* widest window (16)
  Narrow, Wide,  \* deltas of width 1, 2 lie in -Narrow..Narrow-1, -Wide..Wide-1
  DictThreshold  \* distinct values of a dictionary

ASSUME ColumnAssumption ==
  /\ {DeltaSamples, ForThreshold, MaxBits, Narrow, Wide, DictThreshold} \subseteq Nat \ {0}
  /\ Narrow <= Wide

Kinds == {"plain", "float", "bool", "dict", "delta", "for", "both"}

NewColumn(kind) ==
  [kind |-> kind,
   mode |-> IF kind \in {"bool", "dict"} THEN kind ELSE "raw",
   nulls |-> <<>>, data |-> <<>>, values |-> <<>>,
   base |-> 0, last |-> 0, width |-> 0, cache |-> NoCache, given |-> {},
   seen |-> 0, lo |-> 0, hi |-> 0]

Rows(c) == Len(c.nulls)

-----------------------------------------------------------------------------
(* Decoding.                                                               *)

\* _reconstruct_delta
Summed(c) ==
  LET sum[n \in 0 .. Len(c.data)] == IF n = 0 THEN c.base ELSE sum[n - 1] + c.data[n]
  IN  [i \in 1 .. Len(c.data) + 1 |-> sum[i - 1]]
ForValue(c, i) == c.base + (IF i <= Len(c.data) THEN c.data[i] ELSE 0)
Decoded(c) == IF c.mode = "delta" THEN Summed(c) ELSE [i \in DOMAIN c.data |-> ForValue(c, i)]

\* _ensure_delta_cache, _ensure_for_cache.  Reads of rows use the first alone.
Cached(c, modes) ==
  IF c.mode \in modes /\ c.cache = NoCache THEN [c EXCEPT !.cache = Decoded(c)] ELSE c
RowsCached(c) == Cached(c, {"delta"})
AllCached(c) == Cached(c, {"delta", "for"})

At(s, i) == IF i \in DOMAIN s THEN s[i] ELSE Raises

\* __getitem__, and what tolist and iter_valid give for the row
Get(c, i) ==
  CASE c.nulls[i] -> Null
    [] ~c.nulls[i] /\ c.mode = "bool" -> IF i <= Len(c.data) THEN c.data[i] ELSE 0
    [] ~c.nulls[i] /\ c.mode = "dict" -> IF i \in DOMAIN c.data THEN At(c.values, c.data[i] + 1) ELSE Raises
    [] ~c.nulls[i] /\ c.mode = "delta" -> At(RowsCached(c).cache, i)
    [] ~c.nulls[i] /\ c.mode = "for" -> ForValue(c, i)
    [] ~c.nulls[i] /\ c.mode = "raw" -> At(c.data, i)

\* What sum, avg, min and max run over in a column without nulls.
Aggregated(c) ==
  CASE c.mode = "raw" -> c.data
    [] c.mode \in {"delta", "for"} -> AllCached(c).cache
    [] c.mode \in {"bool", "dict"} -> [i \in 1..Rows(c) |-> Get(c, i)]

-----------------------------------------------------------------------------
(* Falling back.                                                           *)

RawWith(c, encoding, values) ==
  [c EXCEPT !.mode = "raw", !.data = values, !.values = <<>>, !.base = 0, !.last = 0, !.width = 0,
            !.cache = NoCache, !.given = @ \cup {encoding}]
DictToRaw(c) == RawWith(c, "dict", [i \in DOMAIN c.data |-> c.values[c.data[i] + 1]])
DeltaToRaw(c) == RawWith(c, "delta", Summed(c))
ForToRaw(c) == RawWith(c, "for", [i \in DOMAIN c.data |-> ForValue(c, i)])
Unpacked(c) == CASE c.mode = "delta" -> DeltaToRaw(c) [] c.mode = "for" -> ForToRaw(c)

Pushed(c, v) == [c EXCEPT !.data = Append(@, v)]
Put(c, i, v) == [c EXCEPT !.data[i] = v]

-----------------------------------------------------------------------------
(* Dictionary.                                                             *)

HasCode(c, v) == v \in Range(c.values)
Code(c, v) == (CHOOSE n \in DOMAIN c.values : c.values[n] = v) - 1
Learned(c, v) == IF HasCode(c, v) THEN c ELSE [c EXCEPT !.values = Append(@, v)]

\* _add_to_dict gives no code, but the column converted to raw.
Overflows(c, v) == ~HasCode(c, v) /\ Len(c.values) >= DictThreshold

AppendDict(c, v) ==
  IF Overflows(c, v) THEN Pushed(DictToRaw(Learned(c, v)), v)
  ELSE Pushed(Learned(c, v), Code(Learned(c, v), v))

-----------------------------------------------------------------------------
(* Delta encoding.                                                         *)

Half(width) == IF width = 1 THEN Narrow ELSE Wide
FitsDelta(d, width) == -Half(width) <= d /\ d < Half(width)

\* Seeded fault: the reconstruction of before the append stays in use.
AppendDeltaCached(c, v) ==
  LET d == v - c.last
  IN  IF FitsDelta(d, 2)
      THEN [c EXCEPT !.data = Append(@, d), !.last = v, !.width = IF FitsDelta(d, @) THEN @ ELSE 2]
      ELSE Pushed(DeltaToRaw(c), v)

\* Seeded fault: the deltas keep their type.
AppendDeltaNarrow(c, v) ==
  LET d == v - c.last
  IN  IF FitsDelta(d, 2)
      THEN [c EXCEPT !.data = Append(@, d), !.last = v, !.cache = NoCache]
      ELSE Pushed(DeltaToRaw(c), v)

AppendDelta(c, v) ==
  LET d == v - c.last
  IN  IF FitsDelta(d, 2)
      THEN [c EXCEPT !.data = Append(@, d), !.last = v, !.width = IF FitsDelta(d, @) THEN @ ELSE 2,
                     !.cache = NoCache]
      ELSE Pushed(DeltaToRaw(c), v)

\* _start_delta_mode, and the samples appended again; one whose delta fits no
\* width gives the encoding up, with all of them raw.
StartDelta(c) ==
  LET deltas == [k \in 1 .. Len(c.data) - 1 |-> c.data[k + 1] - c.data[k]]
      AllFit(width) == \A k \in DOMAIN deltas : FitsDelta(deltas[k], width)
  IN  IF AllFit(2)
      THEN [c EXCEPT !.mode = "delta", !.base = c.data[1], !.last = c.data[Len(c.data)],
                     !.width = IF AllFit(1) THEN 1 ELSE 2, !.data = deltas]
      ELSE RawWith(c, "delta", c.data)

Ascends(s) == \A k \in 1 .. Len(s) - 1 : s[k] <= s[k + 1]

SampleDelta(c, v) ==
  LET d == Pushed(c, v)
  IN  IF Len(d.data) < DeltaSamples THEN d
      ELSE IF Ascends(d.data) THEN StartDelta(d)
      ELSE [d EXCEPT !.given = @ \cup {"delta"}]

-----------------------------------------------------------------------------
(* Frame-of-reference encoding.                                            *)

Power[b \in 0..MaxBits] == IF b = 0 THEN 1 ELSE 2 * Power[b - 1]
TooWide(range) == range >= Power[MaxBits]
Bits(range) == CHOOSE b \in 1..MaxBits : range < Power[b] /\ \A a \in 1 .. b - 1 : Power[a] <= range

\* Values in windows: the mask cuts what does not fit.
Packed(c, values, base, width) ==
  [c EXCEPT !.mode = "for", !.base = base, !.width = width, !.cache = NoCache,
            !.data = [k \in DOMAIN values |-> (values[k] - base) % Power[width]]]

\* _append_for
AppendFor(c, v) == [c EXCEPT !.data = Append(@, (v - c.base) % Power[c.width]), !.cache = NoCache]

\* Seeded fault: the range of the data is taken from the values counted since
\* delta encoding was given up.
StartForCounted(c) ==
  IF TooWide(c.hi - c.lo) THEN [c EXCEPT !.given = @ \cup {"for"}]
  ELSE Packed(c, c.data, c.lo, Bits(c.hi - c.lo))

\* _start_for_mode looks at the data and not at the statistics.
StartFor(c) ==
  LET low == Min(Range(c.data))
      range == Max(Range(c.data)) - low
  IN  IF TooWide(range) THEN [c EXCEPT !.given = @ \cup {"for"}]
      ELSE Packed(c, c.data, low, Bits(range))

SampleFor(c, v) ==
  LET d == [Pushed(c, v) EXCEPT !.seen = @ + 1,
                                !.lo = IF c.seen = 0 \/ v < @ THEN v ELSE @,
                                !.hi = IF c.seen = 0 \/ v > @ THEN v ELSE @]
  IN  IF d.seen < ForThreshold THEN d
      ELSE IF TooWide(d.hi - d.lo) THEN [d EXCEPT !.given = @ \cup {"for"}]
      ELSE StartFor(d)

\* _widen_for: all windows are packed again.
Widen(c, delta) == Packed(c, [i \in DOMAIN c.data |-> ForValue(c, i)], c.base, Bits(delta))

PackFor(c, v) ==
  LET delta == v - c.base
  IN  IF delta < 0 \/ TooWide(delta) THEN Pushed(ForToRaw(c), v)
      ELSE IF delta >= Power[c.width] THEN AppendFor(Widen(c, delta), v)
      ELSE AppendFor(c, v)

-----------------------------------------------------------------------------
(* append and __setitem__                                                  *)

Tries(c, encoding) == c.kind \in {encoding, "both"} /\ encoding \notin c.given

Bit(c, i, v) ==
  IF v = 0 THEN IF i <= Len(c.data) THEN Put(c, i, 0) ELSE c
  ELSE [c EXCEPT !.data = [j \in 1 .. Max({i, Len(c.data)}) |->
                             IF j = i THEN 1 ELSE IF j <= Len(c.data) THEN c.data[j] ELSE 0]]

AppendValue(c, v) ==
  CASE c.mode = "bool" -> Bit(c, Rows(c), v)
    [] c.mode = "dict" -> AppendDict(c, v)
    [] c.mode = "delta" -> AppendDelta(c, v)
    [] c.mode = "for" -> PackFor(c, v)
    [] c.mode = "raw" /\ Tries(c, "delta") -> SampleDelta(c, v)
    [] c.mode = "raw" /\ ~Tries(c, "delta") /\ Tries(c, "for") -> SampleFor(c, v)
    [] c.mode = "raw" /\ ~Tries(c, "delta") /\ ~Tries(c, "for") -> Pushed(c, v)

AppendNull(c) ==
  CASE c.mode = "bool" -> c
    [] c.mode = "delta" -> [Pushed(c, 0) EXCEPT !.cache = NoCache]
    [] c.mode = "for" -> AppendFor(c, c.base)
    [] c.mode \in {"dict", "raw"} -> Pushed(c, 0)

AppendTo(c, v) ==
  LET d == [c EXCEPT !.nulls = Append(@, v = Null)]
  IN  IF v = Null THEN AppendNull(d) ELSE AppendValue(d, v)

SetValue(c, i, v) ==
  CASE c.mode = "bool" -> Bit(c, i, v)
    [] c.mode = "dict" -> IF Overflows(c, v) THEN Put(DictToRaw(Learned(c, v)), i, v)
                          ELSE Put(Learned(c, v), i, Code(Learned(c, v), v))
    [] c.mode \in {"delta", "for"} -> Put(Unpacked(c), i, v)
    [] c.mode = "raw" -> Put(c, i, v)

\* A null leaves deltas and windows alone.
SetNull(c, i) ==
  CASE c.mode = "bool" -> Bit(c, i, 0)
    [] c.mode \in {"delta", "for"} -> c
    [] c.mode \in {"dict", "raw"} -> Put(c, i, 0)

\* ColumnarTable.delete does to each column what this does with Null.
SetAt(c, i, v) ==
  LET d == [c EXCEPT !.nulls[i] = (v = Null)]
  IN  IF v = Null THEN SetNull(d, i) ELSE SetValue(d, i, v)

-----------------------------------------------------------------------------
(* _rebuild_column_alive, for the rows of an increasing sequence.          *)

InOrder(set) ==
  [k \in 1 .. Cardinality(set) |-> CHOOSE n \in set : Cardinality({m \in set : m < n}) = k - 1]
Kept(s, rows) == [k \in DOMAIN rows |-> At(s, rows[k])]
NoNulls(rows) == [k \in DOMAIN rows |-> FALSE]

\* Codes are given again in the order of their first rows.
RebuiltDict(c, rows) ==
  LET codes == Kept(c.data, rows)
      firsts == InOrder({k \in DOMAIN codes : \A j \in 1 .. k - 1 : codes[j] # codes[k]})
  IN  [c EXCEPT !.values = [n \in DOMAIN firsts |-> c.values[codes[firsts[n]] + 1]],
                !.data = [k \in DOMAIN codes |-> (CHOOSE n \in DOMAIN firsts : codes[firsts[n]] = codes[k]) - 1],
                !.nulls = NoNulls(rows)]

\* The first delta is taken from the old base, which stays, as does _delta_prev.
DeltasOf(c, rows) ==
  LET kept == Kept(Decoded(c), rows)
  IN  [k \in DOMAIN rows |-> kept[k] - (IF k = 1 THEN c.base ELSE kept[k - 1])]
RebuiltDelta(c, rows) ==
  [c EXCEPT !.data = DeltasOf(c, rows), !.cache = NoCache, !.nulls = NoNulls(rows)]

\* The windows are dropped, and never packed again.
RebuiltFor(c, rows) ==
  LET kept == Range([k \in DOMAIN rows |-> ForValue(c, rows[k])])
  IN  IF rows = <<>> THEN [c EXCEPT !.nulls = <<>>]
      ELSE [c EXCEPT !.base = Min(kept), !.width = Bits(Max(kept) - Min(kept)),
                     !.data = [k \in DOMAIN rows |-> 0], !.cache = NoCache, !.nulls = NoNulls(rows)]

\* A row that is null in an empty dictionary, a delta that its type does not hold.
RebuildRaises(c, rows) ==
  \/ c.mode = "dict" /\ \E k \in DOMAIN rows : c.data[rows[k]] + 1 \notin DOMAIN c.values
  \/ c.mode = "delta" /\ \E k \in DOMAIN rows : ~FitsDelta(DeltasOf(c, rows)[k], c.width)

\* int() of every value
Truncated(c, s) ==
  [k \in DOMAIN s |-> IF c.kind # "float" THEN s[k] ELSE IF s[k] < 0 THEN s[k] + (s[k] % 2) ELSE s[k] - (s[k] % 2)]

Rebuilt(c, rows) ==
  CASE c.mode = "bool" -> [c EXCEPT !.data = [k \in DOMAIN rows |-> IF rows[k] <= Len(@) THEN @[rows[k]] ELSE 0],
                                    !.nulls = NoNulls(rows)]
    [] c.mode = "dict" -> RebuiltDict(c, rows)
    [] c.mode = "delta" -> RebuiltDelta(c, rows)
    [] c.mode = "for" -> RebuiltFor(c, rows)
    [] c.mode = "raw" -> [c EXCEPT !.data = Truncated(c, Kept(@, rows)), !.nulls = NoNulls(rows)]
=============================================================================
