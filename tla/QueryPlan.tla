----------------------------- MODULE QueryPlan -----------------------------
(***************************************************************************)
(* The query engine of query.py: building a query, planning it against the *)
(* hash and range indexes of a table, running the plan, and the same query *)
(* by a scan.  Everything here is an operator on a database record         *)
(*   rows   the visible table: index -> row or Absent                      *)
(*   hash   column -> hash index: its entries <<value, index>>, its total  *)
(*   range  column -> range index: the set of its items <<value, index>>   *)
(* and a query record; results are sequences of row indices.               *)
(*                                                                         *)
(* A condition on a column is a sequence of <<operator, value>>: <<"is", x>> *)
(* alone for a plain value, otherwise the pairs of the dict in its order.  *)
(***************************************************************************)
EXTENDS Integers, Sequences, FiniteSets, SequencesExt

CONSTANTS
  Absent,      \* None: no row, no order
  Everything,  \* where_conditions is None: nothing for the planner
  Values       \* the values that columns hold, as an ascending sequence

-----------------------------------------------------------------------------
(* Conditions and queries.                                                 *)

Operators == {"is", "eq", "ne", "gt", "gte", "lt", "lte"}
Compare(op, x, y) ==
  CASE op \in {"is", "eq"} -> x = y
    [] op = "ne"  -> x # y
    [] op = "gt"  -> x > y
    [] op = "gte" -> x >= y
    [] op = "lt"  -> x < y
    [] op = "lte" -> x <= y

\* The compiled predicate of a set of conditions.
Meets(row, conds) ==
  \A c \in DOMAIN conds : \A n \in 1..Len(conds[c]) : Compare(conds[c][n][1], row[c], conds[c][n][2])

\* where is the set of predicates joined so far, each as the conditions it was
\* compiled from; conds is where_conditions, what the planner may use.
AnyRow == [where |-> {}, conds |-> Everything, order |-> Absent, limit |-> -1, offset |-> 0]

Merged(old, new) ==
  IF old = Everything THEN new
  ELSE [c \in DOMAIN old \cup DOMAIN new |-> IF c \in DOMAIN new THEN new[c] ELSE old[c]]

\* A second condition on a column replaces the first for the planner only: the
\* predicate keeps both.
Filter(q, conds) ==
  LET merged == Merged(q.conds, conds)
  IN  [q EXCEPT !.where = @ \cup {merged}, !.conds = merged]

\* A custom predicate is opaque to the planner.
WhereFn(q, conds) == [q EXCEPT !.where = @ \cup {conds}, !.conds = Everything]

Where(q, row) == \A conds \in q.where : Meets(row, conds)

-----------------------------------------------------------------------------
(* Plans.                                                                  *)

\* Those elements of a sequence that are in T, as a filter leaves them.
Selected(s, T) == FlattenSeq([n \in 1..Len(s) |-> IF s[n] \in T THEN <<s[n]>> ELSE <<>>])

RangeOps == {"gt", "gte", "lt", "lte"}
LowOps == {"gt", "gte"}
HighOps == {"lt", "lte"}
IsPlain(spec) == Len(spec) = 1 /\ spec[1][1] = "is"
OpsOf(spec) == {spec[n][1] : n \in 1..Len(spec)}
With(spec, ops) == Selected(spec, {s \in ToSet(spec) : s[1] \in ops})

Scan == [mode |-> "scan"]
NoBound == <<"none", 0>>

\* With bounds on both sides the last one of each side counts, with bounds on
\* one side the first.
RangePlan(c, spec) ==
  LET lows == With(spec, LowOps)
      highs == With(spec, HighOps)
  IN  CASE lows # <<>> /\ highs # <<>> ->
             [mode |-> "range", column |-> c, low |-> Last(lows), high |-> Last(highs)]
        [] lows # <<>> /\ highs = <<>> -> [mode |-> "range", column |-> c, low |-> Head(lows), high |-> NoBound]
        [] lows = <<>> /\ highs # <<>> -> [mode |-> "range", column |-> c, low |-> NoBound, high |-> Head(highs)]

RangeColumns(db, conds) ==
  {c \in DOMAIN conds \cap DOMAIN db.range : conds[c] # <<>> /\ OpsOf(conds[c]) \subseteq RangeOps}

HashColumns(db, conds) == {c \in DOMAIN conds \cap DOMAIN db.hash : IsPlain(conds[c])}

\* A range index comes before a hash index.  Which of several columns is
\* taken first is the order of the keyword arguments.
Plan(db, conds) ==
  IF conds = Everything THEN Scan
  ELSE IF RangeColumns(db, conds) # {}
       THEN LET c == CHOOSE c \in RangeColumns(db, conds) : TRUE IN RangePlan(c, conds[c])
  ELSE IF HashColumns(db, conds) # {}
       THEN LET c == CHOOSE c \in HashColumns(db, conds) : TRUE
            IN  [mode |-> "hash", column |-> c, value |-> conds[c][1][2]]
  ELSE Scan

All(db) == [n \in 1..Len(db.rows) |-> n]

\* The indices of a set in ascending order.
InOrder(db, S) == Selected(All(db), S)

HashLookup(db, c, x) == {e[2] : e \in {f \in db.hash[c].entries : f[1] = x}}

\* Seeded fault: an inclusive upper bound leaves its value out.
WithinStrict(x, plan) ==
  /\ plan.low = NoBound \/ Compare(plan.low[1], x, plan.low[2])
  /\ plan.high = NoBound \/ x < plan.high[2]

\* bisect on the sorted items.
Within(x, plan) ==
  /\ plan.low = NoBound \/ Compare(plan.low[1], x, plan.low[2])
  /\ plan.high = NoBound \/ Compare(plan.high[1], x, plan.high[2])
RangeLookup(db, plan) ==
  LET found(x) == {e[2] : e \in {f \in db.range[plan.column] : f[1] = x /\ Within(x, plan)}}
  IN  FlattenSeq([n \in 1..Len(Values) |-> InOrder(db, found(Values[n]))])

\* execute() asks a hash index for its truth value: an index with a total of
\* zero is false.  Below zero that raises (ValueError of __len__), which also
\* stands here as no rows.
Candidates(db, plan) ==
  IF plan.mode = "range" THEN RangeLookup(db, plan)
  ELSE IF db.hash[plan.column].total <= 0 THEN <<>>
  ELSE InOrder(db, HashLookup(db, plan.column, plan.value))

\* count() and the aggregates do not.
CandidateSet(db, plan) ==
  IF plan.mode = "range" THEN ToSet(RangeLookup(db, plan))
  ELSE HashLookup(db, plan.column, plan.value)

-----------------------------------------------------------------------------
(* Running a query.                                                        *)

\* db.get, and the predicate on top of whatever the index gave.
Kept(db, q, indices) ==
  Selected(indices, {i \in DOMAIN db.rows : db.rows[i] # Absent /\ Where(q, db.rows[i])})

\* sort() is stable, also in reverse.
Sorted(db, order, indices) ==
  LET keys == IF order.desc THEN Reverse(Values) ELSE Values
      having(x) == {i \in ToSet(indices) : db.rows[i][order.column] = x}
  IN  FlattenSeq([n \in 1..Len(keys) |-> Selected(indices, having(keys[n]))])

\* Seeded fault: the page is cut before the offset is skipped.
SlicedShort(q, indices) ==
  SubSeq(indices, q.offset + 1,
         IF q.limit < 0 \/ q.limit > Len(indices) THEN Len(indices) ELSE q.limit)

Sliced(q, indices) ==
  SubSeq(indices, q.offset + 1,
         IF q.limit < 0 \/ q.offset + q.limit > Len(indices) THEN Len(indices)
         ELSE q.offset + q.limit)

Finish(db, q, indices) ==
  IF q.limit = 0 THEN <<>>
  ELSE LET kept == Kept(db, q, indices)
       IN  Sliced(q, IF q.order = Absent THEN kept ELSE Sorted(db, q.order, kept))

Execute(db, q) ==
  LET plan == Plan(db, q.conds)
  IN  Finish(db, q, IF plan = Scan THEN All(db) ELSE Candidates(db, plan))

Count(db, q) ==
  LET plan == Plan(db, q.conds)
      rows == IF plan = Scan THEN DOMAIN db.rows ELSE CandidateSet(db, plan)
  IN  Len(Kept(db, q, InOrder(db, rows)))

\* What sum, avg, min, max and count_distinct run over.
MatchingValues(db, q, c) ==
  LET plan == Plan(db, q.conds)
      rows == IF plan = Scan THEN DOMAIN db.rows ELSE CandidateSet(db, plan)
      kept == Kept(db, q, InOrder(db, rows))
  IN  [n \in 1..Len(kept) |-> db.rows[kept[n]][c]]
=============================================================================
