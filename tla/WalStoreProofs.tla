--------------------------- MODULE WalStoreProofs ---------------------------
(***************************************************************************)
(* Recovery gives every slot the row of the last commit: proofs of         *)
(* WalStore's TypeOK and RecoveryRestores.                                 *)
(***************************************************************************)
EXTENDS WalStore, GeneralLemmas

-----------------------------------------------------------------------------
(* The log as lines.                                                       *)

\* The log with what waits in the buffer.
Lines == log \o buf

\* The row operations no mark follows.
Pending(lines) ==
  {n \in DOMAIN lines : lines[n].op \in RowOps /\ \A m \in n + 1..Len(lines) : lines[m].op \in RowOps}

Prefix(a, c) == Len(a) <= Len(c) /\ \A n \in 1..Len(a) : c[n] = a[n]

\* A line at the end.
LEMMA Appended ==
  ASSUME NEW L \in Seq(Line), NEW r \in Line
  PROVE  /\ Append(L, r) \in Seq(Line) /\ Len(Append(L, r)) = Len(L) + 1
         /\ Append(L, r)[Len(L) + 1] = r
         /\ \A n \in 1..Len(L) : Append(L, r)[n] = L[n]
         /\ Prefix(L, Append(L, r))
<1>1. Append(L, r) \in Seq(Line) /\ Len(Append(L, r)) = Len(L) + 1 /\ Len(L) \in Nat
  OBVIOUS
<1>2. Append(L, r)[Len(L) + 1] = r
  OBVIOUS
<1>3. \A n \in 1..Len(L) : Append(L, r)[n] = L[n]
  OBVIOUS
<1> QED
  BY <1>1, <1>2, <1>3 DEF Prefix

\* Lines behind lines.
LEMMA Joined ==
  ASSUME NEW K \in Seq(Line), NEW L \in Seq(Line)
  PROVE  /\ K \o L \in Seq(Line) /\ Len(K \o L) = Len(K) + Len(L)
         /\ \A n \in 1..Len(K) : (K \o L)[n] = K[n]
         /\ \A n \in 1..Len(L) : (K \o L)[Len(K) + n] = L[n]
         /\ Prefix(K, K \o L)
         /\ \A r \in Line : K \o Append(L, r) = Append(K \o L, r)
<1>1. K \o L \in Seq(Line) /\ Len(K \o L) = Len(K) + Len(L) /\ Len(K) \in Nat /\ Len(L) \in Nat
  OBVIOUS
<1>2. \A n \in 1..Len(K) : (K \o L)[n] = K[n]
  OBVIOUS
<1>3. ASSUME NEW n \in 1..Len(L) PROVE (K \o L)[Len(K) + n] = L[n]
  OBVIOUS
<1>4. ASSUME NEW r \in Line PROVE K \o Append(L, r) = Append(K \o L, r)
  <2>1. <<r>> \in Seq(Line)
    OBVIOUS
  <2>2. K \o (L \o <<r>>) = (K \o L) \o <<r>>
    BY <2>1, ConcatAssociative
  <2> QED
    BY <1>1, <2>2, AppendIsConcat
<1> QED
  BY <1>1, <1>2, <1>3, <1>4 DEF Prefix

-----------------------------------------------------------------------------
(* What a commit covers.                                                   *)

\* Lines that follow change no commit before them.
LEMMA ReadablePrefix ==
  ASSUME NEW K \in Seq(Line), NEW L \in Seq(Line), Prefix(K, L)
  PROVE  \A n \in 1..Len(K) : n \in Readable(K) <=> n \in Readable(L)
<1>1. Len(K) \in Nat /\ Len(L) \in Nat /\ DOMAIN K = 1..Len(K) /\ DOMAIN L = 1..Len(L) /\ Len(K) <= Len(L)
  BY DEF Prefix
<1>2. \A n \in 1..Len(K) : L[n] = K[n]
  BY DEF Prefix
<1> QED
  BY <1>1, <1>2 DEF Readable

LEMMA CommittedGrows ==
  ASSUME NEW K \in Seq(Line), NEW L \in Seq(Line), Prefix(K, L)
  PROVE  Committed(K) \subseteq Committed(L)
<1>1. Len(K) \in Nat /\ Len(L) \in Nat /\ DOMAIN K = 1..Len(K) /\ DOMAIN L = 1..Len(L) /\ Len(K) <= Len(L)
  BY DEF Prefix
<1>2. \A n \in 1..Len(K) : L[n] = K[n]
  BY DEF Prefix
<1> SUFFICES ASSUME NEW n \in Committed(K) PROVE n \in Committed(L)
  OBVIOUS
<1>3. PICK k \in Readable(K) : n < k /\ K[k].op = "commit" /\ \A m \in n + 1..k - 1 : K[m].op \in RowOps
  BY DEF Committed
<1>4. n \in 1..Len(K) /\ k \in 1..Len(K) /\ n \in Readable(K) /\ K[n].op \in RowOps
  BY <1>1, <1>3 DEF Committed, Readable
<1>5. n \in Readable(L) /\ k \in Readable(L)
  BY <1>3, <1>4, ReadablePrefix
<1>6. \A m \in n + 1..k - 1 : L[m].op \in RowOps
  BY <1>1, <1>2, <1>3, <1>4
<1> QED
  BY <1>2, <1>3, <1>4, <1>5, <1>6 DEF Committed

\* A row operation that a later commit covers was committed or pending before.
LEMMA CommittedWithin ==
  ASSUME NEW K \in Seq(Line), NEW L \in Seq(Line), Prefix(K, L), NEW n \in Committed(L), n <= Len(K)
  PROVE  n \in Committed(K) \cup Pending(K)
<1>1. Len(K) \in Nat /\ Len(L) \in Nat /\ DOMAIN K = 1..Len(K) /\ DOMAIN L = 1..Len(L) /\ Len(K) <= Len(L)
  BY DEF Prefix
<1>2. \A m \in 1..Len(K) : L[m] = K[m]
  BY DEF Prefix
<1>3. PICK k \in Readable(L) : n < k /\ L[k].op = "commit" /\ \A m \in n + 1..k - 1 : L[m].op \in RowOps
  BY DEF Committed
<1>4. n \in 1..Len(K) /\ n \in Readable(K) /\ K[n].op \in RowOps /\ k \in 1..Len(L)
  BY <1>1, <1>2, <1>3, ReadablePrefix DEF Committed, Readable
<1>5. CASE k <= Len(K)
  <2>1. k \in Readable(K) /\ K[k].op = "commit"
    BY <1>1, <1>2, <1>3, <1>4, <1>5, ReadablePrefix
  <2>2. \A m \in n + 1..k - 1 : K[m].op \in RowOps
    BY <1>1, <1>2, <1>3, <1>4, <1>5
  <2> QED
    BY <1>3, <1>4, <2>1, <2>2 DEF Committed
<1>6. CASE k > Len(K)
  <2>1. \A m \in n + 1..Len(K) : K[m].op \in RowOps
    BY <1>1, <1>2, <1>3, <1>4, <1>6
  <2> QED
    BY <1>1, <1>4, <2>1 DEF Pending
<1> QED
  BY <1>1, <1>4, <1>5, <1>6

\* Without another commit, nothing else is committed.
LEMMA CommittedStays ==
  ASSUME NEW K \in Seq(Line), NEW L \in Seq(Line), Prefix(K, L),
         \A n \in Len(K) + 1..Len(L) : L[n].op # "commit"
  PROVE  Committed(L) = Committed(K)
<1>1. Len(K) \in Nat /\ Len(L) \in Nat /\ DOMAIN K = 1..Len(K) /\ DOMAIN L = 1..Len(L) /\ Len(K) <= Len(L)
  BY DEF Prefix
<1>2. \A m \in 1..Len(K) : L[m] = K[m]
  BY DEF Prefix
<1> SUFFICES ASSUME NEW n \in Committed(L) PROVE n \in Committed(K)
  BY CommittedGrows
<1>3. PICK k \in Readable(L) : n < k /\ L[k].op = "commit" /\ \A m \in n + 1..k - 1 : L[m].op \in RowOps
  BY DEF Committed
<1>4. n \in 1..Len(L) /\ k \in 1..Len(L) /\ L[n].op \in RowOps /\ n \in Readable(L)
  BY <1>1 DEF Committed, Readable
<1>5. k <= Len(K) /\ k \in 1..Len(K) /\ n \in 1..Len(K)
  BY <1>1, <1>3, <1>4
<1>6. n \in Readable(K) /\ k \in Readable(K)
  BY <1>4, <1>5, ReadablePrefix
<1>7. \A m \in n + 1..k - 1 : K[m].op \in RowOps
  BY <1>1, <1>2, <1>3, <1>5
<1> QED
  BY <1>2, <1>3, <1>4, <1>5, <1>6, <1>7 DEF Committed

\* A commit record covers what is pending.
LEMMA CommittedNow ==
  ASSUME NEW L \in Seq(Line), NEW r \in Line, r.op = "commit", \A n \in 1..Len(L) : L[n].op # "torn"
  PROVE  Committed(Append(L, r)) = Committed(L) \cup Pending(L)
<1> DEFINE A == Append(L, r)
<1>1. A \in Seq(Line) /\ Len(A) = Len(L) + 1 /\ Prefix(L, A) /\ A[Len(L) + 1] = r /\ Len(L) \in Nat
      /\ DOMAIN A = 1..Len(A) /\ DOMAIN L = 1..Len(L) /\ \A n \in 1..Len(L) : A[n] = L[n]
  BY Appended
<1> HIDE DEF A
<1>2. ASSUME NEW n \in Committed(A) PROVE n \in Committed(L) \cup Pending(L)
  <2>1. n \in 1..Len(A) /\ A[n].op \in RowOps
    BY <1>1 DEF Committed, Readable
  <2>2. n <= Len(L)
    BY <1>1, <2>1 DEF RowOps
  <2> QED
    BY <1>1, <2>2, CommittedWithin
<1>3. Committed(L) \subseteq Committed(A)
  BY <1>1, CommittedGrows
<1>4. ASSUME NEW n \in Pending(L) PROVE n \in Committed(A)
  <2>1. n \in 1..Len(L) /\ L[n].op \in RowOps /\ \A m \in n + 1..Len(L) : L[m].op \in RowOps
    BY <1>1 DEF Pending
  <2>2. \A m \in 1..Len(A) : A[m].op # "torn"
    <3> SUFFICES ASSUME NEW m \in 1..Len(A) PROVE A[m].op # "torn"
      OBVIOUS
    <3>1. m \in 1..Len(L) \/ m = Len(L) + 1
      BY <1>1
    <3> QED
      BY <1>1, <3>1
  <2>3. n \in Readable(A) /\ Len(L) + 1 \in Readable(A)
    BY <1>1, <2>1, <2>2 DEF Readable
  <2>4. A[n].op \in RowOps /\ \A m \in n + 1..Len(L) + 1 - 1 : A[m].op \in RowOps
    BY <1>1, <2>1
  <2>5. n < Len(L) + 1 /\ A[Len(L) + 1].op = "commit"
    BY <1>1, <2>1
  <2> QED
    BY <2>3, <2>4, <2>5 DEF Committed
<1> QED
  BY <1>2, <1>3, <1>4 DEF A

\* A row operation joins what is pending; a mark ends it.
LEMMA PendingAppend ==
  ASSUME NEW L \in Seq(Line), NEW r \in Line
  PROVE  /\ r.op \in RowOps => Pending(Append(L, r)) = Pending(L) \cup {Len(L) + 1}
         /\ r.op \notin RowOps => Pending(Append(L, r)) = {}
         /\ r.op # "commit" => Committed(Append(L, r)) = Committed(L)
<1> DEFINE A == Append(L, r)
<1>1. A \in Seq(Line) /\ Len(A) = Len(L) + 1 /\ Prefix(L, A) /\ A[Len(L) + 1] = r /\ Len(L) \in Nat
      /\ DOMAIN A = 1..Len(A) /\ DOMAIN L = 1..Len(L) /\ \A n \in 1..Len(L) : A[n] = L[n]
  BY Appended
<1> HIDE DEF A
<1>2. ASSUME r.op \in RowOps, NEW n \in Pending(A) PROVE n \in Pending(L) \cup {Len(L) + 1}
  <2>1. n \in 1..Len(A) /\ A[n].op \in RowOps /\ \A m \in n + 1..Len(A) : A[m].op \in RowOps
    BY <1>1 DEF Pending
  <2> SUFFICES ASSUME n # Len(L) + 1 PROVE n \in Pending(L)
    OBVIOUS
  <2>2. n \in 1..Len(L)
    BY <1>1, <2>1
  <2>3. L[n].op \in RowOps /\ \A m \in n + 1..Len(L) : L[m].op \in RowOps
    BY <1>1, <2>1, <2>2
  <2> QED
    BY <1>1, <2>2, <2>3 DEF Pending
<1>3. ASSUME r.op \in RowOps, NEW n \in Pending(L) \cup {Len(L) + 1} PROVE n \in Pending(A)
  <2>1. CASE n = Len(L) + 1
    BY <1>1, <1>3, <2>1 DEF Pending
  <2>2. CASE n \in Pending(L)
    <3>1. n \in 1..Len(L) /\ L[n].op \in RowOps /\ \A m \in n + 1..Len(L) : L[m].op \in RowOps
      BY <1>1, <2>2 DEF Pending
    <3>2. ASSUME NEW m \in n + 1..Len(A) PROVE A[m].op \in RowOps
      <4>1. (m \in n + 1..Len(L) /\ m \in 1..Len(L)) \/ m = Len(L) + 1
        BY <1>1, <3>1
      <4> QED
        BY <1>1, <1>3, <3>1, <4>1
    <3> QED
      BY <1>1, <3>1, <3>2 DEF Pending
  <2> QED
    BY <1>3, <2>1, <2>2
<1>4. ASSUME r.op \notin RowOps, NEW n \in Pending(A) PROVE FALSE
  <2>1. n \in 1..Len(A) /\ A[n].op \in RowOps /\ \A m \in n + 1..Len(A) : A[m].op \in RowOps
    BY <1>1 DEF Pending
  <2>2. n # Len(L) + 1
    BY <1>1, <1>4, <2>1
  <2>3. Len(L) + 1 \in n + 1..Len(A)
    BY <1>1, <2>1, <2>2
  <2> QED
    BY <1>1, <1>4, <2>1, <2>3
<1>5. ASSUME r.op # "commit" PROVE Committed(A) = Committed(L)
  <2>1. \A n \in Len(L) + 1..Len(A) : A[n].op # "commit"
    BY <1>1, <1>5
  <2> QED
    BY <1>1, <2>1, CommittedStays
<1> QED
  BY <1>2, <1>3, <1>4, <1>5 DEF A

-----------------------------------------------------------------------------
(* What a slot's records say of its row.                                   *)

\* The records of a slot in a set of positions, and those left after netting.
At(lines, set, i) == {n \in set : lines[n].idx = i}
Of(lines, set, i) == {n \in Netted(lines, set) : lines[n].idx = i}

\* Replayed over a file with these live slots and values, the records R of slot i
\* bring y: none, and y is there; else y is what the last says, and an insert finds
\* its own row or none, and updates find a row or an insert before them.
Claim(lines, R, alive, vals, i, y) ==
  /\ R = {} => y = IF i \in alive THEN vals[i] ELSE Absent
  /\ \A n \in R : (\A m \in R : m <= n) =>
       /\ lines[n].op = "delete" => y = Absent
       /\ lines[n].op # "delete" => y = lines[n].row
       /\ lines[n].op = "insert" /\ i \in alive => vals[i] = lines[n].row
       /\ lines[n].op = "update" /\ i \notin alive => \E m \in R : lines[m].op = "insert"
  /\ \A m, n \in R : m < n => lines[n].op = "update" /\ lines[m].op # "delete"

Records(lines, R) == \A n \in R : lines[n] \in RowLine

LEMMA OfAt ==
  ASSUME NEW L, NEW S, NEW i
  PROVE  Of(L, S, i) = {n \in At(L, S, i) : \A m \in At(L, S, i) : n < m => L[m].op # "delete"}
BY DEF Of, At, Netted

\* A claim depends on the records of its slot and what is there.
LEMMA ClaimMoves ==
  ASSUME NEW K, NEW L, NEW S, NEW T, NEW i, NEW a, NEW c, NEW v, NEW w, NEW y,
         At(K, S, i) = At(L, T, i), \A n \in At(K, S, i) : K[n] = L[n],
         i \in a <=> i \in c, i \in a => v[i] = w[i],
         Claim(K, Of(K, S, i), a, v, i, y)
  PROVE  Claim(L, Of(L, T, i), c, w, i, y)
<1>1. Of(K, S, i) = Of(L, T, i)
  BY OfAt
<1>2. \A n \in Of(L, T, i) : K[n] = L[n]
  BY <1>1 DEF Of, At, Netted
<1> DEFINE R == Of(L, T, i)
<1> HIDE DEF R
<1>3. Claim(K, R, a, v, i, y) /\ \A n \in R : K[n] = L[n]
  BY <1>1, <1>2 DEF R
<1> QED
  BY <1>3 DEF Claim, R

\* What is read is true of the rows read.
LEMMA ClaimRead ==
  ASSUME NEW L, NEW R, NEW i, NEW a, NEW c, NEW v, NEW w, NEW y, Records(L, R),
         Claim(L, R, a, v, i, y), y = IF i \in c THEN w[i] ELSE Absent
  PROVE  Claim(L, R, c, w, i, y)
<1>1. \A n \in R : L[n].op # "delete" => L[n].row \in Val
  BY DEF Records, RowLine
<1>2. Absent \notin Val
  BY MarkAssumption
<1> QED
  BY <1>1, <1>2 DEF Claim

\* An insert, alone.
LEMMA ClaimInsert ==
  ASSUME NEW L, NEW S, NEW i, NEW a, NEW v, NEW N \in Nat, At(L, S, i) = {N}, L[N].op = "insert",
         i \in a => v[i] = L[N].row
  PROVE  Claim(L, Of(L, S, i), a, v, i, L[N].row)
<1>1. Of(L, S, i) = {N}
  BY OfAt
<1>2. Claim(L, {N}, a, v, i, L[N].row)
  BY DEF Claim
<1> QED
  BY <1>1, <1>2

\* A delete, which drops the records before it.
LEMMA ClaimDelete ==
  ASSUME NEW L, NEW S, NEW T, NEW i, NEW a, NEW v, NEW N \in Nat, \A n \in S : n \in Nat \ {0} /\ n < N,
         At(L, T, i) = S \cup {N}, L[N].op = "delete"
  PROVE  Claim(L, Of(L, T, i), a, v, i, Absent)
<1>1. \A n \in S : n < N /\ n \in Nat
  OBVIOUS
<1>2. Of(L, T, i) = {N}
  <2>1. \A n \in At(L, T, i) : n \in S \/ n = N
    OBVIOUS
  <2>2. ASSUME NEW n \in Of(L, T, i) PROVE n = N
    <3>1. n \in At(L, T, i) /\ ~(n < N)
      BY OfAt
    <3> QED
      BY <1>1, <2>1, <3>1
  <2>3. N \in Of(L, T, i)
    <3>1. N \in At(L, T, i)
      OBVIOUS
    <3>2. ASSUME NEW m \in At(L, T, i) PROVE ~(N < m)
      <4>1. m \in S \/ m = N
        BY <2>1
      <4>2. m \in Nat /\ m <= N
        BY <1>1, <4>1
      <4> QED
        BY <4>2
    <3>3. \A m \in At(L, T, i) : N < m => L[m].op # "delete"
      BY <3>2
    <3> HIDE DEF At
    <3> QED
      BY <3>1, <3>3, OfAt
  <2> QED
    BY <2>2, <2>3
<1>3. Claim(L, {N}, a, v, i, Absent)
  BY DEF Claim
<1> QED
  BY <1>2, <1>3

\* Positions have a greatest.
LEMMA Greatest ==
  ASSUME NEW m \in Nat, NEW R \in SUBSET (1..m), R # {}
  PROVE  \E n \in R : \A k \in R : k <= n
<1> DEFINE T == {x \in Nat : \E n \in R : x = m - n}
<1>1. T \in SUBSET Nat /\ T # {}
  <2>1. PICK n \in R : TRUE
    OBVIOUS
  <2>2. m - n \in T
    BY <2>1
  <2> QED
    BY <2>2
<1>2. PICK x \in T : \A y \in T : x <= y
  <2> HIDE DEF T
  <2> QED
    BY <1>1, NatLeast
<1>3. PICK n \in R : x = m - n
  BY <1>2
<1>4. ASSUME NEW k \in R PROVE k <= n
  <2>1. m - k \in T
    OBVIOUS
  <2>2. m - n <= m - k /\ n \in 1..m /\ k \in 1..m
    BY <1>2, <1>3, <2>1
  <2> QED
    BY <2>2
<1> QED
  BY <1>4

\* A row there, then an update: whatever the file held, the update finds a row.
LEMMA ClaimUpdate ==
  ASSUME NEW K, NEW L, NEW S, NEW T, NEW i, NEW a, NEW v, NEW w, NEW y \in Val, NEW N \in Nat \ {0},
         \A n \in S : n \in Nat \ {0} /\ n < N, At(L, T, i) = At(K, S, i) \cup {N}, \A n \in At(K, S, i) : L[n] = K[n],
         L[N].op = "update",
         Records(K, At(K, S, i)), Claim(K, Of(K, S, i), a, v, i, y)
  PROVE  Claim(L, Of(L, T, i), a, w, i, L[N].row)
<1> DEFINE R == Of(K, S, i)
<1>1. R \in SUBSET (1..N - 1) /\ N - 1 \in Nat
  <2>1. R \subseteq S
    BY DEF Of, Netted
  <2> QED
    BY <2>1
<1>2. Of(L, T, i) = R \cup {N}
  <2>1. ASSUME NEW n \in At(K, S, i) PROVE n < N /\ n \in 1..N - 1
    <3>1. n \in S
      BY DEF At
    <3> QED
      BY <3>1
  <2> DEFINE X == At(K, S, i)
             Y == At(L, T, i)
  <2>2. /\ R = {n \in X : \A m \in X : n < m => K[m].op # "delete"}
        /\ Of(L, T, i) = {n \in Y : \A m \in Y : n < m => L[m].op # "delete"}
    BY OfAt
  <2>3. Y = X \cup {N} /\ \A n \in X : L[n] = K[n] /\ n < N /\ ~(N < n)
    BY <2>1
  <2> HIDE DEF X, Y, R
  <2>4. ~(N < N)
    OBVIOUS
  <2>5. {n \in Y : \A m \in Y : n < m => L[m].op # "delete"} = R \cup {N}
    BY <2>2, <2>3, <2>4
  <2> QED
    BY <2>2, <2>5
<1>3. \A n \in R : L[n] = K[n] /\ K[n] \in RowLine
  BY OfAt DEF Records
<1> HIDE DEF R
<1>4. Claim(K, R, a, v, i, y)
  BY DEF R
<1>5. Absent \notin Val
  BY MarkAssumption
<1>6. ASSUME NEW d \in R, K[d].op = "delete" PROVE FALSE
  <2>1. ASSUME NEW n \in R PROVE n <= d
    <3>1. ~(d < n) /\ d \in Nat /\ n \in Nat
      BY <1>1, <1>4, <1>6 DEF Claim
    <3> QED
      BY <3>1
  <2>2. y = Absent
    BY <1>4, <1>6, <2>1 DEF Claim
  <2> QED
    BY <1>5, <2>2
<1>7. i \notin a => \E m \in R : K[m].op = "insert"
  <2> SUFFICES ASSUME i \notin a PROVE \E m \in R : K[m].op = "insert"
    OBVIOUS
  <2>1. R # {}
    BY <1>4, <1>5 DEF Claim
  <2>2. PICK n \in R : \A k \in R : k <= n
    BY <1>1, <2>1, Greatest
  <2>3. K[n].op \in {"insert", "update"}
    BY <1>3, <1>6 DEF RowLine, RowOps
  <2> QED
    BY <1>4, <2>2, <2>3 DEF Claim
<1>8. \A n \in R : n < N /\ n \in Nat
  BY <1>1
<1>9. Claim(L, R \cup {N}, a, w, i, L[N].row)
  <2>1. \A n \in R \cup {N} : (\A m \in R \cup {N} : m <= n) => n = N
    BY <1>8
  <2>2. \A m, n \in R \cup {N} : m < n => L[n].op = "update" /\ L[m].op # "delete"
    <3> SUFFICES ASSUME NEW m \in R \cup {N}, NEW n \in R \cup {N}, m < n
                 PROVE  L[n].op = "update" /\ L[m].op # "delete"
      OBVIOUS
    <3>1. m \in R
      BY <1>8
    <3>2. L[m].op # "delete"
      BY <1>3, <1>6, <3>1
    <3>3. CASE n = N
      BY <3>2, <3>3
    <3>4. CASE n \in R
      BY <1>3, <1>4, <3>1, <3>2, <3>4 DEF Claim
    <3> QED
      BY <3>3, <3>4
  <2>3. i \notin a => \E m \in R \cup {N} : L[m].op = "insert"
    BY <1>3, <1>7
  <2> QED
    BY <2>1, <2>2, <2>3 DEF Claim
<1> QED
  BY <1>2, <1>9

\* No row, and no records that bring one: the value of a dead slot does not count.
LEMMA ClaimNothing ==
  ASSUME NEW L, NEW R, NEW i, NEW a, NEW v, NEW w, Records(L, R), i \in a => v[i] \in Val,
         Claim(L, R, a, v, i, Absent)
  PROVE  Claim(L, R, a, w, i, Absent)
<1>1. \A n \in R : L[n].op # "delete" => L[n].row \in Val
  BY DEF Records, RowLine
<1>2. Absent \notin Val
  BY MarkAssumption
<1> QED
  BY <1>1, <1>2 DEF Claim

-----------------------------------------------------------------------------
(* Numbers in order.                                                       *)

LEMMA InOrderSorts ==
  ASSUME NEW S \in SUBSET Int, IsFiniteSet(S)
  PROVE  /\ InOrder(S) \in Seq(S) /\ Len(InOrder(S)) = Cardinality(S)
         /\ \A e \in S : \E n \in 1..Len(InOrder(S)) : InOrder(S)[n] = e
         /\ \A m, n \in 1..Len(InOrder(S)) : m < n => InOrder(S)[m] < InOrder(S)[n]
<1>1. InOrder(S) = ByRank(S)
  BY Zenon DEF InOrder, ByRank
<1> QED
  BY <1>1, ByRankSorts

\* Numbers from zero on are in order as they are.
LEMMA InOrderUpTo ==
  ASSUME NEW n \in Nat, NEW k \in 1..n
  PROVE  InOrder(0..n - 1)[k] = k - 1
<1> DEFINE S == 0..n - 1
<1>1. Cardinality(S) = n
  <2>1. 0 \in Int /\ n - 1 \in Int
    OBVIOUS
  <2>2. Cardinality(0..n - 1) = IF 0 > n - 1 THEN 0 ELSE n - 1 - 0 + 1
    BY <2>1, FS_Interval
  <2> QED
    BY <2>2
<1>2. ASSUME NEW e \in S PROVE Cardinality({m \in S : m < e}) = e
  <2>1. {m \in S : m < e} = 0..e - 1
    <3>1. e \in Int /\ e < n
      OBVIOUS
    <3>2. \A m : m \in S /\ m < e <=> m \in 0..e - 1
      BY <3>1
    <3> QED
      BY <3>2
  <2>2. 0 \in Int /\ e - 1 \in Int
    OBVIOUS
  <2>3. Cardinality(0..e - 1) = IF 0 > e - 1 THEN 0 ELSE e - 1 - 0 + 1
    BY <2>2, FS_Interval
  <2>4. Cardinality(0..e - 1) = e
    <3>1. e \in Nat
      OBVIOUS
    <3> QED
      BY <2>3, <3>1
  <2> QED
    BY <2>1, <2>4
<1>3. InOrder(S)[k] = CHOOSE e \in S : Cardinality({m \in S : m < e}) = k - 1
  BY <1>1 DEF InOrder
<1>4. k - 1 \in S
  OBVIOUS
<1>5. \E e \in S : Cardinality({m \in S : m < e}) = k - 1
  BY <1>2, <1>4
<1>6. InOrder(S)[k] \in S /\ Cardinality({m \in S : m < InOrder(S)[k]}) = k - 1
  BY <1>3, <1>5
<1> QED
  BY <1>2, <1>6

-----------------------------------------------------------------------------
(* What recovery replays.                                                  *)

Typed(lines) == \A n \in 1..Len(lines) : lines[n].op \in RowOps => lines[n] \in RowLine

\* The committed records left after netting, in the order of the log.
LEMMA Replayed ==
  ASSUME NEW L \in Seq(Line), Typed(L)
  PROVE  /\ ToReplay(L) \in Seq(RowLine)
         /\ \E kept \in Seq(Netted(L, Committed(L))) :
              /\ Len(ToReplay(L)) = Len(kept)
              /\ \A k \in 1..Len(kept) : ToReplay(L)[k] = L[kept[k]]
              /\ \A n \in Netted(L, Committed(L)) : \E k \in 1..Len(kept) : kept[k] = n
              /\ \A j, k \in 1..Len(kept) : j < k => kept[j] < kept[k]
<1> DEFINE N == Netted(L, Committed(L))
           kept == InOrder(N)
<1>1. Len(L) \in Nat /\ DOMAIN L = 1..Len(L)
  OBVIOUS
<1>2. N \in SUBSET (1..Len(L)) /\ \A n \in N : L[n] \in RowLine
  <2> SUFFICES ASSUME NEW n \in N PROVE n \in 1..Len(L) /\ L[n] \in RowLine
    OBVIOUS
  <2>1. n \in Committed(L)
    BY DEF Netted
  <2>2. n \in 1..Len(L) /\ L[n].op \in RowOps
    BY <1>1, <2>1 DEF Committed, Readable
  <2> QED
    BY <2>2 DEF Typed
<1>3. N \in SUBSET Int /\ IsFiniteSet(N)
  <2> HIDE DEF N
  <2>1. 1 \in Int /\ Len(L) \in Int /\ IsFiniteSet(1..Len(L))
    BY <1>1, FS_Interval
  <2>2. IsFiniteSet(N)
    BY <1>2, <2>1, FS_Subset
  <2>3. \A n \in N : n \in Int
    BY <1>2
  <2> QED
    BY <2>2, <2>3
<1>4. ToReplay(L) = [k \in DOMAIN kept |-> L[kept[k]]]
  BY DEF ToReplay
<1> HIDE DEF N
<1>5. /\ kept \in Seq(N) /\ \A e \in N : \E n \in 1..Len(kept) : kept[n] = e
      /\ \A m, n \in 1..Len(kept) : m < n => kept[m] < kept[n]
  BY <1>3, InOrderSorts
<1> HIDE DEF kept
<1>6. DOMAIN kept = 1..Len(kept) /\ Len(kept) \in Nat /\ \A k \in 1..Len(kept) : kept[k] \in N
  BY <1>5
<1>7. ToReplay(L) \in Seq(RowLine) /\ Len(ToReplay(L)) = Len(kept)
      /\ \A k \in 1..Len(kept) : ToReplay(L)[k] = L[kept[k]]
  <2>1. ToReplay(L) = [k \in 1..Len(kept) |-> L[kept[k]]]
    BY <1>4, <1>6
  <2>2. \A k \in 1..Len(kept) : L[kept[k]] \in RowLine
    BY <1>2, <1>6
  <2>3. ToReplay(L) \in [1..Len(kept) -> RowLine]
    BY <2>1, <2>2
  <2> QED
    BY <1>6, <2>1, <2>3
<1> QED
  BY <1>5, <1>7 DEF N

\* The last committed record survives the netting.
LEMMA NothingToReplay ==
  ASSUME NEW L \in Seq(Line), Typed(L)
  PROVE  ToReplay(L) = <<>> <=> Committed(L) = {}
<1> DEFINE N == Netted(L, Committed(L))
<1>1. PICK kept \in Seq(N) :
        /\ Len(ToReplay(L)) = Len(kept)
        /\ \A n \in N : \E k \in 1..Len(kept) : kept[k] = n
  BY Replayed
<1>2. Committed(L) \in SUBSET (1..Len(L)) /\ Len(L) \in Nat
  BY DEF Committed, Readable
<1>3. Committed(L) # {} => N # {}
  <2> SUFFICES ASSUME Committed(L) # {} PROVE N # {}
    OBVIOUS
  <2>1. PICK n \in Committed(L) : \A m \in Committed(L) : m <= n
    BY <1>2, Greatest
  <2>2. \A m \in Committed(L) : ~(n < m)
    <3> SUFFICES ASSUME NEW m \in Committed(L) PROVE ~(n < m)
      OBVIOUS
    <3>1. m \in Nat /\ n \in Nat /\ m <= n
      BY <1>2, <2>1
    <3> QED
      BY <3>1
  <2>3. n \in N
    BY <2>2 DEF Netted
  <2> QED
    BY <2>3
<1>4. Committed(L) = {} => N = {}
  BY DEF Netted
<1> HIDE DEF N
<1>5. ToReplay(L) \in Seq(RowLine)
  BY Replayed
<1>6. ToReplay(L) = <<>> <=> Len(kept) = 0
  BY <1>1, <1>5
<1>7. N = {} <=> Len(kept) = 0
  <2>1. \A k \in 1..Len(kept) : kept[k] \in N
    BY <1>1
  <2>2. Len(kept) \in Nat
    BY <1>1
  <2> QED
    BY <1>1, <2>1, <2>2
<1> QED
  BY <1>3, <1>4, <1>6, <1>7

-----------------------------------------------------------------------------
(* Types.                                                                  *)

\* Rows stand below the high-water mark and in slots.
LEMMA MarkNat ==
  ASSUME slabs \in 1..MaxSlabs, last \in 0..RowsPerSlab
  PROVE  NextIdx \in Nat /\ NextIdx = slabs * RowsPerSlab - RowsPerSlab + last
<1>1. slabs \in Nat /\ RowsPerSlab \in Nat /\ last \in Nat /\ slabs - 1 \in Nat
  BY SizeAssumption
<1>2. (slabs - 1) * RowsPerSlab = slabs * RowsPerSlab - RowsPerSlab /\ (slabs - 1) * RowsPerSlab \in Nat
  BY <1>1
<1> QED
  BY <1>1, <1>2 DEF NextIdx

\* A row placed is the next one, whether the file grows or not.
LEMMA PlaceType ==
  ASSUME TypeOK, NEW r \in Val, Place(r)
  PROVE  /\ NextIdx \in Slot /\ NextIdx' = NextIdx + 1
         /\ cells' \in [Slot -> Val \cup {Zero}] /\ live' \in SUBSET Slot
         /\ \A i \in live' \cup dlive : cells'[i] \in Val
         /\ slabs' \in 1..MaxSlabs /\ last' \in 0..RowsPerSlab
<1>1. NextIdx \in Slot /\ cells' = [cells EXCEPT ![NextIdx] = r] /\ live' = live \cup {NextIdx}
  BY DEF Place
<1>2. slabs \in 1..MaxSlabs /\ last \in 0..RowsPerSlab /\ MaxSlabs \in Nat /\ RowsPerSlab \in Nat \ {0}
  BY SizeAssumption DEF TypeOK
<1>3. NextIdx \in Nat /\ NextIdx = slabs * RowsPerSlab - RowsPerSlab + last
  BY <1>2, MarkNat
<1>4. cells' \in [Slot -> Val \cup {Zero}] /\ live' \in SUBSET Slot
      /\ \A i \in live' \cup dlive : cells'[i] \in Val
  BY <1>1 DEF TypeOK
<1>5. CASE last = RowsPerSlab
  <2>1. slabs' = slabs + 1 /\ last' = 1
    BY <1>5 DEF Place
  <2>2. NextIdx = slabs * RowsPerSlab
    BY <1>2, <1>3, <1>5
  <2>3. slabs * RowsPerSlab <= MaxSlabs * RowsPerSlab - 1
    BY <1>1, <1>2, <2>2 DEF Slot
  <2>4. slabs < MaxSlabs
    <3> SUFFICES ASSUME slabs >= MaxSlabs PROVE FALSE
      BY <1>2
    <3>1. slabs = MaxSlabs
      BY <1>2
    <3>2. MaxSlabs * RowsPerSlab \in Int
      BY <1>2
    <3> QED
      BY <2>3, <3>1, <3>2
  <2>5. slabs' \in 1..MaxSlabs /\ last' \in 0..RowsPerSlab
    BY <1>2, <2>1, <2>4
  <2>6. NextIdx' = NextIdx + 1
    <3>1. NextIdx' = (slabs' - 1) * RowsPerSlab + last'
      BY DEF NextIdx
    <3>2. slabs' - 1 = slabs /\ last' = 1
      BY <1>2, <2>1
    <3> QED
      BY <2>2, <3>1, <3>2
  <2> QED
    BY <1>1, <1>4, <2>5, <2>6
<1>6. CASE last # RowsPerSlab
  <2>1. slabs' = slabs /\ last' = last + 1
    BY <1>6 DEF Place
  <2>2. slabs' \in 1..MaxSlabs /\ last' \in 0..RowsPerSlab
    BY <1>2, <1>6, <2>1
  <2>3. NextIdx' = NextIdx + 1
    <3>1. NextIdx' = (slabs - 1) * RowsPerSlab + (last + 1)
      BY <2>1 DEF NextIdx
    <3>2. (slabs - 1) * RowsPerSlab \in Int /\ last \in Int
      BY <1>2
    <3> QED
      BY <3>1, <3>2 DEF NextIdx
  <2> QED
    BY <1>1, <1>4, <2>2, <2>3
<1> QED
  BY <1>5, <1>6

\* The packed file has the live rows, and its mark behind them.
LEMMA PackedType ==
  ASSUME TypeOK
  PROVE  /\ Packed.n \in 0..MaxSlabs * RowsPerSlab
         /\ Packed.slabs \in 1..MaxSlabs /\ Packed.mark \in 0..RowsPerSlab
         /\ (Packed.slabs - 1) * RowsPerSlab + Packed.mark = Packed.n
         /\ Packed.cells \in [Slot -> Val \cup {Zero}]
         /\ 0..Packed.n - 1 \in SUBSET Slot
         /\ \A i \in 0..Packed.n - 1 : Packed.cells[i] \in Val
         /\ live = 0..Packed.n - 1 => \A i \in 0..Packed.n - 1 : Packed.cells[i] = cells[i]
<1> DEFINE rows == InOrder(live)
           n == Len(rows)
           needed == (n + RowsPerSlab - 1) \div RowsPerSlab
           size == MaxSlabs * RowsPerSlab
<1>1. size \in Nat /\ MaxSlabs \in Nat \ {0} /\ RowsPerSlab \in Nat \ {0}
  BY SizeAssumption
<1>2. live \in SUBSET Slot /\ Slot = 0..size - 1 /\ cells \in [Slot -> Val \cup {Zero}]
      /\ \A i \in live : cells[i] \in Val
  BY DEF TypeOK, Slot
<1> HIDE DEF size
<1>3. IsFiniteSet(live) /\ Cardinality(live) \in 0..size /\ live \in SUBSET Int
  <2>1. 0 \in Int /\ size - 1 \in Int
    BY <1>1
  <2>2. IsFiniteSet(Slot) /\ Cardinality(Slot) = IF 0 > size - 1 THEN 0 ELSE size - 1 - 0 + 1
    BY <1>2, <2>1, FS_Interval
  <2>3. IsFiniteSet(live) /\ Cardinality(live) <= Cardinality(Slot)
    BY <1>2, <2>2, FS_Subset
  <2>4. Cardinality(live) \in Nat
    BY <2>3, FS_CardinalityType
  <2>5. \A i \in live : i \in Int
    BY <1>2
  <2> QED
    BY <1>1, <2>2, <2>3, <2>4, <2>5
<1>4. rows \in Seq(live) /\ n = Cardinality(live)
  BY <1>3, InOrderSorts
<1> HIDE DEF rows
<1>5. n \in 0..size /\ \A k \in 1..n : rows[k] \in live
  BY <1>3, <1>4
<1>6. Packed = [n |-> n,
                cells |-> [i \in Slot |-> IF i < n THEN cells[rows[i + 1]] ELSE Zero],
                slabs |-> IF n = 0 THEN 1 ELSE needed,
                mark |-> IF n = 0 THEN 0 ELSE n - (needed - 1) * RowsPerSlab]
  BY DEF Packed, rows
<1> HIDE DEF n, needed
<1>7. /\ Packed.n = n
      /\ Packed.cells = [i \in Slot |-> IF i < n THEN cells[rows[i + 1]] ELSE Zero]
      /\ Packed.slabs = IF n = 0 THEN 1 ELSE needed
      /\ Packed.mark = IF n = 0 THEN 0 ELSE n - (needed - 1) * RowsPerSlab
  BY <1>6
<1>8. ASSUME n # 0
      PROVE  needed \in 1..MaxSlabs /\ n - (needed - 1) * RowsPerSlab \in 0..RowsPerSlab
             /\ (needed - 1) * RowsPerSlab + (n - (needed - 1) * RowsPerSlab) = n
  <2>1. needed \in Nat \ {0} /\ (needed - 1) * RowsPerSlab < n /\ n <= needed * RowsPerSlab
    BY <1>1, <1>5, <1>8, Ceiling DEF needed
  <2>2. (needed - 1) * RowsPerSlab \in Int /\ needed * RowsPerSlab = (needed - 1) * RowsPerSlab + RowsPerSlab
    BY <1>1, <2>1
  <2>3. needed <= MaxSlabs
    <3> SUFFICES ASSUME needed > MaxSlabs PROVE FALSE
      BY <1>1, <2>1
    <3>1. needed - 1 >= MaxSlabs /\ needed - 1 \in Nat
      BY <1>1, <2>1
    <3>2. (needed - 1) * RowsPerSlab >= MaxSlabs * RowsPerSlab
      <4>1. needed - 1 - MaxSlabs \in Nat
        BY <1>1, <3>1
      <4>2. (needed - 1 - MaxSlabs) * RowsPerSlab \in Nat
        BY <1>1, <4>1
      <4>3. (needed - 1 - MaxSlabs) * RowsPerSlab = (needed - 1) * RowsPerSlab - MaxSlabs * RowsPerSlab
        BY <1>1, <3>1
      <4>4. (needed - 1) * RowsPerSlab \in Int /\ MaxSlabs * RowsPerSlab \in Int
        BY <1>1, <3>1
      <4> QED
        BY <4>2, <4>3, <4>4
    <3> QED
      BY <1>1, <1>5, <2>1, <2>2, <3>2 DEF size
  <2> QED
    BY <1>1, <1>5, <2>1, <2>2, <2>3
<1>9. Packed.slabs \in 1..MaxSlabs /\ Packed.mark \in 0..RowsPerSlab
      /\ (Packed.slabs - 1) * RowsPerSlab + Packed.mark = Packed.n
  <2>1. CASE n = 0
    <3>1. Packed.slabs = 1 /\ Packed.mark = 0 /\ Packed.n = 0
      BY <1>7, <2>1
    <3>2. (1 - 1) * RowsPerSlab + 0 = 0
      BY <1>1
    <3> QED
      BY <1>1, <3>1, <3>2
  <2>2. CASE n # 0
    BY <1>7, <1>8, <2>2
  <2> QED
    BY <2>1, <2>2
<1>10. ASSUME NEW i \in Slot
       PROVE  /\ i < n => Packed.cells[i] = cells[rows[i + 1]] /\ rows[i + 1] \in live
              /\ ~(i < n) => Packed.cells[i] = Zero
  <2>1. i < n => i + 1 \in 1..n
    BY <1>1, <1>2, <1>5
  <2> QED
    BY <1>5, <1>7, <2>1
<1>11. Packed.cells \in [Slot -> Val \cup {Zero}]
  <2>1. \A i \in Slot : Packed.cells[i] \in Val \cup {Zero}
    BY <1>2, <1>10
  <2>2. Packed.cells = [i \in Slot |-> Packed.cells[i]]
    BY <1>7
  <2> QED
    BY <2>1, <2>2
<1>12. ASSUME NEW i \in 0..n - 1 PROVE i \in Slot /\ i < n
  BY <1>1, <1>2, <1>5
<1>13. \A i \in 0..n - 1 : Packed.cells[i] \in Val
  BY <1>2, <1>10, <1>12
<1>14. ASSUME live = 0..n - 1, NEW i \in 0..n - 1 PROVE Packed.cells[i] = cells[i]
  <2>1. n \in Nat /\ i + 1 \in 1..n /\ i + 1 - 1 = i
    BY <1>1, <1>5
  <2>2. rows[i + 1] = i
    BY <1>14, <2>1, InOrderUpTo DEF rows
  <2> QED
    BY <1>10, <1>12, <2>2
<1>15. n \in 0..MaxSlabs * RowsPerSlab
  BY <1>5 DEF size
<1> QED
  BY <1>7, <1>9, <1>11, <1>12, <1>13, <1>14, <1>15

StoreOK ==
  /\ cells \in [Slot -> Val \cup {Zero}]
  /\ slabs \in 1..MaxSlabs
  /\ dlive \in SUBSET Slot /\ live \in SUBSET Slot
  /\ \A i \in live \cup dlive : cells[i] \in Val
  /\ dmark \in 0..RowsPerSlab /\ last \in 0..RowsPerSlab
LogOK ==
  /\ log \in Seq(Line) /\ buf \in Seq(Line) /\ todo \in Seq(RowLine)
  /\ Typed(Lines)
  /\ Len(buf) < BufferSize
  /\ todo # <<>> => phase = "replay"
ClientOK ==
  /\ saved \in [Slot -> Val \cup {Absent}]
  /\ phase \in {"open", "tx", "down", "replay", "clear"}
  /\ want \in [Slot -> Val \cup {Absent, NoClaim}]
  /\ touched \in SUBSET Slot /\ leaked \in SUBSET Slot /\ aligned \in BOOLEAN

LEMMA TypeParts == TypeOK <=> StoreOK /\ LogOK /\ ClientOK
BY DEF TypeOK, StoreOK, LogOK, ClientOK, Typed, Lines

LEMMA TypePartsNext == TypeOK' <=> StoreOK' /\ LogOK' /\ ClientOK'
BY DEF TypeOK, StoreOK, LogOK, ClientOK, Typed, Lines

LEMMA NoLines == <<>> \in Seq(Line) /\ <<>> \in Seq(RowLine) /\ Len(<<>>) = 0 /\ Len(<<>>) < BufferSize
BY SizeAssumption

LEMMA Marks ==
  /\ \A op \in {"begin", "commit", "rollback", "torn"} : Mark(op) \in Line /\ Mark(op).op = op /\ op \notin RowOps
  /\ \A i \in Slot, r \in Val, op \in {"insert", "update"} :
       Rec(op, i, r) \in RowLine /\ Rec(op, i, r).op = op /\ Rec(op, i, r).idx = i /\ Rec(op, i, r).row = r
  /\ \A i \in Slot :
       Rec("delete", i, Zero) \in RowLine /\ Rec("delete", i, Zero).op = "delete" /\ Rec("delete", i, Zero).idx = i
  /\ \A l \in RowLine : l \in Line
BY DEF Mark, Rec, Line, RowLine, RowOps

\* One line more, flushed or not.
LEMMA TypedAppend ==
  ASSUME NEW L \in Seq(Line), NEW r \in Line, Typed(L), r.op \in RowOps => r \in RowLine
  PROVE  Typed(Append(L, r))
<1> DEFINE A == Append(L, r)
<1>1. Len(A) = Len(L) + 1 /\ A[Len(L) + 1] = r /\ Len(L) \in Nat /\ \A n \in 1..Len(L) : A[n] = L[n]
  BY Appended
<1> HIDE DEF A
<1>2. ASSUME NEW n \in 1..Len(A), A[n].op \in RowOps PROVE A[n] \in RowLine
  <2>1. n \in 1..Len(L) \/ n = Len(L) + 1
    BY <1>1
  <2> QED
    BY <1>1, <1>2, <2>1 DEF Typed
<1> QED
  BY <1>2 DEF Typed, A

LEMMA LoggedNowLines ==
  ASSUME LogOK, NEW r \in Line, r.op \in RowOps => r \in RowLine, LoggedNow(r)
  PROVE  /\ log' = Append(Lines, r) /\ buf' = <<>> /\ Lines' = log' /\ Lines' = Append(Lines, r)
         /\ log' \in Seq(Line) /\ Typed(Lines')
<1>1. log \in Seq(Line) /\ buf \in Seq(Line)
  BY DEF LogOK
<1>2. log' = Append(Lines, r) /\ buf' = <<>>
  BY <1>1, Joined DEF LoggedNow, Lines
<1>3. Lines \in Seq(Line) /\ Typed(Lines)
  BY <1>1, Joined DEF LogOK, Lines
<1>4. log' \in Seq(Line) /\ Typed(Append(Lines, r))
  BY <1>2, <1>3, Appended, TypedAppend
<1>5. Lines' = log'
  <2>1. Lines' = log' \o buf'
    BY DEF Lines
  <2> QED
    BY <1>2, <1>4, <2>1, ConcatEmptySeq
<1> QED
  BY <1>2, <1>4, <1>5

LEMMA LoggedLines ==
  ASSUME LogOK, NEW r \in Line, r.op \in RowOps => r \in RowLine, Logged(r)
  PROVE  /\ Lines' = Append(Lines, r) /\ Typed(Lines')
         /\ log' \in Seq(Line) /\ buf' \in Seq(Line) /\ Len(buf') < BufferSize
         /\ (log' = log /\ buf' = Append(buf, r)) \/ (log' = Append(Lines, r) /\ buf' = <<>>)
<1>1. CASE Len(buf) + 1 >= BufferSize
  <2>1. LoggedNow(r)
    BY <1>1 DEF Logged, LoggedNow
  <2> QED
    BY <2>1, LoggedNowLines, NoLines
<1>2. CASE ~(Len(buf) + 1 >= BufferSize)
  <2>1. log' = log /\ buf' = Append(buf, r)
    BY <1>2 DEF Logged
  <2>2. log \in Seq(Line) /\ buf \in Seq(Line) /\ Lines \in Seq(Line) /\ Typed(Lines)
    BY Joined DEF LogOK, Lines
  <2>3. Lines' = Append(Lines, r)
    <3>1. Lines' = log' \o buf'
      BY DEF Lines
    <3> QED
      BY <2>1, <2>2, <3>1, Joined DEF Lines
  <2>4. buf' \in Seq(Line) /\ Len(buf') = Len(buf) + 1
    BY <2>1, <2>2, Appended
  <2>5. Len(buf') < BufferSize
    BY <1>2, <2>2, <2>4, SizeAssumption
  <2>6. Typed(Lines')
    BY <2>2, <2>3, TypedAppend
  <2> QED
    BY <2>1, <2>2, <2>3, <2>4, <2>5, <2>6
<1> QED
  BY <1>1, <1>2

\* Lines of a shorter log, or of none.
LEMMA EmptyLines ==
  ASSUME log' = <<>>, buf' = <<>>
  PROVE  Lines' = <<>> /\ Typed(Lines') /\ Len(Lines') = 0
<1>1. Lines' = <<>>
  <2>1. Lines' = log' \o buf'
    BY DEF Lines
  <2> QED
    BY <2>1, NoLines, ConcatEmptySeq
<1> QED
  BY <1>1, NoLines DEF Typed

LEMMA ReadType ==
  ASSUME TypeOK
  PROVE  /\ View \in [Slot -> Val \cup {Absent}] /\ FileView \in [Slot -> Val \cup {Absent}]
         /\ EmptyView \in [Slot -> Val \cup {Absent}]
         /\ \A i \in Slot : Get(i) \in Val \cup {Absent}
         /\ \A i \in Slot : View[i] = Get(i) /\ (i \in live <=> Get(i) # Absent)
BY MarkAssumption DEF TypeOK, View, FileView, EmptyView, Get

\* A write of the client, by the line it logs.
LEMMA WroteType ==
  ASSUME LogOK, ClientOK, NEW op, NEW i \in Slot, NEW r, Rec(op, i, r) \in RowLine, Wrote(op, i, r)
  PROVE  LogOK' /\ ClientOK'
<1>1. Rec(op, i, r) \in Line
  BY Marks
<1>2. phase' = phase /\ todo' = todo /\ saved' = saved /\ aligned' = aligned
  BY DEF Wrote
<1>3. LogOK'
  <2>1. CASE InTx
    <3>1. Logged(Rec(op, i, r))
      BY <2>1 DEF Wrote
    <3> QED
      BY <1>1, <1>2, <3>1, LoggedLines DEF LogOK
  <2>2. CASE ~InTx
    <3>1. log' = log /\ buf' = buf
      BY <2>2 DEF Wrote
    <3>2. Lines' = Lines
      BY <3>1 DEF Lines
    <3> QED
      BY <1>2, <3>1, <3>2 DEF LogOK, Typed
  <2> QED
    BY <2>1, <2>2
<1>4. ClientOK'
  <2>1. CASE InTx
    BY <1>2, <2>1 DEF Wrote, ClientOK
  <2>2. CASE ~InTx
    BY <1>2, <2>2 DEF Wrote, ClientOK
  <2> QED
    BY <2>1, <2>2
<1> QED
  BY <1>3, <1>4

LEMMA InsertType == ASSUME TypeOK, NEW r \in Val, Insert(r) PROVE TypeOK'
<1>1. Place(r) /\ Wrote("insert", NextIdx, r)
  BY DEF Insert
<1>2. dlive' = dlive /\ dmark' = dmark
  BY <1>1 DEF Wrote
<1>3. StoreOK'
  BY <1>1, <1>2, PlaceType DEF StoreOK, TypeOK
<1>4. LogOK' /\ ClientOK'
  BY <1>1, PlaceType, Marks, WroteType, TypeParts
<1> QED
  BY <1>3, <1>4, TypePartsNext

LEMMA UpdateType == ASSUME TypeOK, NEW i \in live, NEW r \in Val, Update(i, r) PROVE TypeOK'
<1>1. Wrote("update", i, r) /\ cells' = [cells EXCEPT ![i] = r] /\ UNCHANGED <<slabs, live, last>> /\ i \in Slot
  BY DEF Update, TypeOK
<1>2. dlive' = dlive /\ dmark' = dmark
  BY <1>1 DEF Wrote
<1>3. StoreOK'
  BY <1>1, <1>2 DEF StoreOK, TypeOK
<1>4. LogOK' /\ ClientOK'
  BY <1>1, Marks, WroteType, TypeParts
<1> QED
  BY <1>3, <1>4, TypePartsNext

LEMMA DeleteType == ASSUME TypeOK, NEW i \in live, Delete(i) PROVE TypeOK'
<1>1. Wrote("delete", i, Zero) /\ live' = live \ {i} /\ UNCHANGED <<slabs, cells, last>> /\ i \in Slot
  BY DEF Delete, TypeOK
<1>2. dlive' = dlive /\ dmark' = dmark
  BY <1>1 DEF Wrote
<1>3. StoreOK'
  BY <1>1, <1>2 DEF StoreOK, TypeOK
<1>4. LogOK' /\ ClientOK'
  BY <1>1, Marks, WroteType, TypeParts
<1> QED
  BY <1>3, <1>4, TypePartsNext

LEMMA BeginType == ASSUME TypeOK, Begin PROVE TypeOK'
<1>1. StoreOK'
  BY DEF Begin, StoreOK, TypeOK
<1>2. LogOK'
  <2>1. Logged(Mark("begin")) /\ todo' = todo /\ todo = <<>>
    BY DEF Begin, TypeOK
  <2> QED
    BY <2>1, Marks, LoggedLines, TypeParts DEF LogOK
<1>3. ClientOK'
  BY ReadType DEF Begin, ClientOK, TypeOK
<1> QED
  BY <1>1, <1>2, <1>3, TypePartsNext

LEMMA OwedType == ASSUME TypeOK PROVE Owed \in [Slot -> Val \cup {Absent, NoClaim}]
BY ReadType DEF Owed, TypeOK

LEMMA CommitType == ASSUME TypeOK, Commit PROVE TypeOK'
<1>1. StoreOK'
  BY DEF Commit, StoreOK, TypeOK
<1>2. LogOK'
  <2>1. LoggedNow(Mark("commit")) /\ todo' = todo /\ todo = <<>>
    BY DEF Commit, TypeOK, InTx
  <2>2. LogOK /\ Mark("commit") \in Line /\ Mark("commit").op \notin RowOps
    BY Marks, TypeParts
  <2>3. log' \in Seq(Line) /\ buf' = <<>> /\ Typed(Lines')
    BY <2>1, <2>2, LoggedNowLines
  <2> QED
    BY <2>1, <2>3, NoLines DEF LogOK
<1>3. ClientOK'
  BY ReadType, OwedType DEF Commit, ClientOK, TypeOK
<1> QED
  BY <1>1, <1>2, <1>3, TypePartsNext

\* What the undo list brings back.
LEMMA UndoneType ==
  ASSUME TypeOK, Undone, UNCHANGED <<slabs, dlive, dmark, last>>
  PROVE  StoreOK'
<1>1. cells' \in [Slot -> Val \cup {Zero}] /\ live' \in SUBSET Slot
  BY DEF Undone, TypeOK
<1>2. \A i \in live' \cup dlive : cells'[i] \in Val
  BY DEF Undone, TypeOK
<1> QED
  BY <1>1, <1>2 DEF StoreOK, TypeOK

LEMMA RollbackType == ASSUME TypeOK, Rollback PROVE TypeOK'
<1>1. StoreOK'
  BY UndoneType DEF Rollback
<1>2. LogOK'
  <2>1. LoggedNow(Mark("rollback")) /\ todo' = todo /\ todo = <<>>
    BY DEF Rollback, TypeOK, InTx
  <2>2. LogOK /\ Mark("rollback") \in Line /\ Mark("rollback").op \notin RowOps
    BY Marks, TypeParts
  <2>3. log' \in Seq(Line) /\ buf' = <<>> /\ Typed(Lines')
    BY <2>1, <2>2, LoggedNowLines
  <2> QED
    BY <2>1, <2>3, NoLines DEF LogOK
<1>3. ClientOK'
  BY ReadType DEF Rollback, Undone, ClientOK, TypeOK
<1> QED
  BY <1>1, <1>2, <1>3, TypePartsNext

LEMMA TypedJoin ==
  ASSUME NEW K \in Seq(Line), NEW L \in Seq(Line), Typed(K), Typed(L)
  PROVE  Typed(K \o L)
<1> DEFINE A == K \o L
<1>1. /\ Len(A) = Len(K) + Len(L) /\ Len(K) \in Nat /\ Len(L) \in Nat
      /\ \A n \in 1..Len(K) : A[n] = K[n]
      /\ \A n \in 1..Len(L) : A[Len(K) + n] = L[n]
  BY Joined
<1> HIDE DEF A
<1>2. ASSUME NEW n \in 1..Len(A), A[n].op \in RowOps PROVE A[n] \in RowLine
  <2>1. CASE n <= Len(K)
    BY <1>1, <1>2, <2>1 DEF Typed
  <2>2. CASE n > Len(K)
    <3>1. n - Len(K) \in 1..Len(L) /\ Len(K) + (n - Len(K)) = n
      BY <1>1, <2>2
    <3> QED
      BY <1>1, <1>2, <3>1 DEF Typed
  <2> QED
    BY <1>1, <2>1, <2>2
<1> QED
  BY <1>2 DEF Typed, A

\* The log after a commit that failed: the buffer's lines twice, and a rollback.
LEMMA TwiceLines ==
  ASSUME LogOK, CommitFails
  PROVE  LET lines == Append(buf, Mark("commit"))
             first == Append(Lines, Mark("commit"))
         IN  /\ lines \in Seq(Line) /\ first \in Seq(Line) /\ first \o lines \in Seq(Line)
             /\ Typed(lines) /\ Typed(first)
             /\ log' = Append(first \o lines, Mark("rollback")) /\ buf' = <<>> /\ Lines' = log'
             /\ log' \in Seq(Line) /\ Typed(log')
<1> DEFINE lines == Append(buf, Mark("commit"))
           first == Append(Lines, Mark("commit"))
<1>1. log \in Seq(Line) /\ buf \in Seq(Line) /\ Lines \in Seq(Line) /\ Typed(Lines)
  BY Joined DEF LogOK, Lines
<1>2. Typed(buf)
  <2>1. \A n \in 1..Len(buf) : Lines[Len(log) + n] = buf[n] /\ Len(log) + n \in 1..Len(Lines)
    BY <1>1, Joined DEF Lines
  <2> QED
    BY <1>1, <2>1 DEF Typed
<1>3. lines \in Seq(Line) /\ first \in Seq(Line) /\ Typed(lines) /\ Typed(first)
  BY <1>1, <1>2, Marks, Appended, TypedAppend
<1>m. /\ Mark("commit") \in Line /\ Mark("rollback") \in Line
      /\ Mark("rollback").op \notin RowOps
  BY Marks
<1>4. first = log \o lines
  BY <1>1, <1>m, Joined DEF Lines
<1>5. log' = log \o lines \o lines \o <<Mark("rollback")>> /\ buf' = <<>>
  BY DEF CommitFails
<1> HIDE DEF lines, first
<1>6. first \o lines \in Seq(Line) /\ Typed(first \o lines)
  BY <1>3, Joined, TypedJoin
<1>7. log' = Append(first \o lines, Mark("rollback"))
  BY <1>4, <1>5, <1>6, Marks, AppendIsConcat
<1>8. log' \in Seq(Line) /\ Typed(log')
  BY <1>6, <1>7, <1>m, Appended, TypedAppend
<1>9. Lines' = log'
  <2>1. Lines' = log' \o buf'
    BY DEF Lines
  <2> QED
    BY <1>5, <1>8, <2>1, ConcatEmptySeq
<1> QED
  BY <1>3, <1>5, <1>6, <1>7, <1>8, <1>9 DEF lines, first

LEMMA CommitFailsType == ASSUME TypeOK, CommitFails PROVE TypeOK'
<1>1. StoreOK'
  BY UndoneType DEF CommitFails
<1>2. LogOK'
  <2>1. todo' = todo /\ todo = <<>>
    BY DEF CommitFails, TypeOK, InTx
  <2>2. log' \in Seq(Line) /\ buf' = <<>> /\ Lines' = log' /\ Typed(log')
    BY TwiceLines, TypeParts
  <2> QED
    BY <2>1, <2>2, NoLines, TypeParts DEF LogOK
<1>3. ClientOK'
  BY ReadType DEF CommitFails, Undone, ClientOK, TypeOK
<1> QED
  BY <1>1, <1>2, <1>3, TypePartsNext

LEMMA FlushType == ASSUME TypeOK, Flush PROVE TypeOK'
<1>1. PersistBitmaps /\ PersistMark /\ UNCHANGED <<cells, slabs, log, live, last, buf, saved, phase, todo, touched, leaked, aligned>>
  BY DEF Flush, memory
<1>2. StoreOK'
  BY <1>1 DEF StoreOK, TypeOK, PersistBitmaps, PersistMark
<1>3. LogOK'
  <2>1. Lines' = Lines
    BY <1>1 DEF Lines
  <2> QED
    BY <1>1, <2>1, TypeParts DEF LogOK, Typed
<1>4. ClientOK'
  <2>1. want' \in [Slot -> Val \cup {Absent, NoClaim}]
    BY ReadType DEF Flush, TypeOK
  <2> QED
    BY <1>1, <2>1 DEF ClientOK, TypeOK
<1> QED
  BY <1>2, <1>3, <1>4, TypePartsNext

LEMMA CheckpointType == ASSUME TypeOK, Checkpoint PROVE TypeOK'
<1>1. StoreOK'
  BY DEF StoreOK, TypeOK, Checkpoint, PersistBitmaps, PersistMark
<1>2. LogOK'
  <2>1. log' = <<>> /\ buf' = <<>> /\ todo' = todo /\ phase' = phase
    BY DEF Checkpoint
  <2> QED
    BY <2>1, EmptyLines, NoLines, TypeParts DEF LogOK
<1>3. ClientOK'
  <2>1. want' \in [Slot -> Val \cup {Absent, NoClaim}]
    BY ReadType DEF Checkpoint, TypeOK
  <2> QED
    BY <2>1 DEF Checkpoint, ClientOK, TypeOK
<1> QED
  BY <1>1, <1>2, <1>3, TypePartsNext

LEMMA CompactType == ASSUME TypeOK, Compact PROVE TypeOK'
<1>1. /\ cells' = Packed.cells /\ slabs' = Packed.slabs /\ dlive' = 0 .. Packed.n - 1 /\ dmark' = Packed.mark
      /\ live' = 0 .. Packed.n - 1 /\ last' = Packed.mark /\ log' = <<>> /\ buf' = <<>>
      /\ want' = View' /\ leaked' = {} /\ UNCHANGED <<saved, phase, todo, touched, aligned>>
  BY DEF Compact, Swap
<1>2. StoreOK'
  BY <1>1, PackedType DEF StoreOK
<1>3. LogOK'
  BY <1>1, EmptyLines, NoLines, TypeParts DEF LogOK
<1>4. ClientOK'
  <2>1. View' \in [Slot -> Val \cup {Absent}]
    BY <1>2 DEF StoreOK, View, Get
  <2> QED
    BY <1>1, <2>1 DEF ClientOK, TypeOK
<1> QED
  BY <1>2, <1>3, <1>4, TypePartsNext

\* What is left when the process goes.
LEMMA ForgottenType ==
  ASSUME TypeOK, Forgotten, log' \in Seq(Line), Typed(log')
  PROVE  LogOK' /\ saved' \in [Slot -> Val \cup {Absent}] /\ touched' = {} /\ phase' = "down"
         /\ live' = {} /\ last' \in 0..RowsPerSlab /\ Lines' = log'
<1>1. live' = {} /\ last' = 0 /\ buf' = <<>> /\ todo' = <<>> /\ saved' = EmptyView /\ touched' = {} /\ phase' = "down"
  BY DEF Forgotten
<1>2. Lines' = log'
  <2>1. Lines' = log' \o buf'
    BY DEF Lines
  <2> QED
    BY <1>1, <2>1, ConcatEmptySeq
<1>3. LogOK'
  BY <1>1, <1>2, NoLines DEF LogOK
<1> QED
  BY <1>1, <1>2, <1>3, ReadType, SizeAssumption

LEMMA LogTyped == ASSUME LogOK PROVE log \in Seq(Line) /\ buf \in Seq(Line) /\ Lines \in Seq(Line) /\ Typed(log)
<1>1. log \in Seq(Line) /\ buf \in Seq(Line)
  BY DEF LogOK
<1>2. Lines \in Seq(Line) /\ Len(Lines) = Len(log) + Len(buf) /\ \A n \in 1..Len(log) : Lines[n] = log[n]
  BY <1>1, Joined DEF Lines
<1>3. Typed(log)
  BY <1>1, <1>2 DEF LogOK, Typed
<1> QED
  BY <1>1, <1>2, <1>3

LEMMA CloseType == ASSUME TypeOK, Close PROVE TypeOK'
<1>1. Forgotten /\ log' = <<>> /\ PersistBitmaps /\ PersistMark /\ want' = View /\ leaked' = {}
      /\ UNCHANGED <<cells, slabs, aligned>>
  BY DEF Close
<1>2. LogOK' /\ saved' \in [Slot -> Val \cup {Absent}] /\ touched' = {} /\ phase' = "down"
      /\ live' = {} /\ last' \in 0..RowsPerSlab
  BY <1>1, NoLines, ForgottenType DEF Typed
<1>3. StoreOK'
  BY <1>1, <1>2 DEF StoreOK, TypeOK, PersistBitmaps, PersistMark
<1>4. ClientOK'
  BY <1>1, <1>2, ReadType DEF ClientOK, TypeOK
<1> QED
  BY <1>2, <1>3, <1>4, TypePartsNext

LEMMA CrashType == ASSUME TypeOK, Crash PROVE TypeOK'
<1>1. Forgotten /\ UNCHANGED <<cells, slabs, dlive, dmark, log, want, leaked, aligned>>
  BY DEF Crash, disk
<1>2. LogOK' /\ saved' \in [Slot -> Val \cup {Absent}] /\ touched' = {} /\ phase' = "down"
      /\ live' = {} /\ last' \in 0..RowsPerSlab
  BY <1>1, LogTyped, ForgottenType, TypeParts
<1>3. StoreOK'
  BY <1>1, <1>2 DEF StoreOK, TypeOK
<1>4. ClientOK'
  BY <1>1, <1>2 DEF ClientOK, TypeOK
<1> QED
  BY <1>2, <1>3, <1>4, TypePartsNext

LEMMA CrashInFlushType == ASSUME TypeOK, CrashInFlush PROVE TypeOK'
<1>1. Forgotten /\ PersistBitmaps /\ UNCHANGED <<cells, slabs, dmark, log, leaked, aligned>>
  BY DEF CrashInFlush
<1>2. LogOK' /\ saved' \in [Slot -> Val \cup {Absent}] /\ touched' = {} /\ phase' = "down"
      /\ live' = {} /\ last' \in 0..RowsPerSlab
  BY <1>1, LogTyped, ForgottenType, TypeParts
<1>3. StoreOK'
  BY <1>1, <1>2 DEF StoreOK, TypeOK, PersistBitmaps
<1>4. ClientOK'
  <2>1. want' \in [Slot -> Val \cup {Absent, NoClaim}]
    BY DEF CrashInFlush, TypeOK
  <2> QED
    BY <1>1, <1>2, <2>1 DEF ClientOK, TypeOK
<1> QED
  BY <1>2, <1>3, <1>4, TypePartsNext

LEMMA CrashInCompactType == ASSUME TypeOK, CrashInCompact PROVE TypeOK'
<1>1. Forgotten /\ Swap /\ UNCHANGED <<log, leaked>>
  BY DEF CrashInCompact
<1>2. LogOK' /\ saved' \in [Slot -> Val \cup {Absent}] /\ touched' = {} /\ phase' = "down"
      /\ live' = {} /\ last' \in 0..RowsPerSlab
  BY <1>1, LogTyped, ForgottenType, TypeParts
<1>3. StoreOK'
  BY <1>1, <1>2, PackedType DEF StoreOK, TypeOK, Swap
<1>4. ClientOK'
  <2>1. want' \in [Slot -> Val \cup {Absent, NoClaim}]
    <3>1. \A i \in Slot : i < Packed.n => i \in 0..Packed.n - 1
      BY PackedType, SizeAssumption DEF Slot
    <3>2. want' = [i \in Slot |-> IF InLog(i) /\ ToReplay(log) # <<>> THEN want[i]
                                  ELSE IF i < Packed.n THEN Packed.cells[i] ELSE Absent]
      BY DEF CrashInCompact
    <3> QED
      BY <3>1, <3>2, PackedType DEF TypeOK
  <2>2. aligned' \in BOOLEAN
    BY DEF CrashInCompact
  <2> QED
    BY <1>1, <1>2, <2>1, <2>2 DEF ClientOK, TypeOK
<1> QED
  BY <1>2, <1>3, <1>4, TypePartsNext

\* The log after an exit in the middle of a commit.
LEMMA CutLines ==
  ASSUME TypeOK, NEW n \in 0..Len(buf) + 1, NEW torn \in BOOLEAN, CrashInCommit(n, torn)
  PROVE  LET lines == Append(buf, Mark("commit"))
             part == SubSeq(lines, 1, n)
         IN  /\ lines \in Seq(Line) /\ part \in Seq(Line) /\ Len(part) = n /\ Len(lines) = Len(buf) + 1
             /\ \A m \in 1..n : part[m] = lines[m]
             /\ \A m \in 1..Len(buf) : lines[m] = buf[m]
             /\ log \o part \in Seq(Line)
             /\ log' = (IF torn THEN Append(log \o part, Mark("torn")) ELSE log \o part)
             /\ torn => n < Len(buf) + 1
             /\ log' \in Seq(Line) /\ Typed(log')
<1> DEFINE lines == Append(buf, Mark("commit"))
           part == SubSeq(lines, 1, n)
<1>1. log \in Seq(Line) /\ buf \in Seq(Line) /\ Lines \in Seq(Line) /\ Typed(Lines) /\ Len(buf) \in Nat
      /\ Mark("commit") \in Line /\ Mark("torn") \in Line /\ "torn" \notin RowOps /\ Mark("torn").op = "torn"
      /\ Mark("commit").op \notin RowOps
  BY LogTyped, Marks, TypeParts DEF LogOK
<1>2. lines \in Seq(Line) /\ Len(lines) = Len(buf) + 1 /\ \A m \in 1..Len(buf) : lines[m] = buf[m]
  BY <1>1, Appended
<1>3. log' = log \o part \o (IF torn THEN <<Mark("torn")>> ELSE <<>>) /\ (torn => n < Len(lines))
  BY DEF CrashInCommit
<1>4. Typed(log) /\ Typed(lines)
  <2>1. \A m \in 1..Len(buf) : Lines[Len(log) + m] = buf[m] /\ Len(log) + m \in 1..Len(Lines)
    BY <1>1, Joined DEF Lines
  <2>2. Typed(buf)
    BY <1>1, <2>1 DEF Typed
  <2> QED
    BY <1>1, <2>2, LogTyped, TypedAppend, TypeParts
<1> HIDE DEF lines
<1>5. part \in Seq(Line) /\ Len(part) = n /\ \A m \in 1..n : part[m] = lines[m]
  BY <1>1, <1>2
<1> HIDE DEF part
<1>6. Typed(part)
  BY <1>1, <1>2, <1>4, <1>5 DEF Typed
<1>7. log \o part \in Seq(Line) /\ Typed(log \o part)
  BY <1>1, <1>4, <1>5, <1>6, Joined, TypedJoin
<1>8. log' = IF torn THEN Append(log \o part, Mark("torn")) ELSE log \o part
  <2>1. CASE torn
    BY <1>1, <1>3, <1>7, <2>1, AppendIsConcat
  <2>2. CASE ~torn
    BY <1>3, <1>7, <2>2, ConcatEmptySeq
  <2> QED
    BY <2>1, <2>2
<1>9. log' \in Seq(Line) /\ Typed(log')
  BY <1>1, <1>7, <1>8, Appended, TypedAppend
<1> QED
  BY <1>2, <1>3, <1>5, <1>7, <1>8, <1>9 DEF lines, part

LEMMA CrashInCommitType ==
  ASSUME TypeOK, NEW n \in 0..Len(buf) + 1, NEW torn \in BOOLEAN, CrashInCommit(n, torn)
  PROVE  TypeOK'
<1>1. Forgotten /\ UNCHANGED <<cells, slabs, dlive, dmark, aligned>>
  BY DEF CrashInCommit
<1>2. LogOK' /\ saved' \in [Slot -> Val \cup {Absent}] /\ touched' = {} /\ phase' = "down"
      /\ live' = {} /\ last' \in 0..RowsPerSlab
  BY <1>1, CutLines, ForgottenType
<1>3. StoreOK'
  BY <1>1, <1>2 DEF StoreOK, TypeOK
<1>4. ClientOK'
  <2>1. want' \in [Slot -> Val \cup {Absent, NoClaim}] /\ leaked' \in SUBSET Slot
    BY OwedType DEF CrashInCommit, TypeOK
  <2> QED
    BY <1>1, <1>2, <2>1 DEF ClientOK, TypeOK
<1> QED
  BY <1>2, <1>3, <1>4, TypePartsNext

LEMMA LoadedType ==
  ASSUME TypeOK
  PROVE  LoadedLast \in 0..RowsPerSlab /\ (phase = "down" => todo = <<>>)
BY SizeAssumption DEF LoadedLast, TypeOK

LEMMA LoadType == ASSUME TypeOK, Load PROVE TypeOK'
<1>1. live' = dlive /\ last' = LoadedLast /\ todo' = ToReplay(log) /\ UNCHANGED <<cells, slabs, dlive, dmark, log, buf, saved, touched>>
      /\ phase' = (IF todo' = <<>> THEN "open" ELSE "replay")
  BY DEF Load, disk
<1>2. StoreOK'
  BY <1>1, LoadedType DEF StoreOK, TypeOK
<1>3. LogOK'
  <2>1. Lines' = Lines
    BY <1>1 DEF Lines
  <2>2. ToReplay(log) \in Seq(RowLine)
    BY LogTyped, Replayed, TypeParts
  <2> QED
    BY <1>1, <2>1, <2>2, TypeParts DEF LogOK, Typed
<1>4. ClientOK'
  <2>1. want' \in [Slot -> Val \cup {Absent, NoClaim}] /\ leaked' \in SUBSET Slot
    BY ReadType DEF Load, TypeOK
  <2>2. aligned' \in BOOLEAN
    BY DEF Load, TypeOK, Fits
  <2> QED
    BY <1>1, <2>1, <2>2 DEF ClientOK, TypeOK
<1> QED
  BY <1>2, <1>3, <1>4, TypePartsNext

\* The head of what is left, and the rest.
LEMMA TodoHead ==
  ASSUME TypeOK, todo # <<>>
  PROVE  /\ Head(todo) = todo[1] /\ Head(todo) \in RowLine /\ Tail(todo) \in Seq(RowLine)
         /\ Len(todo) \in Nat \ {0} /\ Len(Tail(todo)) = Len(todo) - 1
         /\ \A n \in 1..Len(todo) - 1 : Tail(todo)[n] = todo[n + 1]
<1>1. todo \in Seq(RowLine)
  BY DEF TypeOK
<1> HIDE DEF RowLine
<1>2. Head(todo) = todo[1] /\ Head(todo) \in RowLine /\ Tail(todo) \in Seq(RowLine)
  BY <1>1
<1>3. Len(todo) \in Nat \ {0} /\ Len(Tail(todo)) = Len(todo) - 1
  BY <1>1
<1>4. \A n \in 1..Len(todo) - 1 : Tail(todo)[n] = todo[n + 1]
  BY <1>1
<1> QED
  BY <1>2, <1>3, <1>4

LEMMA ReplayType == ASSUME TypeOK, Replay PROVE TypeOK'
<1> DEFINE rec == Head(todo)
<1>1. phase = "replay" /\ todo # <<>> /\ todo' = Tail(todo)
      /\ UNCHANGED <<dlive, dmark, log, buf, saved, phase, want, touched, leaked, aligned>>
  BY DEF Replay, ghost
<1>2. rec \in RowLine /\ rec.idx \in Slot /\ (rec.op # "delete" => rec.row \in Val) /\ rec.op \in RowOps
  BY <1>1, TodoHead DEF RowLine
<1>3. \/ rec.op = "insert" /\ ReplayInsert(rec)
      \/ rec.op = "update" /\ ReplayUpdate(rec)
      \/ rec.op = "delete" /\ ReplayDelete(rec)
  BY DEF Replay
<1> HIDE DEF rec
<1>4. ASSUME rec.op = "insert", ReplayInsert(rec) PROVE StoreOK'
  <2>1. CASE Get(rec.idx) = Absent
    <3>1. Place(rec.row) /\ rec.row \in Val
      BY <1>2, <1>4, <2>1 DEF ReplayInsert
    <3>2. /\ cells' \in [Slot -> Val \cup {Zero}] /\ live' \in SUBSET Slot
          /\ \A i \in live' \cup dlive : cells'[i] \in Val
          /\ slabs' \in 1..MaxSlabs /\ last' \in 0..RowsPerSlab
      BY <3>1, PlaceType
    <3>3. dlive' = dlive /\ dlive' \in SUBSET Slot /\ dmark' \in 0..RowsPerSlab
      BY <1>1 DEF TypeOK
    <3>4. \A i \in live' \cup dlive' : cells'[i] \in Val
      BY <3>2, <3>3
    <3> QED
      BY <3>2, <3>3, <3>4 DEF StoreOK
  <2>2. CASE Get(rec.idx) # Absent
    <3>1. UNCHANGED <<cells, live, slabs, last>>
      BY <1>4, <2>2 DEF ReplayInsert
    <3> QED
      BY <1>1, <3>1 DEF StoreOK, TypeOK
  <2> QED
    BY <2>1, <2>2
<1>5. ASSUME rec.op = "update", ReplayUpdate(rec) PROVE StoreOK'
  <2>1. rec.row \in Val /\ cells' = (IF rec.idx \in live THEN [cells EXCEPT ![rec.idx] = rec.row] ELSE cells)
        /\ UNCHANGED <<live, slabs, last>>
    BY <1>2, <1>5 DEF ReplayUpdate
  <2> QED
    BY <1>1, <1>2, <2>1 DEF StoreOK, TypeOK
<1>6. ASSUME rec.op = "delete", ReplayDelete(rec) PROVE StoreOK'
  <2>1. live' = live \ {rec.idx} /\ UNCHANGED <<cells, slabs, last>>
    BY <1>6 DEF ReplayDelete
  <2> QED
    BY <1>1, <2>1 DEF StoreOK, TypeOK
<1>7. LogOK'
  <2>1. Lines' = Lines
    BY <1>1 DEF Lines
  <2> QED
    BY <1>1, <2>1, TodoHead, TypeParts DEF LogOK, Typed
<1>8. ClientOK'
  BY <1>1 DEF ClientOK, TypeOK
<1> QED
  BY <1>3, <1>4, <1>5, <1>6, <1>7, <1>8, TypePartsNext

LEMMA ReplayEndType == ASSUME TypeOK, ReplayFlush \/ ReplayClear PROVE TypeOK'
<1>1. CASE ReplayFlush
  <2>1. StoreOK'
    BY <1>1 DEF ReplayFlush, StoreOK, TypeOK, PersistBitmaps, PersistMark
  <2>2. LogOK'
    <3>1. Lines' = Lines
      BY <1>1 DEF Lines, ReplayFlush
    <3> QED
      BY <1>1, <3>1, TypeParts DEF LogOK, Typed, ReplayFlush
  <2>3. ClientOK'
    BY <1>1 DEF ReplayFlush, ClientOK, TypeOK, ghost
  <2> QED
    BY <2>1, <2>2, <2>3, TypePartsNext
<1>2. CASE ReplayClear
  <2>1. StoreOK'
    BY <1>2 DEF ReplayClear, StoreOK, TypeOK
  <2>2. LogOK'
    <3>1. log' = <<>> /\ buf' = buf /\ todo = <<>> /\ todo' = todo
      BY <1>2 DEF ReplayClear, TypeOK
    <3>2. Lines' = buf
      <4>1. Lines' = log' \o buf'
        BY DEF Lines
      <4>2. buf \in Seq(Line)
        BY DEF TypeOK
      <4> QED
        BY <3>1, <4>1, <4>2, ConcatEmptySeq
    <3>3. Typed(buf)
      <4>1. log \in Seq(Line) /\ buf \in Seq(Line) /\ Typed(Lines)
        BY TypeParts DEF LogOK
      <4>2. \A m \in 1..Len(buf) : Lines[Len(log) + m] = buf[m] /\ Len(log) + m \in 1..Len(Lines)
        BY <4>1, Joined DEF Lines
      <4> QED
        BY <4>1, <4>2 DEF Typed
    <3> QED
      BY <3>1, <3>2, <3>3, NoLines, TypeParts DEF LogOK
  <2>3. ClientOK'
    BY <1>2, ReadType DEF ReplayClear, ClientOK, TypeOK, View, Get
  <2> QED
    BY <2>1, <2>2, <2>3, TypePartsNext
<1> QED
  BY <1>1, <1>2

LEMMA InitType == Init => TypeOK
<1> SUFFICES ASSUME Init PROVE TypeOK
  OBVIOUS
<1>1. StoreOK
  BY SizeAssumption DEF Init, StoreOK
<1>2. LogOK
  <2>1. log = <<>> /\ buf = <<>> /\ todo = <<>>
    BY DEF Init
  <2>2. Lines = <<>>
    BY <2>1, NoLines, ConcatEmptySeq DEF Lines
  <2> QED
    BY <2>1, <2>2, NoLines DEF LogOK, Typed
<1>3. ClientOK
  BY DEF Init, ClientOK, EmptyView
<1> QED
  BY <1>1, <1>2, <1>3, TypeParts

LEMMA NextType == ASSUME TypeOK, [Next]_vars PROVE TypeOK'
<1>1. CASE UNCHANGED vars
  BY <1>1 DEF vars, disk, memory, ghost, TypeOK
<1>2. ASSUME NEW r \in Val, Insert(r) PROVE TypeOK'
  BY <1>2, InsertType
<1>3. ASSUME NEW i \in live, NEW r \in Val, Update(i, r) PROVE TypeOK'
  BY <1>3, UpdateType
<1>4. ASSUME NEW i \in live, Delete(i) PROVE TypeOK'
  BY <1>4, DeleteType
<1>5. CASE Begin \/ Commit \/ CommitFails \/ Rollback
  BY <1>5, BeginType, CommitType, CommitFailsType, RollbackType
<1>6. CASE Flush \/ Checkpoint \/ Compact \/ Close
  BY <1>6, FlushType, CheckpointType, CompactType, CloseType
<1>7. CASE Crash \/ CrashInFlush \/ CrashInCompact
  BY <1>7, CrashType, CrashInFlushType, CrashInCompactType
<1>8. ASSUME NEW n \in 0..Len(buf) + 1, NEW torn \in BOOLEAN, CrashInCommit(n, torn) PROVE TypeOK'
  BY <1>8, CrashInCommitType
<1>9. CASE Recover
  BY <1>9, LoadType, ReplayType, ReplayEndType DEF Recover
<1> QED
  BY <1>1, <1>2, <1>3, <1>4, <1>5, <1>6, <1>7, <1>8, <1>9 DEF Next

\* Every variable stays in its set, live slots hold rows, and lines of row
\* operations name a slot and its row, whatever exits and faults come between.
THEOREM TypeCorrect == Spec => []TypeOK
<1>1. Init => TypeOK
  BY InitType
<1>2. TypeOK /\ [Next]_vars => TypeOK'
  BY NextType
<1> QED
  BY <1>1, <1>2, PTL DEF Spec

-----------------------------------------------------------------------------
(* The invariant.                                                          *)

\* What a commit now would leave in the log to replay.
Owing == Committed(Lines) \cup (IF InTx THEN Pending(Lines) ELSE {})

\* The log fits the file, and is read to its end.
Whole == \A n \in 1..Len(log) - 1 : log[n].op # "torn"
Honest == aligned /\ Whole

\* The pages as a rollback would leave them.
Base == [i \in Slot |-> IF InTx /\ saved[i] # Absent THEN saved[i] ELSE cells[i]]

\* The buffer holds row operations, after a begin record perhaps, in a transaction.
BufferShape ==
  /\ ~InTx => buf = <<>> /\ touched = {}
  /\ \A n \in 1..Len(buf) : buf[n].op \in RowOps \/ (n = 1 /\ buf[n].op = "begin")

\* Outside a transaction recovery owes what a reader sees; inside, what a reader
\* saw at its start, and what the transaction changed is known.
Promised ==
  /\ phase = "open" => leaked = {} /\ \A i \in Slot : want[i] \in {NoClaim, Get(i)}
  /\ InTx => /\ leaked \subseteq touched
             /\ \A i \in Slot : want[i] \in {NoClaim, saved[i]} /\ (i \notin touched => saved[i] = Get(i))
             /\ \A n \in Pending(Lines) : Lines[n].idx \in touched
             /\ \A i \in dlive \ leaked : want[i] # NoClaim /\ saved[i] # Absent => cells[i] = saved[i]

\* No row stands at the high-water mark or above.
BelowMark ==
  aligned /\ phase # "down" =>
    /\ \A i \in live \cup dlive : i < NextIdx
    /\ InTx => \A i \in Slot : saved[i] # Absent => i < NextIdx

\* Nor does a record name one.
RecordsBelowMark == Honest /\ phase \in {"open", "tx"} => \A n \in Owing : Lines[n].idx < NextIdx

\* A slot is used once: an insert after a delete of its slot is a line repeated,
\* and the delete is repeated behind it.
UsedOnce ==
  Honest => \A m, n \in Owing :
    m < n /\ Lines[m].idx = Lines[n].idx /\ Lines[m].op = "delete" /\ Lines[n].op = "insert"
      => \E k \in Owing : /\ k > n /\ Lines[k].op = "delete" /\ Lines[k].idx = Lines[n].idx
                          /\ (n \in Committed(Lines) => k \in Committed(Lines))

\* The committed records over the file give what recovery owes, a rollback coming
\* first if a transaction is open; with the pending ones they give what a reader sees.
FileClaims ==
  Honest => \A i \in Slot : want[i] # NoClaim /\ (InTx \/ i \notin leaked) =>
    Claim(Lines, Of(Lines, Committed(Lines), i), dlive, Base, i, want[i])
TxClaims ==
  Honest /\ InTx => \A i \in Slot : want[i] # NoClaim =>
    Claim(Lines, Of(Lines, Owing, i), dlive, cells, i, Get(i))

\* In a replay: inserts of rows not there come at the mark; what is left over the
\* rows now there gives what is owed, and so does the log from its start.
MissingRows == {n \in DOMAIN todo : todo[n].op = "insert" /\ todo[n].idx \notin live}
ReplayInv ==
  aligned /\ phase \in {"replay", "clear"} =>
    /\ Whole
    /\ \A m, n \in 1..Len(todo) :
         m < n /\ todo[m].idx = todo[n].idx /\ todo[n].op = "insert" => todo[m].op # "delete"
    /\ \A n \in MissingRows : todo[n].idx = NextIdx + Cardinality({m \in MissingRows : m < n})
    /\ \A i \in Slot \ leaked : want[i] # NoClaim =>
         /\ Claim(todo, At(todo, 1..Len(todo), i), live, cells, i, want[i])
         /\ Claim(log, Of(log, Committed(log), i), live, cells, i, want[i])
    /\ \A n \in 1..Len(todo) : \E m \in Netted(log, Committed(log)) : log[m] = todo[n]
    /\ phase = "clear" => dlive = live /\ todo = <<>>

WalInv ==
  /\ TypeOK /\ BufferShape /\ Promised /\ BelowMark /\ RecordsBelowMark /\ UsedOnce
  /\ FileClaims /\ TxClaims /\ ReplayInv

-----------------------------------------------------------------------------
(* What the parts of the invariant say of the lines.                       *)

LEMMA RowPositions ==
  ASSUME NEW L \in Seq(Line)
  PROVE  \A n \in Committed(L) \cup Pending(L) : n \in 1..Len(L) /\ L[n].op \in RowOps
BY DEF Committed, Pending, Readable

LEMMA OwingPositions ==
  ASSUME LogOK
  PROVE  /\ Committed(Lines) \subseteq Owing
         /\ \A n \in Owing : n \in 1..Len(Lines) /\ Lines[n] \in RowLine /\ Lines[n].op \in RowOps
         /\ \A S \in SUBSET Owing, i \in Slot : Records(Lines, Of(Lines, S, i)) /\ Records(Lines, At(Lines, S, i))
<1>1. Lines \in Seq(Line) /\ Typed(Lines)
  BY LogTyped DEF LogOK
<1>2. \A n \in Committed(Lines) \cup Pending(Lines) : n \in 1..Len(Lines) /\ Lines[n].op \in RowOps
  BY <1>1, RowPositions
<1>3. Committed(Lines) \subseteq Owing /\ Owing \subseteq Committed(Lines) \cup Pending(Lines)
  BY DEF Owing
<1>4. \A n \in Owing : n \in 1..Len(Lines) /\ Lines[n] \in RowLine /\ Lines[n].op \in RowOps
  BY <1>1, <1>2, <1>3 DEF Typed
<1>5. ASSUME NEW S \in SUBSET Owing, NEW i \in Slot
      PROVE  Records(Lines, Of(Lines, S, i)) /\ Records(Lines, At(Lines, S, i))
  <2>1. \A n \in S : Lines[n] \in RowLine
    BY <1>4
  <2>2. Of(Lines, S, i) \subseteq S /\ At(Lines, S, i) \subseteq S
    BY DEF Of, At, Netted
  <2> QED
    BY <2>1, <2>2 DEF Records
<1> QED
  BY <1>3, <1>4, <1>5

\* Outside a transaction the log is all there is; inside, the buffer has no commit.
LEMMA LogOnly == ASSUME LogOK, BufferShape, ~InTx PROVE Lines = log /\ Owing = Committed(log)
<1>1. buf = <<>> /\ log \in Seq(Line)
  BY DEF BufferShape, LogOK
<1>2. Lines = log
  BY <1>1, ConcatEmptySeq DEF Lines
<1> QED
  BY <1>2 DEF Owing

LEMMA LogCommitted == ASSUME LogOK, BufferShape PROVE Committed(Lines) = Committed(log)
<1>1. log \in Seq(Line) /\ buf \in Seq(Line) /\ Lines \in Seq(Line)
  BY LogTyped
<1>2. Prefix(log, Lines) /\ Len(Lines) = Len(log) + Len(buf) /\ \A n \in 1..Len(buf) : Lines[Len(log) + n] = buf[n]
  BY <1>1, Joined DEF Lines
<1>3. \A n \in 1..Len(buf) : buf[n].op # "commit"
  BY DEF BufferShape, RowOps
<1>4. ASSUME NEW n \in Len(log) + 1..Len(Lines) PROVE Lines[n].op # "commit"
  <2>1. Len(log) \in Nat /\ Len(buf) \in Nat
    BY <1>1
  <2>2. n - Len(log) \in 1..Len(buf) /\ Len(log) + (n - Len(log)) = n
    BY <1>2, <2>1
  <2> QED
    BY <1>2, <1>3, <2>2
<1> QED
  BY <1>1, <1>2, <1>4, CommittedStays

\* Positions of a prefix.
LEMMA AtPrefix ==
  ASSUME NEW K \in Seq(Line), NEW L \in Seq(Line), Prefix(K, L), NEW S, \A n \in S : n \in 1..Len(K), NEW i
  PROVE  At(K, S, i) = At(L, S, i) /\ \A n \in At(K, S, i) : K[n] = L[n]
<1>1. \A n \in S : K[n] = L[n]
  BY DEF Prefix
<1> QED
  BY <1>1 DEF At

\* A flush of the log leaves what came before it readable.
LEMMA WholeBack ==
  ASSUME log \in Seq(Line), log' \in Seq(Line), Prefix(log, log'), Whole'
  PROVE  Whole
<1>1. Len(log) \in Nat /\ Len(log') \in Nat /\ Len(log) <= Len(log') /\ \A n \in 1..Len(log) : log'[n] = log[n]
  BY DEF Prefix
<1>2. \A n \in 1..Len(log') - 1 : log'[n].op # "torn"
  BY DEF Whole
<1> QED
  BY <1>1, <1>2 DEF Whole

\* Logging a line extends the log, if it is flushed.
LEMMA LoggedWhole ==
  ASSUME LogOK, NEW r \in Line, r.op \in RowOps => r \in RowLine, Logged(r)
  PROVE  /\ Lines' = Append(Lines, r) /\ Lines' \in Seq(Line) /\ (Whole' => Whole)
         /\ buf' = <<>> \/ buf' = Append(buf, r)
<1>1. /\ Lines' = Append(Lines, r) /\ log' \in Seq(Line)
      /\ (log' = log /\ buf' = Append(buf, r)) \/ (log' = Append(Lines, r) /\ buf' = <<>>)
  BY LoggedLines
<1>2. log \in Seq(Line) /\ buf \in Seq(Line) /\ Lines \in Seq(Line)
  BY LogTyped
<1>3. Prefix(log, Append(Lines, r))
  <2>1. Prefix(log, Lines) /\ Prefix(Lines, Append(Lines, r))
    BY <1>2, Joined, Appended DEF Lines
  <2>2. Len(log) \in Nat /\ Len(Lines) \in Nat /\ Len(Append(Lines, r)) \in Nat
    BY <1>2, Appended
  <2> QED
    BY <2>1, <2>2 DEF Prefix
<1>4. Whole' => Whole
  <2>1. CASE log' = log
    BY <2>1 DEF Whole
  <2>2. CASE log' = Append(Lines, r)
    BY <1>1, <1>2, <1>3, <2>2, WholeBack
  <2> QED
    BY <1>1, <2>1, <2>2
<1>5. Lines' \in Seq(Line)
  BY <1>1, <1>2, Appended
<1> QED
  BY <1>1, <1>4, <1>5

-----------------------------------------------------------------------------
(* Writes in a transaction.                                                *)

\* What a logged row operation adds.
LEMMA WriteLines ==
  ASSUME WalInv, InTx, NEW r \in RowLine, Logged(r), phase' = phase, aligned' = aligned, touched' \in SUBSET Slot
  PROVE  LET N == Len(Lines) + 1
         IN  /\ Lines' \in Seq(Line) /\ InTx' /\ (Honest' => Honest) /\ BufferShape'
             /\ N \in Nat \ {0} /\ Lines'[N] = r
             /\ \A n \in Owing : Lines'[n] = Lines[n] /\ n \in Nat \ {0} /\ n < N
             /\ Committed(Lines') = Committed(Lines) /\ Pending(Lines') = Pending(Lines) \cup {N}
             /\ Owing' = Owing \cup {N}
             /\ \A i \in Slot : At(Lines', Committed(Lines'), i) = At(Lines, Committed(Lines), i)
             /\ \A i \in Slot : i # r.idx => At(Lines', Owing', i) = At(Lines, Owing, i)
             /\ At(Lines', Owing', r.idx) = At(Lines, Owing, r.idx) \cup {N}
<1> DEFINE N == Len(Lines) + 1
<1>1. LogOK /\ r \in Line /\ r.op \in RowOps
  BY TypeParts DEF WalInv, RowLine
<1>2. /\ Lines' = Append(Lines, r) /\ Lines' \in Seq(Line) /\ (Whole' => Whole)
      /\ buf' = <<>> \/ buf' = Append(buf, r)
  BY <1>1, LoggedWhole
<1>3. Lines \in Seq(Line) /\ buf \in Seq(Line)
  BY <1>1, LogTyped
<1>4. /\ Lines' \in Seq(Line) /\ Len(Lines') = N /\ Lines'[N] = r /\ N \in Nat \ {0}
      /\ \A n \in 1..Len(Lines) : Lines'[n] = Lines[n]
  BY <1>2, <1>3, Appended
<1>5. Committed(Lines') = Committed(Lines) /\ Pending(Lines') = Pending(Lines) \cup {N}
  <2>1. r.op # "commit"
    BY <1>1 DEF RowOps
  <2> QED
    BY <1>1, <1>2, <1>3, <2>1, PendingAppend
<1>6. InTx' /\ (Honest' => Honest)
  BY <1>2 DEF InTx, Honest
<1>7. BufferShape'
  <2>1. CASE buf' = <<>>
    BY <1>6, <2>1 DEF BufferShape
  <2>2. CASE buf' = Append(buf, r)
    <3>1. Len(buf') = Len(buf) + 1 /\ buf'[Len(buf) + 1] = r /\ Len(buf) \in Nat
          /\ \A n \in 1..Len(buf) : buf'[n] = buf[n]
      BY <1>1, <1>3, <2>2, Appended
    <3>2. \A n \in 1..Len(buf) : buf[n].op \in RowOps \/ (n = 1 /\ buf[n].op = "begin")
      BY DEF WalInv, BufferShape
    <3>3. ASSUME NEW n \in 1..Len(buf') PROVE buf'[n].op \in RowOps \/ (n = 1 /\ buf'[n].op = "begin")
      <4>1. n \in 1..Len(buf) \/ n = Len(buf) + 1
        BY <3>1
      <4> QED
        BY <1>1, <3>1, <3>2, <4>1
    <3> QED
      BY <1>6, <3>3 DEF BufferShape
  <2> QED
    BY <1>2, <2>1, <2>2
<1>8. Owing' = Owing \cup {N}
  <2>1. Owing = Committed(Lines) \cup Pending(Lines)
    BY DEF Owing
  <2>2. Owing' = Committed(Lines') \cup Pending(Lines')
    BY <1>6 DEF Owing
  <2> QED
    BY <1>5, <2>1, <2>2
<1>9. ASSUME NEW n \in Owing PROVE Lines'[n] = Lines[n] /\ n \in Nat \ {0} /\ n < N
  <2>1. n \in 1..Len(Lines)
    BY <1>1, OwingPositions
  <2> QED
    BY <1>3, <1>4, <2>1
<1>10. Committed(Lines) \subseteq Owing
  BY <1>1, OwingPositions
<1> HIDE DEF N
<1>11. ASSUME NEW i \in Slot PROVE At(Lines', Committed(Lines'), i) = At(Lines, Committed(Lines), i)
  BY <1>5, <1>9, <1>10 DEF At
<1>12. ASSUME NEW i PROVE At(Lines', Owing', i) = At(Lines, Owing, i) \cup (IF i = r.idx THEN {N} ELSE {})
  BY <1>4, <1>8, <1>9 DEF At
<1>13. /\ \A i \in Slot : i # r.idx => At(Lines', Owing', i) = At(Lines, Owing, i)
       /\ At(Lines', Owing', r.idx) = At(Lines, Owing, r.idx) \cup {N}
  BY <1>12
<1> QED
  BY <1>4, <1>5, <1>6, <1>7, <1>8, <1>9, <1>11, <1>13 DEF N

\* A write keeps the invariant if its line agrees with the row it leaves.
LEMMA TxWriteInv ==
  ASSUME WalInv, TypeOK', InTx, NEW op, NEW j \in Slot, NEW x, Rec(op, j, x) \in RowLine, Wrote(op, j, x),
         \A i \in Slot : i # j => cells'[i] = cells[i] /\ Get(i)' = Get(i),
         op = "delete" => cells' = cells,
         op = "insert" => (Honest => \A n \in Owing : Lines[n].idx # j),
         NextIdx \in Int, NextIdx' \in Int, NextIdx <= NextIdx',
         \A i \in live' : i \in live \/ i = j,
         aligned => j < NextIdx',
         Honest /\ Honest' /\ want[j] # NoClaim => Claim(Lines', Of(Lines', Owing', j), dlive, cells', j, Get(j)')
  PROVE  WalInv'
<1> DEFINE r == Rec(op, j, x)
           N == Len(Lines) + 1
<1>1. r \in RowLine /\ r.idx = j /\ r.op = op
  BY DEF Rec
<1>2. /\ Logged(r) /\ touched' = touched \cup {j}
      /\ leaked' = (IF j \in dlive /\ op # "delete" THEN leaked \cup {j} ELSE leaked)
      /\ UNCHANGED <<want, dlive, dmark, saved, phase, todo, aligned>>
  BY DEF Wrote
<1>3. touched' \in SUBSET Slot
  BY DEF TypeOK
<1> HIDE DEF r
<1>4. /\ Lines' \in Seq(Line) /\ InTx' /\ (Honest' => Honest) /\ BufferShape'
      /\ N \in Nat \ {0} /\ Lines'[N] = r
      /\ \A n \in Owing : Lines'[n] = Lines[n] /\ n \in Nat \ {0} /\ n < N
      /\ Committed(Lines') = Committed(Lines) /\ Pending(Lines') = Pending(Lines) \cup {N}
      /\ Owing' = Owing \cup {N}
      /\ \A i \in Slot : At(Lines', Committed(Lines'), i) = At(Lines, Committed(Lines), i)
      /\ \A i \in Slot : i # r.idx => At(Lines', Owing', i) = At(Lines, Owing, i)
  BY <1>1, <1>2, <1>3, WriteLines
<1> HIDE DEF N
<1>5. LogOK /\ Committed(Lines) \subseteq Owing
  BY OwingPositions, TypeParts DEF WalInv
<1>6. Promised'
  <2>1. phase' # "open"
    BY <1>4 DEF InTx
  <2>2. leaked' \subseteq touched'
    BY <1>2 DEF WalInv, Promised
  <2>3. \A i \in Slot : want'[i] \in {NoClaim, saved'[i]} /\ (i \notin touched' => saved'[i] = Get(i)')
    BY <1>2 DEF WalInv, Promised
  <2>4. ASSUME NEW n \in Pending(Lines') PROVE Lines'[n].idx \in touched'
    <3>1. CASE n = N
      BY <1>1, <1>2, <1>4, <3>1
    <3>2. CASE n \in Pending(Lines)
      <4>1. n \in Owing /\ Lines[n].idx \in touched
        BY <3>2 DEF WalInv, Promised, Owing
      <4> QED
        BY <1>2, <1>4, <4>1
    <3> QED
      BY <1>4, <3>1, <3>2
  <2>5. ASSUME NEW i \in dlive' \ leaked', want'[i] # NoClaim, saved'[i] # Absent PROVE cells'[i] = saved'[i]
    <3>1. i \in Slot /\ i \in dlive \ leaked /\ cells[i] = saved[i]
      BY <1>2, <2>5 DEF WalInv, Promised, TypeOK
    <3>2. CASE i # j
      BY <1>2, <3>1, <3>2
    <3>3. CASE i = j
      <4>1. op = "delete"
        BY <1>2, <2>5, <3>3
      <4> QED
        BY <1>2, <3>1, <4>1
    <3> QED
      BY <3>2, <3>3
  <2> QED
    BY <2>1, <2>2, <2>3, <2>4, <2>5 DEF Promised
<1>7. BelowMark'
  <2> SUFFICES ASSUME aligned'
               PROVE  /\ \A i \in live' \cup dlive' : i < NextIdx'
                      /\ \A i \in Slot : saved'[i] # Absent => i < NextIdx'
    BY DEF BelowMark
  <2>1. /\ \A i \in live \cup dlive : i < NextIdx
        /\ \A i \in Slot : saved[i] # Absent => i < NextIdx
    BY <1>2 DEF WalInv, BelowMark, InTx
  <2>2. \A i \in Slot : i < NextIdx => i < NextIdx'
    BY DEF Slot
  <2>3. ASSUME NEW i \in live' \cup dlive' PROVE i < NextIdx'
    <3>1. i \in live \/ i \in dlive \/ i = j
      BY <1>2
    <3>2. \A k \in live \cup dlive : k \in Slot
      BY DEF WalInv, TypeOK
    <3> QED
      BY <1>2, <2>1, <2>2, <3>1, <3>2
  <2> QED
    BY <1>2, <2>1, <2>2, <2>3
<1>8. RecordsBelowMark'
  <2> SUFFICES ASSUME Honest', NEW n \in Owing' PROVE Lines'[n].idx < NextIdx'
    BY DEF RecordsBelowMark
  <2>1. Honest /\ aligned
    BY <1>4 DEF Honest
  <2>2. CASE n = N
    BY <1>1, <1>4, <2>1, <2>2
  <2>3. CASE n \in Owing
    <3>1. Lines[n].idx < NextIdx /\ Lines[n] \in RowLine
      BY <1>5, <2>1, <2>3, OwingPositions DEF WalInv, RecordsBelowMark, InTx
    <3>2. Lines[n].idx \in Int
      BY <3>1 DEF RowLine, Slot
    <3> QED
      BY <1>4, <2>3, <3>1, <3>2
  <2> QED
    BY <1>4, <2>2, <2>3
<1>9. UsedOnce'
  <2> SUFFICES ASSUME Honest', NEW m \in Owing', NEW n \in Owing', m < n, Lines'[m].idx = Lines'[n].idx,
                      Lines'[m].op = "delete", Lines'[n].op = "insert"
               PROVE  \E k \in Owing' : /\ k > n /\ Lines'[k].op = "delete" /\ Lines'[k].idx = Lines'[n].idx
                                        /\ (n \in Committed(Lines') => k \in Committed(Lines'))
    BY DEF UsedOnce
  <2>1. Honest
    BY <1>4
  <2>2. m \in Owing
    <3> SUFFICES ASSUME m = N PROVE FALSE
      BY <1>4
    <3>1. n \in Nat /\ (n < N \/ n = N) /\ N \in Nat
      BY <1>4
    <3> QED
      BY <3>1
  <2>3. CASE n = N
    <3>1. op = "insert" /\ Lines[m].idx = j
      BY <1>1, <1>4, <2>2, <2>3
    <3> QED
      BY <2>1, <2>2, <3>1
  <2>4. CASE n \in Owing
    <3>1. PICK k \in Owing : /\ k > n /\ Lines[k].op = "delete" /\ Lines[k].idx = Lines[n].idx
                             /\ (n \in Committed(Lines) => k \in Committed(Lines))
      BY <1>4, <2>1, <2>2, <2>4 DEF WalInv, UsedOnce
    <3> QED
      BY <1>4, <2>4, <3>1
  <2> QED
    BY <1>4, <2>3, <2>4
<1>10. FileClaims'
  <2> SUFFICES ASSUME Honest', NEW i \in Slot, want'[i] # NoClaim
               PROVE  Claim(Lines', Of(Lines', Committed(Lines'), i), dlive', Base', i, want'[i])
    BY DEF FileClaims
  <2>1. Claim(Lines, Of(Lines, Committed(Lines), i), dlive, Base, i, want[i]) /\ want[i] \in {NoClaim, saved[i]}
    BY <1>2, <1>4 DEF WalInv, FileClaims, Promised
  <2>2. /\ Base[i] = IF saved[i] # Absent THEN saved[i] ELSE cells[i]
        /\ Base'[i] = IF saved[i] # Absent THEN saved[i] ELSE cells'[i]
    BY <1>2, <1>4 DEF Base
  <2>3. \A n \in At(Lines, Committed(Lines), i) : Lines[n] = Lines'[n]
    BY <1>4, <1>5 DEF At
  <2>4. At(Lines, Committed(Lines), i) = At(Lines', Committed(Lines'), i)
    BY <1>4
  <2>5. CASE Base'[i] = Base[i]
    BY <1>2, <2>1, <2>3, <2>4, <2>5, ClaimMoves
  <2>6. CASE saved[i] = Absent
    <3>1. want[i] = Absent
      BY <1>2, <2>1, <2>6
    <3>2. Records(Lines, Of(Lines, Committed(Lines), i))
      BY <1>5, OwingPositions
    <3>3. i \in dlive => Base[i] \in Val
      BY <2>2, <2>6 DEF WalInv, TypeOK
    <3>4. Claim(Lines, Of(Lines, Committed(Lines), i), dlive, Base', i, want[i])
      BY <2>1, <3>1, <3>2, <3>3, ClaimNothing
    <3> QED
      BY <1>2, <2>3, <2>4, <3>4, ClaimMoves
  <2> QED
    BY <2>2, <2>5, <2>6
<1>11. TxClaims'
  <2> SUFFICES ASSUME Honest', NEW i \in Slot, want'[i] # NoClaim
               PROVE  Claim(Lines', Of(Lines', Owing', i), dlive', cells', i, Get(i)')
    BY DEF TxClaims
  <2>1. CASE i = j
    BY <1>2, <1>4, <2>1
  <2>2. CASE i # j
    <3>1. Claim(Lines, Of(Lines, Owing, i), dlive, cells, i, Get(i))
      BY <1>2, <1>4 DEF WalInv, TxClaims
    <3>2. At(Lines, Owing, i) = At(Lines', Owing', i) /\ \A n \in At(Lines, Owing, i) : Lines[n] = Lines'[n]
      BY <1>1, <1>4, <2>2 DEF At
    <3>3. Get(i)' = Get(i) /\ cells'[i] = cells[i]
      BY <2>2
    <3> QED
      BY <1>2, <3>1, <3>2, <3>3, ClaimMoves
  <2> QED
    BY <2>1, <2>2
<1>12. ReplayInv'
  BY <1>4 DEF ReplayInv, InTx
<1> QED
  BY <1>4, <1>6, <1>7, <1>8, <1>9, <1>10, <1>11, <1>12 DEF WalInv

\* Nothing is owed for a slot written outside a transaction.
LEMMA DirectWriteInv ==
  ASSUME WalInv, TypeOK', phase = "open", NEW op, NEW j \in Slot, NEW x, Wrote(op, j, x),
         \A i \in Slot : i # j => cells'[i] = cells[i] /\ Get(i)' = Get(i),
         NextIdx \in Int, NextIdx' \in Int, NextIdx <= NextIdx',
         \A i \in live' : i \in live \/ i = j,
         aligned => j < NextIdx'
  PROVE  WalInv'
<1>1. /\ want' = [want EXCEPT ![j] = NoClaim]
      /\ UNCHANGED <<log, buf, touched, leaked, dlive, dmark, saved, phase, todo, aligned>>
  BY DEF Wrote, InTx
<1>2. Lines' = Lines /\ ~InTx /\ ~InTx' /\ Whole' = Whole /\ Honest' = Honest /\ Owing' = Owing /\ phase' = "open"
  BY <1>1 DEF Lines, InTx, Whole, Honest, Owing
<1>3. BufferShape'
  BY <1>1, <1>2 DEF WalInv, BufferShape
<1>4. Promised'
  <2>1. leaked' = {} /\ \A i \in Slot : want'[i] \in {NoClaim, Get(i)'}
    BY <1>1 DEF WalInv, TypeOK, Promised
  <2> QED
    BY <1>2, <2>1 DEF Promised
<1>5. BelowMark'
  <2> SUFFICES ASSUME aligned' PROVE \A i \in live' \cup dlive' : i < NextIdx'
    BY <1>2 DEF BelowMark
  <2>1. \A i \in live \cup dlive : i < NextIdx
    BY <1>1 DEF WalInv, BelowMark
  <2>2. \A i \in Slot : i < NextIdx => i < NextIdx'
    BY DEF Slot
  <2>3. ASSUME NEW i \in live' \cup dlive' PROVE i < NextIdx'
    <3>1. i \in live \/ i \in dlive \/ i = j
      BY <1>1
    <3>2. \A k \in live \cup dlive : k \in Slot
      BY DEF WalInv, TypeOK
    <3> QED
      BY <1>1, <2>1, <2>2, <3>1, <3>2
  <2> QED
    BY <2>3
<1>6. RecordsBelowMark'
  <2> SUFFICES ASSUME Honest', NEW n \in Owing' PROVE Lines'[n].idx < NextIdx'
    BY DEF RecordsBelowMark
  <2>1. Lines[n].idx < NextIdx /\ Lines[n] \in RowLine
    BY <1>2, OwingPositions, TypeParts DEF WalInv, RecordsBelowMark
  <2>2. Lines[n].idx \in Int
    BY <2>1 DEF RowLine, Slot
  <2> QED
    BY <1>2, <2>1, <2>2
<1>7. UsedOnce'
  BY <1>2 DEF WalInv, UsedOnce
<1>8. FileClaims'
  <2> SUFFICES ASSUME Honest', NEW i \in Slot, want'[i] # NoClaim, i \notin leaked'
               PROVE  Claim(Lines', Of(Lines', Committed(Lines'), i), dlive', Base', i, want'[i])
    BY <1>2 DEF FileClaims
  <2>1. i # j /\ want'[i] = want[i]
    BY <1>1 DEF WalInv, TypeOK
  <2>2. Claim(Lines, Of(Lines, Committed(Lines), i), dlive, Base, i, want[i])
    BY <1>1, <1>2, <2>1 DEF WalInv, FileClaims
  <2>3. Base'[i] = Base[i]
    BY <1>2, <2>1 DEF Base
  <2> QED
    BY <1>1, <1>2, <2>1, <2>2, <2>3, ClaimMoves
<1>9. TxClaims' /\ ReplayInv'
  BY <1>2 DEF TxClaims, ReplayInv
<1> QED
  BY <1>3, <1>4, <1>5, <1>6, <1>7, <1>8, <1>9 DEF WalInv

LEMMA InsertInv == ASSUME WalInv, NEW r \in Val, Insert(r) PROVE WalInv'
<1>0. TypeOK /\ LogOK /\ (InTx \/ phase = "open") /\ Place(r) /\ Wrote("insert", NextIdx, r)
  BY TypeParts DEF WalInv, Insert, MayWrite
<1>2. TypeOK'
  BY <1>0, InsertType
<1>3. NextIdx \in Slot /\ NextIdx' = NextIdx + 1 /\ NextIdx \in Int
  BY <1>0, PlaceType DEF Slot
<1> PICK j \in Slot : j = NextIdx
  BY <1>3
<1>1. TypeOK /\ LogOK /\ (InTx \/ phase = "open") /\ Wrote("insert", j, r)
  BY <1>0
<1>4. cells' = [cells EXCEPT ![j] = r] /\ live' = live \cup {j}
  BY <1>0 DEF Place
<1>5. \A i \in Slot : i # j => cells'[i] = cells[i] /\ Get(i)' = Get(i)
  BY <1>1, <1>4 DEF Get, TypeOK
<1>6. j \in Slot /\ j = NextIdx /\ cells'[j] = r /\ Get(j)' = r
  <2>1. cells'[j] = r
    BY <1>1, <1>4 DEF TypeOK
  <2>2. j \in live'
    BY <1>4
  <2> QED
    BY <2>1, <2>2 DEF Get
<1>7. Rec("insert", j, r) \in RowLine /\ Rec("insert", j, r).op = "insert" /\ Rec("insert", j, r).idx = j
      /\ Rec("insert", j, r).row = r
  BY <1>6, Marks
<1>8. Honest /\ InTx => \A n \in Owing : Lines[n].idx # j
  <2> SUFFICES ASSUME Honest, InTx, NEW n \in Owing PROVE Lines[n].idx # j
    OBVIOUS
  <2>1. Lines[n].idx < NextIdx /\ Lines[n] \in RowLine
    BY <1>1, OwingPositions DEF WalInv, RecordsBelowMark, InTx
  <2>2. Lines[n].idx \in Int
    BY <2>1 DEF RowLine, Slot
  <2> QED
    BY <1>3, <1>6, <2>1, <2>2
<1>9. CASE phase = "open"
  <2>1. \A i \in live' : i \in live \/ i = j
    BY <1>4
  <2>2. NextIdx' \in Int /\ NextIdx <= NextIdx' /\ j < NextIdx'
    BY <1>3, <1>6
  <2>3. Wrote("insert", j, r)
    BY <1>1, <1>6
  <2> QED
    BY <1>2, <1>3, <1>5, <1>6, <1>9, <2>1, <2>2, <2>3, DirectWriteInv
<1>10. CASE InTx
  <2>1. \A i \in live' : i \in live \/ i = j
    BY <1>4
  <2>2. NextIdx' \in Int /\ NextIdx <= NextIdx' /\ j < NextIdx'
    BY <1>3, <1>6
  <2>3. Wrote("insert", j, r)
    BY <1>1, <1>6
  <2>4. ASSUME Honest PROVE Claim(Lines', Of(Lines', Owing', j), dlive, cells', j, Get(j)')
    <3> DEFINE N == Len(Lines) + 1
               l == Rec("insert", j, r)
    <3>1. Logged(l) /\ phase' = phase /\ aligned' = aligned /\ touched' \in SUBSET Slot
      BY <1>2, <1>10, <2>3 DEF Wrote, TypeOK
    <3> HIDE DEF l
    <3>2. l \in RowLine /\ l.op = "insert" /\ l.idx = j /\ l.row = r
      BY <1>7 DEF l
    <3>3. At(Lines', Owing', j) = At(Lines, Owing, j) \cup {N} /\ Lines'[N] = l /\ N \in Nat \ {0}
      BY <1>10, <3>1, <3>2, WriteLines
    <3>4. At(Lines, Owing, j) = {}
      BY <1>8, <1>10, <2>4 DEF At
    <3> HIDE DEF N
    <3>5. At(Lines', Owing', j) = {N} /\ Lines'[N].op = "insert" /\ Lines'[N].row = r /\ N \in Nat
      BY <3>2, <3>3, <3>4
    <3>6. Claim(Lines', Of(Lines', Owing', j), dlive, cells', j, Lines'[N].row)
      BY <1>6, <3>5, ClaimInsert
    <3> QED
      BY <1>6, <3>5, <3>6
  <2>5. "insert" = "delete" => cells' = cells
    OBVIOUS
  <2>6. "insert" = "insert" => (Honest => \A n \in Owing : Lines[n].idx # j)
    BY <1>8, <1>10
  <2>7. aligned => j < NextIdx'
    BY <2>2
  <2>8. Honest /\ Honest' /\ want[j] # NoClaim => Claim(Lines', Of(Lines', Owing', j), dlive, cells', j, Get(j)')
    BY <2>4
  <2>9. NextIdx \in Int /\ NextIdx' \in Int /\ NextIdx <= NextIdx'
    BY <1>3, <2>2
  <2> QED
    BY <1>2, <1>5, <1>6, <1>7, <1>10, <2>1, <2>3, <2>5, <2>6, <2>7, <2>8, <2>9, TxWriteInv
<1> QED
  BY <1>1, <1>9, <1>10

LEMMA UpdateInv == ASSUME WalInv, NEW j \in live, NEW r \in Val, Update(j, r) PROVE WalInv'
<1>1. TypeOK /\ LogOK /\ (InTx \/ phase = "open") /\ Wrote("update", j, r) /\ j \in Slot
      /\ cells' = [cells EXCEPT ![j] = r] /\ UNCHANGED <<slabs, live, last>>
  BY TypeParts DEF WalInv, TypeOK, Update, MayWrite
<1>2. TypeOK'
  BY <1>1, UpdateType
<1>3. NextIdx \in Int /\ NextIdx' = NextIdx
  <2>1. NextIdx' = NextIdx
    BY <1>1 DEF NextIdx
  <2> QED
    BY <1>1, <2>1, MarkNat DEF TypeOK
<1>4. \A i \in Slot : i # j => cells'[i] = cells[i] /\ Get(i)' = Get(i)
  BY <1>1 DEF Get, TypeOK
<1>5. cells'[j] = r /\ Get(j)' = r /\ Get(j) = cells[j] /\ cells[j] \in Val
  BY <1>1 DEF Get, TypeOK
<1>6. Rec("update", j, r) \in RowLine /\ Rec("update", j, r).op = "update" /\ Rec("update", j, r).idx = j
      /\ Rec("update", j, r).row = r
  BY <1>1, Marks
<1>7. \A i \in live' : i \in live \/ i = j
  BY <1>1
<1>8. aligned => j < NextIdx'
  BY <1>1, <1>3 DEF WalInv, BelowMark, InTx
<1>9. CASE phase = "open"
  BY <1>1, <1>2, <1>3, <1>4, <1>7, <1>8, <1>9, DirectWriteInv
<1>10. CASE InTx
  <2>1. ASSUME Honest, want[j] # NoClaim PROVE Claim(Lines', Of(Lines', Owing', j), dlive, cells', j, Get(j)')
    <3> DEFINE N == Len(Lines) + 1
               l == Rec("update", j, r)
    <3>1. Logged(l) /\ phase' = phase /\ aligned' = aligned /\ touched' \in SUBSET Slot
      BY <1>1, <1>2, <1>10 DEF Wrote, TypeOK
    <3> HIDE DEF l
    <3>2. l \in RowLine /\ l.op = "update" /\ l.idx = j /\ l.row = r
      BY <1>6 DEF l
    <3>3. /\ At(Lines', Owing', j) = At(Lines, Owing, j) \cup {N} /\ Lines'[N] = l /\ N \in Nat \ {0}
          /\ \A n \in Owing : Lines'[n] = Lines[n] /\ n \in Nat \ {0} /\ n < N
      BY <1>10, <3>1, <3>2, WriteLines
    <3> HIDE DEF N
    <3>4. Lines'[N].op = "update" /\ Lines'[N].row = r /\ \A n \in At(Lines, Owing, j) : Lines'[n] = Lines[n]
      BY <3>2, <3>3 DEF At
    <3>5. Records(Lines, At(Lines, Owing, j))
      BY <1>1, OwingPositions
    <3>6. Claim(Lines, Of(Lines, Owing, j), dlive, cells, j, Get(j)) /\ Get(j) \in Val
      BY <1>1, <1>5, <1>10, <2>1 DEF WalInv, TxClaims
    <3>7. Claim(Lines', Of(Lines', Owing', j), dlive, cells', j, Lines'[N].row)
      BY <3>3, <3>4, <3>5, <3>6, ClaimUpdate
    <3> QED
      BY <1>5, <3>4, <3>7
  <2>2. "update" = "delete" => cells' = cells
    BY <1>1
  <2>3. "update" = "insert" => (Honest => \A n \in Owing : Lines[n].idx # j)
    OBVIOUS
  <2>4. Honest /\ Honest' /\ want[j] # NoClaim => Claim(Lines', Of(Lines', Owing', j), dlive, cells', j, Get(j)')
    BY <2>1
  <2>5. NextIdx \in Int /\ NextIdx' \in Int /\ NextIdx <= NextIdx'
    BY <1>3
  <2> QED
    BY <1>1, <1>2, <1>4, <1>6, <1>7, <1>8, <1>10, <2>2, <2>3, <2>4, <2>5, TxWriteInv
<1> QED
  BY <1>1, <1>9, <1>10

LEMMA DeleteInv == ASSUME WalInv, NEW j \in live, Delete(j) PROVE WalInv'
<1>1. TypeOK /\ LogOK /\ (InTx \/ phase = "open") /\ Wrote("delete", j, Zero) /\ j \in Slot
      /\ live' = live \ {j} /\ UNCHANGED <<slabs, cells, last>>
  BY TypeParts DEF WalInv, TypeOK, Delete, MayWrite
<1>2. TypeOK'
  BY <1>1, DeleteType
<1>3. NextIdx \in Int /\ NextIdx' = NextIdx
  <2>1. NextIdx' = NextIdx
    BY <1>1 DEF NextIdx
  <2> QED
    BY <1>1, <2>1, MarkNat DEF TypeOK
<1>4. \A i \in Slot : i # j => cells'[i] = cells[i] /\ Get(i)' = Get(i)
  BY <1>1 DEF Get, TypeOK
<1>5. Get(j)' = Absent
  BY <1>1 DEF Get
<1>6. Rec("delete", j, Zero) \in RowLine /\ Rec("delete", j, Zero).op = "delete" /\ Rec("delete", j, Zero).idx = j
  BY <1>1, Marks
<1>7. \A i \in live' : i \in live \/ i = j
  BY <1>1
<1>8. aligned => j < NextIdx'
  BY <1>1, <1>3 DEF WalInv, BelowMark, InTx
<1>9. CASE phase = "open"
  BY <1>1, <1>2, <1>3, <1>4, <1>7, <1>8, <1>9, DirectWriteInv
<1>10. CASE InTx
  <2>1. Claim(Lines', Of(Lines', Owing', j), dlive, cells', j, Get(j)')
    <3> DEFINE N == Len(Lines) + 1
               l == Rec("delete", j, Zero)
    <3>1. Logged(l) /\ phase' = phase /\ aligned' = aligned /\ touched' \in SUBSET Slot
      BY <1>1, <1>2, <1>10 DEF Wrote, TypeOK
    <3> HIDE DEF l
    <3>2. l \in RowLine /\ l.op = "delete" /\ l.idx = j
      BY <1>6 DEF l
    <3>3. /\ At(Lines', Owing', j) = At(Lines, Owing, j) \cup {N} /\ Lines'[N] = l /\ N \in Nat \ {0}
          /\ \A n \in Owing : Lines'[n] = Lines[n] /\ n \in Nat \ {0} /\ n < N
      BY <1>10, <3>1, <3>2, WriteLines
    <3> HIDE DEF N
    <3>4. \A n \in At(Lines, Owing, j) : n \in Nat \ {0} /\ n < N
      BY <3>3 DEF At
    <3> DEFINE before == At(Lines, Owing, j)
    <3>5. \A n \in before : n \in Nat \ {0} /\ n < N
      BY <3>4
    <3>6. At(Lines', Owing', j) = before \cup {N} /\ Lines'[N].op = "delete" /\ N \in Nat
      BY <3>2, <3>3
    <3> HIDE DEF before
    <3>7. Claim(Lines', Of(Lines', Owing', j), dlive, cells', j, Absent)
      BY <3>5, <3>6, ClaimDelete
    <3> QED
      BY <1>5, <3>7
  <2>2. "delete" = "delete" => cells' = cells
    BY <1>1
  <2>3. "delete" = "insert" => (Honest => \A n \in Owing : Lines[n].idx # j)
    OBVIOUS
  <2>4. Honest /\ Honest' /\ want[j] # NoClaim => Claim(Lines', Of(Lines', Owing', j), dlive, cells', j, Get(j)')
    BY <2>1
  <2>5. NextIdx \in Int /\ NextIdx' \in Int /\ NextIdx <= NextIdx'
    BY <1>3
  <2> QED
    BY <1>1, <1>2, <1>4, <1>6, <1>7, <1>8, <1>10, <2>2, <2>3, <2>4, <2>5, TxWriteInv
<1> QED
  BY <1>1, <1>9, <1>10

-----------------------------------------------------------------------------
(* Transactions.                                                           *)

\* A claim that stays as the log grows.
LEMMA ClaimExtends ==
  ASSUME NEW K \in Seq(Line), NEW L \in Seq(Line), Prefix(K, L), NEW S, \A n \in S : n \in 1..Len(K),
         NEW i, NEW a, NEW c, NEW v, NEW w, NEW y, i \in a <=> i \in c, i \in a => v[i] = w[i],
         Claim(K, Of(K, S, i), a, v, i, y)
  PROVE  Claim(L, Of(L, S, i), c, w, i, y)
<1>0. \A n \in S : K[n] = L[n]
  BY DEF Prefix
<1>1. At(K, S, i) = At(L, S, i) /\ \A n \in At(K, S, i) : K[n] = L[n]
  BY <1>0 DEF At
<1>2. /\ At(K, S, i) = At(L, S, i) /\ \A n \in At(K, S, i) : K[n] = L[n]
      /\ i \in a <=> i \in c
      /\ i \in a => v[i] = w[i]
      /\ Claim(K, Of(K, S, i), a, v, i, y)
  BY <1>1
<1> QED
  BY <1>2, ClaimMoves

\* The lines after a mark.
LEMMA MarkLines ==
  ASSUME WalInv, NEW r \in Line, r.op \notin RowOps, Lines' = Append(Lines, r)
  PROVE  /\ Lines \in Seq(Line) /\ Lines' \in Seq(Line) /\ Prefix(Lines, Lines') /\ Pending(Lines') = {}
         /\ r.op # "commit" => Committed(Lines') = Committed(Lines)
         /\ \A n \in Owing : Lines'[n] = Lines[n] /\ n \in 1..Len(Lines)
         /\ \A n \in Committed(Lines) : n \in 1..Len(Lines) /\ n \in Owing
         /\ Len(Lines') = Len(Lines) + 1 /\ Len(Lines) \in Nat
<1>1. LogOK /\ Lines \in Seq(Line)
  BY TypeParts, LogTyped DEF WalInv
<1>2. Lines' \in Seq(Line) /\ Prefix(Lines, Lines') /\ (\A n \in 1..Len(Lines) : Lines'[n] = Lines[n])
      /\ Len(Lines') = Len(Lines) + 1 /\ Len(Lines) \in Nat
  BY <1>1, Appended
<1>3. Pending(Lines') = {} /\ (r.op # "commit" => Committed(Lines') = Committed(Lines))
  BY <1>1, PendingAppend
<1>4. \A n \in Owing : Lines'[n] = Lines[n] /\ n \in 1..Len(Lines)
  BY <1>1, <1>2, OwingPositions
<1>5. \A n \in Committed(Lines) : n \in 1..Len(Lines) /\ n \in Owing
  BY <1>1, <1>4, OwingPositions
<1> QED
  BY <1>1, <1>2, <1>3, <1>4, <1>5

\* Only the committed records stay: what held of the records holds.
LEMMA OwingKept ==
  ASSUME WalInv, Honest' => Honest, Owing' = Committed(Lines), Committed(Lines') = Committed(Lines),
         \A n \in Owing : Lines'[n] = Lines[n], phase \in {"open", "tx"}, NextIdx' = NextIdx
  PROVE  RecordsBelowMark' /\ UsedOnce'
<1>0. \A n \in Committed(Lines) : n \in Owing
  BY DEF Owing
<1>1. RecordsBelowMark'
  <2> SUFFICES ASSUME Honest', NEW n \in Owing' PROVE Lines'[n].idx < NextIdx'
    BY DEF RecordsBelowMark
  <2>1. n \in Owing /\ Honest
    BY <1>0
  <2> QED
    BY <2>1 DEF WalInv, RecordsBelowMark
<1>2. UsedOnce'
  <2> SUFFICES ASSUME Honest', NEW m \in Owing', NEW n \in Owing', m < n, Lines'[m].idx = Lines'[n].idx,
                      Lines'[m].op = "delete", Lines'[n].op = "insert"
               PROVE  \E k \in Owing' : /\ k > n /\ Lines'[k].op = "delete" /\ Lines'[k].idx = Lines'[n].idx
                                        /\ (n \in Committed(Lines') => k \in Committed(Lines'))
    BY DEF UsedOnce
  <2>1. m \in Owing /\ n \in Owing /\ n \in Committed(Lines)
    BY <1>0
  <2>2. Lines[m].idx = Lines[n].idx /\ Lines[m].op = "delete" /\ Lines[n].op = "insert"
    BY <2>1
  <2>3. PICK k \in Owing : /\ k > n /\ Lines[k].op = "delete" /\ Lines[k].idx = Lines[n].idx
                           /\ (n \in Committed(Lines) => k \in Committed(Lines))
    BY <2>1, <2>2 DEF WalInv, UsedOnce
  <2> QED
    BY <2>1, <2>3
<1> QED
  BY <1>1, <1>2

LEMMA BeginInv == ASSUME WalInv, Begin PROVE WalInv'
<1>1. /\ phase = "open" /\ phase' = "tx" /\ saved' = View /\ Logged(Mark("begin")) /\ touched' = {}
      /\ UNCHANGED <<cells, slabs, dlive, dmark, live, last, todo, want, leaked, aligned>>
  BY DEF Begin
<1>2. TypeOK /\ LogOK /\ TypeOK' /\ ~InTx /\ InTx' /\ leaked = {}
  BY <1>1, BeginType, TypeParts DEF WalInv, InTx, Promised
<1>3. Mark("begin") \in Line /\ Mark("begin").op \notin RowOps /\ Mark("begin").op = "begin"
  BY Marks
<1>4. /\ Lines' = Append(Lines, Mark("begin")) /\ (Whole' => Whole)
      /\ buf' = <<>> \/ buf' = Append(buf, Mark("begin"))
  BY <1>1, <1>2, <1>3, LoggedWhole
<1>5. /\ Lines \in Seq(Line) /\ Lines' \in Seq(Line) /\ Prefix(Lines, Lines') /\ Pending(Lines') = {}
      /\ Committed(Lines') = Committed(Lines)
      /\ \A n \in Owing : Lines'[n] = Lines[n] /\ n \in 1..Len(Lines)
      /\ \A n \in Committed(Lines) : n \in 1..Len(Lines)
  BY <1>3, <1>4, MarkLines
<1>6. Owing = Committed(Lines) /\ Owing' = Committed(Lines) /\ (Honest' => Honest) /\ NextIdx' = NextIdx
  BY <1>1, <1>2, <1>4, <1>5 DEF Owing, Honest, NextIdx
<1>7. \A i \in Slot : saved'[i] = Get(i) /\ Get(i)' = Get(i) /\ (saved'[i] # Absent => saved'[i] = cells[i] /\ i \in live)
  BY <1>1, <1>2 DEF View, Get, TypeOK
<1>8. BufferShape'
  <2>1. buf = <<>>
    BY <1>2 DEF WalInv, BufferShape
  <2>2. CASE buf' = <<>>
    BY <1>2, <2>2, NoLines DEF BufferShape
  <2>3. CASE buf' = Append(buf, Mark("begin"))
    <3>1. Len(buf') = 1 /\ buf'[1] = Mark("begin")
      BY <2>1, <2>3
    <3> QED
      BY <1>2, <1>3, <3>1 DEF BufferShape
  <2> QED
    BY <1>4, <2>2, <2>3
<1>9. Promised'
  <2>1. leaked' \subseteq touched' /\ phase' # "open"
    BY <1>1, <1>2
  <2>2. \A i \in Slot : want'[i] \in {NoClaim, saved'[i]} /\ saved'[i] = Get(i)'
    BY <1>1, <1>7 DEF WalInv, Promised
  <2>3. \A i \in dlive' \ leaked' : saved'[i] # Absent => cells'[i] = saved'[i]
    BY <1>1, <1>2, <1>7 DEF TypeOK
  <2> QED
    BY <1>5, <2>1, <2>2, <2>3 DEF Promised
<1>10. BelowMark'
  BY <1>1, <1>2, <1>6, <1>7 DEF WalInv, BelowMark
<1>11. RecordsBelowMark' /\ UsedOnce'
  BY <1>1, <1>5, <1>6, OwingKept
<1>12. FileClaims'
  <2> SUFFICES ASSUME Honest', NEW i \in Slot, want'[i] # NoClaim
               PROVE  Claim(Lines', Of(Lines', Committed(Lines'), i), dlive', Base', i, want'[i])
    BY DEF FileClaims
  <2>1. Claim(Lines, Of(Lines, Committed(Lines), i), dlive, Base, i, want[i])
    BY <1>1, <1>2, <1>6 DEF WalInv, FileClaims
  <2>2. Base[i] = Base'[i]
    BY <1>1, <1>2, <1>7 DEF Base
  <2>3. Claim(Lines', Of(Lines', Committed(Lines), i), dlive, Base', i, want[i])
    BY <1>5, <2>1, <2>2, ClaimExtends
  <2> QED
    BY <1>1, <1>5, <2>3
<1>13. TxClaims'
  <2> SUFFICES ASSUME Honest', NEW i \in Slot, want'[i] # NoClaim
               PROVE  Claim(Lines', Of(Lines', Owing', i), dlive', cells', i, Get(i)')
    BY DEF TxClaims
  <2>1. Claim(Lines, Of(Lines, Committed(Lines), i), dlive, Base, i, want[i])
    BY <1>1, <1>2, <1>6 DEF WalInv, FileClaims
  <2>2. Base[i] = cells[i] /\ want[i] = Get(i)
    BY <1>1, <1>2 DEF Base, WalInv, Promised
  <2>3. Claim(Lines', Of(Lines', Committed(Lines), i), dlive, cells, i, Get(i))
    BY <1>5, <2>1, <2>2, ClaimExtends
  <2> QED
    BY <1>1, <1>6, <1>7, <2>3
<1>14. ReplayInv'
  BY <1>1 DEF ReplayInv
<1> QED
  BY <1>2, <1>8, <1>9, <1>10, <1>11, <1>12, <1>13, <1>14 DEF WalInv

\* A commit record makes what was owed with the transaction what is owed.
LEMMA CommitLines ==
  ASSUME WalInv, InTx, ~InTx', log' = Append(Lines, Mark("commit")), buf' = <<>>, aligned' = aligned, want' = Owed
  PROVE  /\ log' \in Seq(Line) /\ Lines' = log'
         /\ \A i \in Slot : want'[i] # NoClaim => want[i] # NoClaim /\ want'[i] = Get(i)
         /\ Honest' => /\ Honest /\ Owing' = Owing
                       /\ \A n \in Owing : Lines'[n] = Lines[n]
                       /\ \A i \in Slot : want'[i] # NoClaim =>
                            Claim(Lines', Of(Lines', Committed(Lines'), i), dlive, cells, i, want'[i])
         /\ UsedOnce'
<1>2. LogOK /\ Lines \in Seq(Line) /\ log \in Seq(Line) /\ buf \in Seq(Line)
  BY TypeParts, LogTyped DEF WalInv
<1>3. Mark("commit") \in Line /\ Mark("commit").op \notin RowOps /\ Mark("commit").op = "commit"
  BY Marks
<1>4. log' \in Seq(Line) /\ Lines' = log' /\ Lines' = Append(Lines, Mark("commit"))
  <2>1. log' \in Seq(Line)
    BY <1>2, <1>3, Appended
  <2>2. Lines' = log' \o buf'
    BY DEF Lines
  <2> QED
    BY <2>1, <2>2, ConcatEmptySeq
<1>5. /\ Lines' \in Seq(Line) /\ Prefix(Lines, Lines')
      /\ \A n \in Owing : Lines'[n] = Lines[n] /\ n \in 1..Len(Lines)
      /\ Len(Lines') = Len(Lines) + 1 /\ Len(Lines) \in Nat
  BY <1>3, <1>4, MarkLines
<1>6. ASSUME Honest' PROVE Honest /\ Owing' = Owing /\ Committed(Lines') = Owing
  <2>1. \A n \in 1..Len(Lines) : Lines'[n].op # "torn"
    BY <1>4, <1>5, <1>6 DEF Honest, Whole
  <2>2. \A n \in 1..Len(Lines) : Lines[n].op # "torn"
    BY <1>5, <2>1 DEF Prefix
  <2>3. Committed(Lines') = Committed(Lines) \cup Pending(Lines)
    BY <1>2, <1>3, <1>4, <2>2, CommittedNow
  <2>4. Honest
    <3>2. \A n \in 1..Len(log) : Lines[n] = log[n] /\ n \in 1..Len(Lines)
      BY <1>2, Joined DEF Lines
    <3>3. \A n \in 1..Len(log) - 1 : n \in 1..Len(log)
      BY <1>2
    <3> QED
      BY <1>6, <2>2, <3>2, <3>3 DEF Honest, Whole
  <2> QED
    BY <2>3, <2>4 DEF Owing
<1>7. \A i \in Slot : want'[i] # NoClaim => want[i] # NoClaim /\ want'[i] = Get(i)
  <2> SUFFICES ASSUME NEW i \in Slot, want'[i] # NoClaim PROVE want[i] # NoClaim /\ want'[i] = Get(i)
    OBVIOUS
  <2>1. want'[i] = IF i \in touched /\ want[i] # NoClaim THEN Get(i) ELSE want[i]
    BY DEF Owed
  <2>2. want[i] \in {NoClaim, saved[i]} /\ (i \notin touched => saved[i] = Get(i))
    BY DEF WalInv, Promised
  <2> QED
    BY <2>1, <2>2
<1>8. ASSUME Honest', NEW i \in Slot, want'[i] # NoClaim
      PROVE  Claim(Lines', Of(Lines', Committed(Lines'), i), dlive, cells, i, want'[i])
  <2>1. Claim(Lines, Of(Lines, Owing, i), dlive, cells, i, Get(i))
    BY <1>6, <1>7, <1>8 DEF WalInv, TxClaims
  <2>2. Claim(Lines', Of(Lines', Owing, i), dlive, cells, i, Get(i))
    BY <1>2, <1>5, <2>1, ClaimExtends
  <2> QED
    BY <1>6, <1>7, <1>8, <2>2
<1>9. UsedOnce'
  BY <1>5, <1>6 DEF WalInv, UsedOnce
<1> QED
  BY <1>4, <1>5, <1>6, <1>7, <1>8, <1>9

LEMMA CommitInv == ASSUME WalInv, Commit PROVE WalInv'
<1>1. /\ InTx /\ LoggedNow(Mark("commit")) /\ phase' = "open" /\ want' = Owed /\ leaked' = {} /\ touched' = {}
      /\ UNCHANGED <<cells, slabs, dlive, dmark, live, last, todo, aligned>>
  BY DEF Commit
<1>2. TypeOK /\ LogOK /\ TypeOK' /\ ~InTx' /\ phase = "tx"
  BY <1>1, CommitType, TypeParts DEF WalInv, InTx
<1>3. Mark("commit") \in Line /\ Mark("commit").op \notin RowOps
  BY Marks
<1>4. log' = Append(Lines, Mark("commit")) /\ buf' = <<>>
  BY <1>1, <1>2, <1>3, LoggedNowLines
<1>5. /\ \A i \in Slot : want'[i] # NoClaim => want[i] # NoClaim /\ want'[i] = Get(i)
      /\ Honest' => /\ Honest /\ Owing' = Owing
                    /\ \A n \in Owing : Lines'[n] = Lines[n]
                    /\ \A i \in Slot : want'[i] # NoClaim =>
                         Claim(Lines', Of(Lines', Committed(Lines'), i), dlive, cells, i, want'[i])
      /\ UsedOnce'
  BY <1>1, <1>2, <1>4, CommitLines
<1>7. NextIdx' = NextIdx /\ \A i \in Slot : Get(i)' = Get(i) /\ Base'[i] = cells[i]
  BY <1>1, <1>2 DEF NextIdx, Get, Base
<1>8. BufferShape'
  BY <1>1, <1>2, <1>4, NoLines DEF BufferShape
<1>9. Promised'
  <2>1. \A i \in Slot : want'[i] \in {NoClaim, Get(i)'}
    BY <1>5, <1>7
  <2> QED
    BY <1>1, <1>2, <2>1 DEF Promised
<1>10. BelowMark'
  BY <1>1, <1>2, <1>7 DEF WalInv, BelowMark
<1>11. RecordsBelowMark'
  BY <1>2, <1>5, <1>7 DEF WalInv, RecordsBelowMark
<1>12. FileClaims'
  <2> SUFFICES ASSUME Honest', NEW i \in Slot, want'[i] # NoClaim
               PROVE  Claim(Lines', Of(Lines', Committed(Lines'), i), dlive', Base', i, want'[i])
    BY DEF FileClaims
  <2>1. Claim(Lines', Of(Lines', Committed(Lines'), i), dlive, cells, i, want'[i])
    BY <1>5
  <2>2. /\ At(Lines', Committed(Lines'), i) = At(Lines', Committed(Lines'), i)
        /\ i \in dlive => cells[i] = Base'[i]
    BY <1>7
  <2>3. Claim(Lines', Of(Lines', Committed(Lines'), i), dlive, Base', i, want'[i])
    BY <2>1, <2>2, ClaimMoves
  <2> QED
    BY <1>1, <2>3
<1>13. TxClaims' /\ ReplayInv'
  BY <1>1, <1>2 DEF TxClaims, ReplayInv
<1> QED
  BY <1>2, <1>5, <1>8, <1>9, <1>10, <1>11, <1>12, <1>13 DEF WalInv

\* A rollback brings the rows back and leaves the records of what is owed.
LEMMA UndoneInv ==
  ASSUME WalInv, InTx, TypeOK', Undone, buf' = <<>>, UNCHANGED <<slabs, dlive, last, aligned>>,
         Honest' => Honest, \A i \in Slot : want'[i] \in {NoClaim, want[i]},
         ASSUME NEW i \in Slot, want'[i] # NoClaim, Honest'
         PROVE  /\ At(Lines', Committed(Lines'), i) = At(Lines, Committed(Lines), i)
                /\ \A n \in At(Lines, Committed(Lines), i) : Lines[n] = Lines'[n],
         RecordsBelowMark', UsedOnce'
  PROVE  WalInv'
<1>1. phase' = "open" /\ ~InTx' /\ leaked' = {} /\ touched' = {}
  BY DEF Undone, InTx
<1>2. \A i \in Slot : Get(i)' = saved[i] /\ Base'[i] = Base[i] /\ (i \in live' <=> saved[i] # Absent)
  BY <1>1 DEF Get, Undone, Base
<1>3. BufferShape'
  BY <1>1, NoLines DEF BufferShape
<1>4. Promised'
  <2>1. \A i \in Slot : want'[i] \in {NoClaim, Get(i)'}
    BY <1>2 DEF WalInv, Promised
  <2> QED
    BY <1>1, <2>1 DEF Promised
<1>5. BelowMark'
  <2> SUFFICES ASSUME aligned', NEW i \in live' \cup dlive' PROVE i < NextIdx'
    BY <1>1 DEF BelowMark
  <2>1. aligned /\ phase # "down" /\ NextIdx' = NextIdx /\ dlive' = dlive
    BY DEF InTx, NextIdx
  <2>2. CASE i \in dlive
    BY <2>1, <2>2 DEF WalInv, BelowMark
  <2>3. CASE i \in live'
    <3>1. i \in Slot /\ saved[i] # Absent
      BY <1>2, <2>3 DEF TypeOK
    <3> QED
      BY <2>1, <3>1 DEF WalInv, BelowMark
  <2> QED
    BY <2>1, <2>2, <2>3
<1>6. FileClaims'
  <2> SUFFICES ASSUME Honest', NEW i \in Slot, want'[i] # NoClaim
               PROVE  Claim(Lines', Of(Lines', Committed(Lines'), i), dlive', Base', i, want'[i])
    BY DEF FileClaims
  <2>1. want'[i] = want[i] /\ want[i] # NoClaim
    OBVIOUS
  <2>2. Claim(Lines, Of(Lines, Committed(Lines), i), dlive, Base, i, want[i])
    BY <2>1 DEF WalInv, FileClaims
  <2>3. /\ At(Lines', Committed(Lines'), i) = At(Lines, Committed(Lines), i)
        /\ \A n \in At(Lines, Committed(Lines), i) : Lines[n] = Lines'[n]
    OBVIOUS
  <2>4. dlive' = dlive /\ Base'[i] = Base[i]
    BY <1>2
  <2>5. Claim(Lines', Of(Lines', Committed(Lines'), i), dlive, Base', i, want[i])
    BY <2>2, <2>3, <2>4, ClaimMoves
  <2> QED
    BY <2>1, <2>4, <2>5
<1>7. TxClaims' /\ ReplayInv'
  BY <1>1 DEF TxClaims, ReplayInv
<1> QED
  BY <1>3, <1>4, <1>5, <1>6, <1>7 DEF WalInv

LEMMA RollbackInv == ASSUME WalInv, Rollback PROVE WalInv'
<1>1. /\ InTx /\ LoggedNow(Mark("rollback")) /\ Undone /\ phase \in {"open", "tx"}
      /\ UNCHANGED <<slabs, dlive, dmark, last, todo, want, aligned>>
  BY DEF Rollback, InTx
<1>2. TypeOK /\ LogOK /\ TypeOK' /\ ~InTx' /\ NextIdx' = NextIdx
  BY <1>1, RollbackType, TypeParts DEF WalInv, InTx, Undone, NextIdx
<1>3. Mark("rollback") \in Line /\ Mark("rollback").op \notin RowOps /\ Mark("rollback").op = "rollback"
  BY Marks
<1>4. log' = Append(Lines, Mark("rollback")) /\ buf' = <<>> /\ Lines' = log' /\ Lines' = Append(Lines, Mark("rollback"))
      /\ log' \in Seq(Line)
  BY <1>1, <1>2, <1>3, LoggedNowLines
<1>5. /\ Lines \in Seq(Line) /\ Lines' \in Seq(Line) /\ Prefix(Lines, Lines')
      /\ Committed(Lines') = Committed(Lines)
      /\ \A n \in Owing : Lines'[n] = Lines[n] /\ n \in 1..Len(Lines)
      /\ \A n \in Committed(Lines) : n \in 1..Len(Lines) /\ n \in Owing
      /\ Len(Lines') = Len(Lines) + 1 /\ Len(Lines) \in Nat
  BY <1>3, <1>4, MarkLines
<1>6. Owing' = Committed(Lines)
  BY <1>2, <1>5 DEF Owing
<1>7. Honest' => Honest
  <2>1. Prefix(log, log')
    <3>1. log \in Seq(Line) /\ buf \in Seq(Line)
      BY <1>2, LogTyped
    <3>2. Prefix(log, Lines) /\ Len(log) \in Nat
      BY <3>1, Joined DEF Lines
    <3> QED
      BY <1>4, <1>5, <3>2 DEF Prefix
  <2> QED
    BY <1>1, <1>2, <1>4, <2>1, WholeBack, LogTyped DEF Honest
<1>8. RecordsBelowMark' /\ UsedOnce'
  BY <1>1, <1>2, <1>5, <1>6, <1>7, OwingKept
<1>9. ASSUME NEW i \in Slot, want'[i] # NoClaim, Honest'
      PROVE  /\ At(Lines', Committed(Lines'), i) = At(Lines, Committed(Lines), i)
             /\ \A n \in At(Lines, Committed(Lines), i) : Lines[n] = Lines'[n]
  BY <1>5 DEF At
<1> QED
  BY <1>1, <1>2, <1>4, <1>7, <1>8, <1>9, UndoneInv


\* A commit that failed commits the lines of the buffer twice.
Twice == {q \in 1..Len(buf) : buf[q].op \in RowOps}

LEMMA TwiceCommitted ==
  ASSUME WalInv, CommitFails, Honest'
  PROVE  LET C == Len(Lines) + 1
         IN  /\ Honest /\ Lines' \in Seq(Line) /\ buf' = <<>> /\ Len(Lines) \in Nat
             /\ \A n \in 1..Len(Lines) : Lines'[n] = Lines[n]
             /\ \A q \in 1..Len(buf) : Lines'[C + q] = buf[q] /\ Lines[Len(log) + q] = buf[q]
             /\ \A q \in Twice : Len(log) + q \in Pending(Lines)
             /\ Committed(Lines') = Owing \cup {C + q : q \in Twice}
<1> DEFINE C == Len(Lines) + 1
           first == Append(Lines, Mark("commit"))
           G == first \o buf
           H == Append(G, Mark("commit"))
<1>0. InTx /\ LogOK /\ aligned' = aligned
  BY TypeParts DEF CommitFails, WalInv
<1>1. log \in Seq(Line) /\ buf \in Seq(Line) /\ Lines \in Seq(Line) /\ Len(log) \in Nat /\ Len(buf) \in Nat
  BY <1>0, LogTyped
<1>2. /\ Prefix(log, Lines) /\ Len(Lines) = Len(log) + Len(buf)
      /\ \A q \in 1..Len(buf) : Lines[Len(log) + q] = buf[q]
      /\ \A n \in 1..Len(log) : Lines[n] = log[n]
  BY <1>1, Joined DEF Lines
<1>3. /\ Mark("commit") \in Line /\ Mark("commit").op = "commit" /\ "commit" \notin RowOps
      /\ Mark("rollback") \in Line /\ Mark("rollback").op = "rollback"
  BY Marks DEF RowOps
<1>4. /\ first \in Seq(Line) /\ Len(first) = C /\ first[C] = Mark("commit") /\ Len(Lines) \in Nat /\ C \in Nat
      /\ \A n \in 1..Len(Lines) : first[n] = Lines[n]
  BY <1>1, <1>3, Appended
<1>5. /\ G \in Seq(Line) /\ Len(G) = C + Len(buf) /\ Prefix(first, G)
      /\ \A n \in 1..C : G[n] = first[n]
      /\ \A q \in 1..Len(buf) : G[C + q] = buf[q]
  <2> HIDE DEF first, C
  <2>1. /\ G \in Seq(Line) /\ Len(G) = Len(first) + Len(buf) /\ Prefix(first, G)
        /\ \A n \in 1..Len(first) : G[n] = first[n]
        /\ \A q \in 1..Len(buf) : G[Len(first) + q] = buf[q]
    BY <1>1, <1>4, Joined
  <2> QED
    BY <1>4, <2>1
<1>6. log' = Append(H, Mark("rollback")) /\ buf' = <<>> /\ Lines' = log'
  <2>1. first \o Append(buf, Mark("commit")) = H
    BY <1>1, <1>3, <1>4, Joined
  <2> QED
    BY <1>0, <2>1, TwiceLines
<1> HIDE DEF first, G, H, C
<1>7. /\ H \in Seq(Line) /\ Len(H) = Len(G) + 1 /\ H[Len(G) + 1] = Mark("commit") /\ Len(G) \in Nat
      /\ \A n \in 1..Len(G) : H[n] = G[n]
  BY <1>3, <1>5, Appended DEF H
<1>8. /\ Lines' \in Seq(Line) /\ Len(Lines') = Len(H) + 1
      /\ \A n \in 1..Len(H) : Lines'[n] = H[n]
  BY <1>3, <1>6, <1>7, Appended
<1>9. \A n \in 1..Len(H) : H[n].op # "torn"
  BY <1>6, <1>7, <1>8 DEF Honest, Whole
<1>10. \A n \in 1..Len(G) : G[n].op # "torn" /\ Lines'[n] = G[n]
  BY <1>7, <1>8, <1>9
<1>11. \A n \in 1..Len(Lines) : Lines'[n] = Lines[n] /\ Lines[n].op # "torn"
  BY <1>4, <1>5, <1>10 DEF C
<1>12. \A q \in 1..Len(buf) : Lines'[C + q] = buf[q]
  <2> SUFFICES ASSUME NEW q \in 1..Len(buf) PROVE Lines'[C + q] = buf[q]
    OBVIOUS
  <2>1. C + q \in 1..Len(G)
    BY <1>1, <1>4, <1>5
  <2> QED
    BY <1>5, <1>10, <2>1
<1>13. Committed(first) = Owing
  <2>1. Committed(first) = Committed(Lines) \cup Pending(Lines)
    BY <1>1, <1>3, <1>11, CommittedNow DEF first
  <2> QED
    BY <1>0, <2>1 DEF Owing
<1>14. Committed(G) = Committed(first)
  <2>1. ASSUME NEW n \in Len(first) + 1..Len(G) PROVE G[n].op # "commit"
    <3>1. n - C \in 1..Len(buf) /\ C + (n - C) = n
      BY <1>1, <1>4, <1>5
    <3>2. G[n] = buf[n - C]
      BY <1>5, <3>1
    <3>3. buf[n - C].op \in RowOps \/ buf[n - C].op = "begin"
      BY <3>1 DEF WalInv, BufferShape
    <3> QED
      BY <3>2, <3>3 DEF RowOps
  <2> QED
    BY <1>4, <1>5, <2>1, CommittedStays
<1>15. \A q \in Twice : q \in 1..Len(buf) /\ buf[q].op \in RowOps /\ \A p \in q + 1..Len(buf) : buf[p].op \in RowOps
  <2> SUFFICES ASSUME NEW q \in Twice, NEW p \in q + 1..Len(buf) PROVE buf[p].op \in RowOps
    BY DEF Twice
  <2>1. p \in 1..Len(buf) /\ p # 1
    BY <1>1 DEF Twice
  <2> QED
    BY <2>1 DEF WalInv, BufferShape
<1>16. ASSUME NEW q \in Twice PROVE Len(log) + q \in Pending(Lines)
  <2>0. q \in 1..Len(buf) /\ buf[q].op \in RowOps
    BY <1>15
  <2>1. Len(log) + q \in 1..Len(Lines) /\ Lines[Len(log) + q].op \in RowOps
    BY <1>1, <1>2, <2>0
  <2>2. ASSUME NEW m \in Len(log) + q + 1..Len(Lines) PROVE Lines[m].op \in RowOps
    <3>1. m - Len(log) \in q + 1..Len(buf) /\ m - Len(log) \in 1..Len(buf) /\ Len(log) + (m - Len(log)) = m
      BY <1>1, <1>2, <1>15
    <3>2. Lines[m] = buf[m - Len(log)]
      BY <1>2, <3>1
    <3> QED
      BY <1>15, <3>1, <3>2
  <2> QED
    BY <1>1, <2>1, <2>2 DEF Pending
<1>17. Pending(G) = {C + q : q \in Twice}
  <2>1. ASSUME NEW n \in Pending(G) PROVE n \in {C + q : q \in Twice}
    <3>1. n \in 1..Len(G) /\ G[n].op \in RowOps /\ \A m \in n + 1..Len(G) : G[m].op \in RowOps
      BY <1>5 DEF Pending
    <3>2. n > C
      <4>1. G[C] = Mark("commit") /\ C \in 1..Len(G)
        BY <1>1, <1>4, <1>5 DEF C
      <4>2. n # C /\ C \notin n + 1..Len(G)
        BY <1>3, <3>1, <4>1
      <4> QED
        BY <1>4, <1>5, <1>7, <3>1, <4>1, <4>2
    <3>3. n - C \in 1..Len(buf) /\ C + (n - C) = n
      BY <1>1, <1>4, <1>5, <3>1, <3>2
    <3>4. n - C \in Twice
      BY <1>5, <3>1, <3>3 DEF Twice
    <3> QED
      BY <3>3, <3>4
  <2>2. ASSUME NEW q \in Twice PROVE C + q \in Pending(G)
    <3>1. C + q \in 1..Len(G) /\ G[C + q].op \in RowOps
      BY <1>1, <1>4, <1>5, <1>15
    <3>2. ASSUME NEW m \in C + q + 1..Len(G) PROVE G[m].op \in RowOps
      <4>1. m - C \in q + 1..Len(buf) /\ m - C \in 1..Len(buf) /\ C + (m - C) = m
        BY <1>1, <1>4, <1>5, <1>15
      <4>2. G[m] = buf[m - C]
        BY <1>5, <4>1
      <4> QED
        BY <1>15, <4>1, <4>2
    <3> QED
      BY <1>5, <3>1, <3>2 DEF Pending
  <2> QED
    BY <2>1, <2>2
<1>18. Committed(Lines') = Committed(H) /\ Committed(H) = Committed(G) \cup Pending(G)
  <2>1. Committed(Append(H, Mark("rollback"))) = Committed(H)
    BY <1>3, <1>7, PendingAppend
  <2>2. Committed(Append(G, Mark("commit"))) = Committed(G) \cup Pending(G)
    BY <1>3, <1>5, <1>10, CommittedNow
  <2> QED
    BY <1>6, <2>1, <2>2 DEF H
<1>19. Honest
  <2>1. \A n \in 1..Len(log) : n \in 1..Len(Lines) /\ Lines[n] = log[n]
    BY <1>1, <1>2
  <2>2. \A n \in 1..Len(log) : log[n].op # "torn"
    BY <1>11, <2>1
  <2>3. \A n \in 1..Len(log) - 1 : n \in 1..Len(log)
    BY <1>1
  <2> QED
    BY <1>0, <2>2, <2>3 DEF Honest, Whole
<1> QED
  BY <1>2, <1>4, <1>6, <1>8, <1>11, <1>12, <1>13, <1>14, <1>16, <1>17, <1>18, <1>19 DEF C


LEMMA CommitFailsInv == ASSUME WalInv, CommitFails PROVE WalInv'
<1> DEFINE C == Len(Lines) + 1
           Copies == {C + q : q \in Twice}
<1>1. /\ InTx /\ Undone /\ buf' = <<>>
      /\ want' = [i \in Slot |-> IF i \in touched THEN NoClaim ELSE want[i]]
      /\ UNCHANGED <<slabs, dlive, dmark, last, todo, aligned>>
  BY DEF CommitFails
<1>2. TypeOK /\ LogOK /\ TypeOK' /\ ~InTx' /\ NextIdx' = NextIdx
  BY <1>1, CommitFailsType, TypeParts DEF WalInv, InTx, Undone, NextIdx
<1>3. ASSUME Honest'
      PROVE  /\ Honest /\ Lines' \in Seq(Line) /\ Len(Lines) \in Nat
             /\ \A n \in 1..Len(Lines) : Lines'[n] = Lines[n]
             /\ \A q \in 1..Len(buf) : Lines'[C + q] = buf[q] /\ Lines[Len(log) + q] = buf[q]
             /\ \A q \in Twice : Len(log) + q \in Pending(Lines)
             /\ Committed(Lines') = Owing \cup Copies
  BY <1>3, TwiceCommitted
<1>4. Committed(Lines) \subseteq Owing /\ Pending(Lines) \subseteq Owing /\ Owing = Committed(Lines) \cup Pending(Lines)
  BY <1>1 DEF Owing
<1>5. \A n \in Owing : n \in 1..Len(Lines) /\ Lines[n] \in RowLine /\ Lines[n].op \in RowOps
  BY <1>2, OwingPositions
<1>6. Owing' = Committed(Lines')
  BY <1>2 DEF Owing
<1>7. log \in Seq(Line) /\ buf \in Seq(Line) /\ Len(log) \in Nat /\ Len(buf) \in Nat /\ Len(Lines) = Len(log) + Len(buf)
  BY <1>2, LogTyped, Joined DEF Lines
<1>c. \A q \in Twice : q \in 1..Len(buf) /\ q \in Nat
  BY <1>7 DEF Twice
<1>8. ASSUME Honest', NEW n \in Copies
      PROVE  \E q \in Twice : n = C + q /\ Len(log) + q \in Pending(Lines) /\ Lines'[n] = Lines[Len(log) + q]
  <2>1. PICK q \in Twice : n = C + q
    OBVIOUS
  <2> QED
    BY <1>3, <1>8, <1>c, <2>1
<1> HIDE DEF Copies
<1>9. ASSUME NEW i \in Slot, want'[i] # NoClaim, Honest'
      PROVE  /\ At(Lines', Committed(Lines'), i) = At(Lines, Committed(Lines), i)
             /\ \A n \in At(Lines, Committed(Lines), i) : Lines[n] = Lines'[n]
  <2>1. i \notin touched
    BY <1>1, <1>9
  <2>2. \A n \in Pending(Lines) : Lines[n].idx # i
    BY <1>1, <2>1 DEF WalInv, Promised
  <2>3. \A n \in Owing : Lines'[n] = Lines[n]
    BY <1>3, <1>5, <1>9
  <2>4. \A n \in Copies : Lines'[n].idx # i
    BY <1>8, <1>9, <2>2
  <2>5. \A n \in Committed(Lines') : Lines'[n].idx = i => n \in Committed(Lines)
    BY <1>3, <1>4, <1>9, <2>2, <2>3, <2>4
  <2>6. \A n \in Committed(Lines) : n \in Committed(Lines') /\ Lines'[n] = Lines[n]
    BY <1>3, <1>4, <1>9, <2>3
  <2> QED
    BY <2>5, <2>6 DEF At
<1>10. RecordsBelowMark'
  <2> SUFFICES ASSUME Honest', NEW n \in Owing' PROVE Lines'[n].idx < NextIdx'
    BY DEF RecordsBelowMark
  <2>0. Honest /\ (phase = "tx")
    BY <1>1, <1>3 DEF InTx
  <2>1. \A m \in Owing : Lines[m].idx < NextIdx
    BY <2>0 DEF WalInv, RecordsBelowMark
  <2>2. CASE n \in Owing
    BY <1>2, <1>3, <1>5, <2>1, <2>2
  <2>3. CASE n \in Copies
    BY <1>2, <1>4, <1>8, <2>1, <2>3
  <2> QED
    BY <1>3, <1>6, <2>2, <2>3
<1>11. UsedOnce'
  <2> SUFFICES ASSUME Honest', NEW m \in Owing', NEW n \in Owing', m < n, Lines'[m].idx = Lines'[n].idx,
                      Lines'[m].op = "delete", Lines'[n].op = "insert"
               PROVE  \E k \in Owing' : k > n /\ Lines'[k].op = "delete" /\ Lines'[k].idx = Lines'[n].idx
    BY <1>6 DEF UsedOnce
  <2>1. /\ Honest /\ Len(Lines) \in Nat
        /\ \A p \in 1..Len(Lines) : Lines'[p] = Lines[p]
        /\ Owing' = Owing \cup Copies
    BY <1>3, <1>6
  <2>2. \A p \in Owing : Lines'[p] = Lines[p] /\ p \in 1..Len(Lines)
    BY <1>5, <2>1
  <2>3. ASSUME NEW a \in Owing, NEW c \in Owing, a < c, Lines[a].idx = Lines[c].idx, Lines[a].op = "delete",
               Lines[c].op = "insert"
        PROVE  \E k \in Owing : k > c /\ Lines[k].op = "delete" /\ Lines[k].idx = Lines[c].idx
    <3>1. UsedOnce /\ Honest
      BY <2>1 DEF WalInv
    <3>2. PICK k \in Owing : /\ k > c /\ Lines[k].op = "delete" /\ Lines[k].idx = Lines[c].idx
                             /\ (c \in Committed(Lines) => k \in Committed(Lines))
      BY <2>3, <3>1 DEF UsedOnce
    <3>3. k > c /\ Lines[k].op = "delete" /\ Lines[k].idx = Lines[c].idx
      BY <3>2
    <3> QED
      BY <3>3
  <2>4. CASE n \in Owing
    <3>1. m \in Owing
      <4>1. CASE m \in Copies
        <5>1. PICK q \in Twice : m = C + q
          BY <1>8, <4>1
        <5> QED
          BY <1>c, <2>1, <2>2, <2>4, <5>1
      <4> QED
        BY <2>1, <4>1
    <3>2. PICK k \in Owing : k > n /\ Lines[k].op = "delete" /\ Lines[k].idx = Lines[n].idx
      BY <2>2, <2>3, <2>4, <3>1
    <3> QED
      BY <2>1, <2>2, <2>4, <3>2
  <2>5. CASE n \in Copies
    <3>1. PICK q \in Twice : n = C + q /\ Len(log) + q \in Pending(Lines) /\ Lines'[n] = Lines[Len(log) + q]
      BY <1>8, <2>5
    <3> DEFINE s == Len(log) + q
    <3>2. s \in Owing /\ Lines[s].op = "insert" /\ Lines[s].idx = Lines'[n].idx /\ q \in 1..Len(buf) /\ s \in Nat
      BY <1>4, <1>7, <1>c, <3>1
    <3>3. \E k \in Owing : k > s /\ Lines[k].op = "delete" /\ Lines[k].idx = Lines[s].idx
      <4>1. PICK a \in Owing : Lines[a].op = "delete" /\ Lines[a].idx = Lines[s].idx
        <5>1. CASE m \in Owing
          BY <2>2, <3>2, <5>1
        <5>2. CASE m \in Copies
          BY <1>4, <1>8, <3>2, <5>2
        <5> QED
          BY <2>1, <5>1, <5>2
      <4>2. a # s /\ a \in Nat
        BY <2>2, <3>2, <4>1
      <4>3. CASE a > s
        BY <4>1, <4>3
      <4>4. CASE a < s
        BY <2>3, <3>2, <4>1, <4>4
      <4> QED
        BY <3>2, <4>2, <4>3, <4>4
    <3>4. PICK k \in Owing : k > s /\ Lines[k].op = "delete" /\ Lines[k].idx = Lines[s].idx
      BY <3>3
    <3>5. k - Len(log) \in 1..Len(buf) /\ Len(log) + (k - Len(log)) = k /\ k \in Nat /\ k - Len(log) > q
      BY <1>7, <2>2, <3>2, <3>4
    <3> DEFINE p == k - Len(log)
    <3>6. Lines'[C + p] = buf[p] /\ Lines[Len(log) + p] = buf[p]
      BY <1>3, <3>5
    <3>7. buf[p] = Lines[k]
      BY <3>5, <3>6
    <3>8. p \in Twice
      BY <1>5, <3>5, <3>7 DEF Twice
    <3>9. C + p \in Owing' /\ C + p > n
      BY <2>1, <3>1, <3>2, <3>5, <3>8 DEF Copies
    <3> QED
      BY <3>2, <3>4, <3>6, <3>7, <3>9
  <2> QED
    BY <2>1, <2>4, <2>5
<1>12. \A i \in Slot : want'[i] \in {NoClaim, want[i]}
  BY <1>1
<1> QED
  BY <1>1, <1>2, <1>3, <1>9, <1>10, <1>11, <1>12, UndoneInv


-----------------------------------------------------------------------------
(* Persisting.                                                             *)

\* A slot without records is what the file shows.
LEMMA NoRecords ==
  ASSUME NEW L, NEW S, NEW i, NEW a, NEW v, NEW y, \A n \in S : L[n].idx # i,
         y = IF i \in a THEN v[i] ELSE Absent
  PROVE  Claim(L, Of(L, S, i), a, v, i, y)
<1>1. Of(L, S, i) = {}
  BY DEF Of, Netted
<1>2. Claim(L, {}, a, v, i, y)
  BY DEF Claim
<1> QED
  BY <1>1, <1>2

\* What an untouched slot holds while a client runs.
LEMMA Untouched ==
  ASSUME WalInv, phase \in {"open", "tx"}, NEW i \in Slot, i \notin touched
  PROVE  /\ want[i] \in {NoClaim, Get(i)}
         /\ Get(i) = IF i \in live THEN cells[i] ELSE Absent
         /\ Get(i) = IF i \in live THEN Base[i] ELSE Absent
         /\ InTx => saved[i] = Get(i)
<1>1. Get(i) = IF i \in live THEN cells[i] ELSE Absent
  BY DEF Get
<1>2. want[i] \in {NoClaim, Get(i)} /\ (InTx => saved[i] = Get(i))
  BY DEF WalInv, Promised, InTx
<1>3. i \in live => cells[i] # Absent
  BY MarkAssumption DEF WalInv, TypeOK
<1>4. i \in live => Base[i] = cells[i]
  BY <1>1, <1>2 DEF Base
<1> QED
  BY <1>1, <1>2, <1>4

LEMMA FlushInv == ASSUME WalInv, Flush PROVE WalInv'
<1>1. /\ phase \in {"open", "tx"} /\ dlive' = live
      /\ want' = [i \in Slot |-> IF i \in touched THEN NoClaim ELSE IF InLog(i) THEN want[i] ELSE Get(i)]
      /\ UNCHANGED <<cells, slabs, log, live, last, buf, saved, phase, todo, touched, leaked, aligned>>
  BY DEF Flush, memory, PersistBitmaps
<1>2. TypeOK /\ LogOK /\ TypeOK'
  BY FlushType, TypeParts DEF WalInv
<1>3. /\ Lines' = Lines /\ Owing' = Owing /\ (Honest' <=> Honest) /\ NextIdx' = NextIdx /\ (InTx' <=> InTx)
      /\ Base' = Base /\ \A i \in Slot : Get(i)' = Get(i)
  BY <1>1 DEF Lines, Owing, InTx, Honest, Whole, NextIdx, Base, Get
<1>4. \A n \in Owing : n \in 1..Len(Lines)
  BY <1>2, OwingPositions
<1>5. BufferShape'
  BY <1>1, <1>3 DEF WalInv, BufferShape
<1>6. ASSUME NEW i \in Slot, want'[i] # NoClaim
      PROVE  /\ i \notin touched
             /\ want'[i] = Get(i) /\ want'[i] = IF i \in live THEN cells[i] ELSE Absent
             /\ want'[i] = IF i \in live THEN Base[i] ELSE Absent
             /\ want[i] = want'[i] \/ \A n \in Owing : Lines[n].idx # i
             /\ InTx => want'[i] = saved[i]
  <2>1. i \notin touched /\ want'[i] = IF InLog(i) THEN want[i] ELSE Get(i)
    BY <1>1, <1>6
  <2>2. /\ want[i] \in {NoClaim, Get(i)}
        /\ Get(i) = IF i \in live THEN cells[i] ELSE Absent
        /\ Get(i) = IF i \in live THEN Base[i] ELSE Absent
        /\ InTx => saved[i] = Get(i)
    BY <1>1, <2>1, Untouched
  <2>3. want'[i] = Get(i)
    BY <1>6, <2>1, <2>2
  <2>4. want[i] = want'[i] \/ \A n \in Owing : Lines[n].idx # i
    BY <1>4, <2>1 DEF InLog, Lines
  <2> QED
    BY <2>1, <2>2, <2>3, <2>4
<1>7. Promised'
  <2>1. CASE phase = "open"
    <3>1. leaked' = {} /\ ~InTx' /\ \A i \in Slot : want'[i] \in {NoClaim, Get(i)'}
      BY <1>1, <1>3, <1>6, <2>1 DEF WalInv, Promised, InTx
    <3> QED
      BY <3>1 DEF Promised
  <2>2. CASE phase = "tx"
    <3>1. /\ leaked' \subseteq touched' /\ \A n \in Pending(Lines') : Lines'[n].idx \in touched'
          /\ \A i \in Slot : i \notin touched' => saved'[i] = Get(i)'
      BY <1>1, <1>3, <2>2 DEF WalInv, Promised, InTx
    <3>2. \A i \in Slot : want'[i] \in {NoClaim, saved'[i]}
      BY <1>1, <1>6, <2>2 DEF InTx
    <3>3. \A i \in dlive' \ leaked' : want'[i] # NoClaim /\ saved'[i] # Absent => cells'[i] = saved'[i]
      <4> SUFFICES ASSUME NEW i \in live, want'[i] # NoClaim PROVE cells[i] = saved[i]
        BY <1>1
      <4>1. i \in Slot
        BY <1>2 DEF TypeOK
      <4> QED
        BY <1>6, <2>2, <4>1 DEF InTx
    <3> QED
      BY <1>1, <2>2, <3>1, <3>2, <3>3 DEF Promised
  <2> QED
    BY <1>1, <2>1, <2>2
<1>8. BelowMark' /\ RecordsBelowMark' /\ UsedOnce'
  <2>1. BelowMark'
    BY <1>1, <1>3 DEF WalInv, BelowMark
  <2>2. RecordsBelowMark'
    BY <1>1, <1>3 DEF WalInv, RecordsBelowMark
  <2>3. UsedOnce'
    BY <1>3 DEF WalInv, UsedOnce
  <2> QED
    BY <2>1, <2>2, <2>3
<1>9. ASSUME Honest', NEW i \in Slot, want'[i] # NoClaim, InTx' \/ i \notin leaked', NEW S \in SUBSET Owing,
             NEW v, want'[i] = IF i \in live THEN v[i] ELSE Absent,
             want[i] = want'[i] => Claim(Lines, Of(Lines, S, i), dlive, v, i, want[i])
      PROVE  Claim(Lines', Of(Lines', S, i), dlive', v, i, want'[i])
  <2>1. CASE want[i] = want'[i]
    <3>1. Records(Lines, Of(Lines, S, i))
      BY <1>2, OwingPositions
    <3>2. Claim(Lines, Of(Lines, S, i), live, v, i, want[i])
      BY <1>9, <2>1, <3>1, ClaimRead
    <3> QED
      BY <1>1, <1>3, <2>1, <3>2
  <2>2. CASE \A n \in Owing : Lines[n].idx # i
    <3>1. \A n \in S : Lines[n].idx # i
      BY <2>2
    <3>2. Claim(Lines, Of(Lines, S, i), live, v, i, want'[i])
      BY <1>9, <3>1, NoRecords
    <3> QED
      BY <1>1, <1>3, <3>2
  <2> QED
    BY <1>6, <1>9, <2>1, <2>2
<1>10. FileClaims'
  <2> SUFFICES ASSUME Honest', NEW i \in Slot, want'[i] # NoClaim, InTx' \/ i \notin leaked'
               PROVE  Claim(Lines', Of(Lines', Committed(Lines'), i), dlive', Base', i, want'[i])
    BY DEF FileClaims
  <2>1. want[i] = want'[i] => Claim(Lines, Of(Lines, Committed(Lines), i), dlive, Base, i, want[i])
    BY <1>1, <1>3 DEF WalInv, FileClaims
  <2>2. Committed(Lines) \in SUBSET Owing /\ want'[i] = IF i \in live THEN Base[i] ELSE Absent
    BY <1>6 DEF Owing
  <2>3. Claim(Lines', Of(Lines', Committed(Lines), i), dlive', Base, i, want'[i])
    BY <1>9, <2>1, <2>2
  <2> QED
    BY <1>3, <2>3
<1>11. TxClaims'
  <2> SUFFICES ASSUME Honest', InTx', NEW i \in Slot, want'[i] # NoClaim
               PROVE  Claim(Lines', Of(Lines', Owing', i), dlive', cells', i, Get(i)')
    BY DEF TxClaims
  <2>1. want'[i] = Get(i) /\ want'[i] = IF i \in live THEN cells[i] ELSE Absent
    BY <1>6
  <2>2. want[i] = want'[i] => Claim(Lines, Of(Lines, Owing, i), dlive, cells, i, want[i])
    BY <1>3, <2>1 DEF WalInv, TxClaims
  <2>3. Claim(Lines', Of(Lines', Owing, i), dlive', cells, i, want'[i])
    BY <1>9, <2>1, <2>2
  <2> QED
    BY <1>1, <1>3, <2>1, <2>3
<1>12. ReplayInv'
  BY <1>1 DEF ReplayInv
<1> QED
  BY <1>2, <1>5, <1>7, <1>8, <1>10, <1>11, <1>12 DEF WalInv


\* With the log gone the file speaks for itself.
LEMMA EmptiedInv ==
  ASSUME WalInv, TypeOK', log' = <<>>, buf' = <<>>, ~InTx' => touched' = {}, Promised', BelowMark', ReplayInv',
         ASSUME Honest', NEW i \in Slot, want'[i] # NoClaim
         PROVE  /\ want'[i] = IF i \in dlive' THEN Base'[i] ELSE Absent
                /\ InTx' => Get(i)' = IF i \in dlive' THEN cells'[i] ELSE Absent
  PROVE  WalInv'
<1>1. Lines' = <<>> /\ Len(Lines') = 0
  BY EmptyLines
<1>2. Committed(Lines') = {} /\ Pending(Lines') = {} /\ Owing' = {}
  <2>1. Lines' \in Seq(Line) /\ 1..Len(Lines') = {}
    BY <1>1, NoLines
  <2>2. Committed(Lines') = {} /\ Pending(Lines') = {}
    BY <2>1, RowPositions
  <2> QED
    BY <2>2 DEF Owing
<1>3. BufferShape'
  BY NoLines DEF BufferShape
<1>4. RecordsBelowMark' /\ UsedOnce'
  BY <1>2 DEF RecordsBelowMark, UsedOnce
<1>5. FileClaims'
  <2> SUFFICES ASSUME Honest', NEW i \in Slot, want'[i] # NoClaim
               PROVE  Claim(Lines', Of(Lines', Committed(Lines'), i), dlive', Base', i, want'[i])
    BY DEF FileClaims
  <2>1. want'[i] = IF i \in dlive' THEN Base'[i] ELSE Absent
    OBVIOUS
  <2>2. \A n \in Committed(Lines') : Lines'[n].idx # i
    BY <1>2
  <2> QED
    BY <2>1, <2>2, NoRecords
<1>6. TxClaims'
  <2> SUFFICES ASSUME Honest', InTx', NEW i \in Slot, want'[i] # NoClaim
               PROVE  Claim(Lines', Of(Lines', Owing', i), dlive', cells', i, Get(i)')
    BY DEF TxClaims
  <2>1. Get(i)' = IF i \in dlive' THEN cells'[i] ELSE Absent
    OBVIOUS
  <2>2. \A n \in Owing' : Lines'[n].idx # i
    BY <1>2
  <2> QED
    BY <2>1, <2>2, NoRecords
<1> QED
  BY <1>3, <1>4, <1>5, <1>6 DEF WalInv

LEMMA CheckpointInv == ASSUME WalInv, Checkpoint PROVE WalInv'
<1>1. /\ phase \in {"open", "tx"} /\ dlive' = live /\ log' = <<>> /\ buf' = <<>>
      /\ want' = [i \in Slot |-> IF i \in touched THEN NoClaim ELSE Get(i)]
      /\ UNCHANGED <<cells, slabs, live, last, saved, phase, todo, touched, leaked, aligned>>
  BY DEF Checkpoint, PersistBitmaps
<1>2. TypeOK /\ TypeOK'
  BY CheckpointType DEF WalInv
<1>3. /\ NextIdx' = NextIdx /\ (InTx' <=> InTx) /\ Base' = Base /\ \A i \in Slot : Get(i)' = Get(i)
  BY <1>1 DEF InTx, NextIdx, Base, Get
<1>4. ~InTx' => touched' = {}
  BY <1>1, <1>3 DEF WalInv, BufferShape
<1>5. Pending(Lines') = {}
  <2>1. Lines' = <<>> /\ Lines' \in Seq(Line) /\ 1..Len(Lines') = {}
    BY <1>1, EmptyLines, NoLines
  <2> QED
    BY <2>1, RowPositions
<1>6. ASSUME NEW i \in Slot, want'[i] # NoClaim
      PROVE  /\ want'[i] = Get(i) /\ i \notin touched
             /\ Get(i) = IF i \in live THEN cells[i] ELSE Absent
             /\ Get(i) = IF i \in live THEN Base[i] ELSE Absent
             /\ InTx => saved[i] = Get(i)
  <2>1. i \notin touched /\ want'[i] = Get(i)
    BY <1>1, <1>6
  <2> QED
    BY <1>1, <2>1, Untouched
<1>7. Promised'
  <2>1. CASE phase = "open"
    <3>1. leaked' = {} /\ ~InTx' /\ \A i \in Slot : want'[i] \in {NoClaim, Get(i)'}
      BY <1>1, <1>3, <1>6, <2>1 DEF WalInv, Promised, InTx
    <3> QED
      BY <3>1 DEF Promised
  <2>2. CASE phase = "tx"
    <3>1. /\ leaked' \subseteq touched' /\ \A i \in Slot : i \notin touched' => saved'[i] = Get(i)'
      BY <1>1, <1>3, <2>2 DEF WalInv, Promised, InTx
    <3>2. \A i \in Slot : want'[i] \in {NoClaim, saved'[i]}
      BY <1>1, <1>6, <2>2 DEF InTx
    <3>3. \A i \in dlive' \ leaked' : want'[i] # NoClaim /\ saved'[i] # Absent => cells'[i] = saved'[i]
      <4> SUFFICES ASSUME NEW i \in live, want'[i] # NoClaim PROVE cells[i] = saved[i]
        BY <1>1
      <4>1. i \in Slot
        BY <1>2 DEF TypeOK
      <4> QED
        BY <1>6, <2>2, <4>1 DEF InTx
    <3> QED
      BY <1>1, <1>5, <2>2, <3>1, <3>2, <3>3 DEF Promised
  <2> QED
    BY <1>1, <2>1, <2>2
<1>8. BelowMark' /\ ReplayInv'
  <2>1. BelowMark'
    BY <1>1, <1>3 DEF WalInv, BelowMark
  <2> QED
    BY <1>1, <2>1 DEF ReplayInv
<1> QED
  BY <1>1, <1>2, <1>3, <1>4, <1>6, <1>7, <1>8, EmptiedInv

LEMMA CloseInv == ASSUME WalInv, Close PROVE WalInv'
<1>1. /\ phase = "open" /\ dlive' = live /\ log' = <<>> /\ buf' = <<>> /\ want' = View /\ leaked' = {}
      /\ touched' = {} /\ phase' = "down"
      /\ UNCHANGED <<cells, slabs, aligned>>
  BY DEF Close, PersistBitmaps, Forgotten
<1>2. TypeOK' /\ ~InTx'
  BY <1>1, CloseType DEF WalInv, InTx
<1>3. Promised' /\ BelowMark' /\ ReplayInv'
  BY <1>1 DEF Promised, BelowMark, ReplayInv, InTx
<1>4. ASSUME NEW i \in Slot, want'[i] # NoClaim PROVE want'[i] = IF i \in dlive' THEN Base'[i] ELSE Absent
  BY <1>1, <1>2 DEF View, Get, Base
<1> QED
  BY <1>1, <1>2, <1>3, <1>4, EmptiedInv

LEMMA CompactInv == ASSUME WalInv, Compact PROVE WalInv'
<1>1. /\ phase = "open" /\ cells' = Packed.cells /\ slabs' = Packed.slabs /\ dlive' = 0 .. Packed.n - 1
      /\ live' = 0 .. Packed.n - 1 /\ last' = Packed.mark /\ log' = <<>> /\ buf' = <<>>
      /\ want' = View' /\ leaked' = {} /\ UNCHANGED <<saved, phase, todo, touched, aligned>>
  BY DEF Compact, Swap
<1>2. TypeOK /\ TypeOK' /\ ~InTx' /\ ~InTx
  BY <1>1, CompactType DEF WalInv, InTx
<1>3. NextIdx' = Packed.n /\ Packed.n \in Nat
  BY <1>1, <1>2, PackedType, SizeAssumption DEF NextIdx
<1>4. \A i \in Slot : want'[i] = Get(i)'
  BY <1>1 DEF View
<1>5. Promised' /\ ReplayInv'
  BY <1>1, <1>2, <1>4 DEF Promised, ReplayInv
<1>6. BelowMark'
  <2>1. \A i \in 0..Packed.n - 1 : i < Packed.n
    BY <1>3
  <2> QED
    BY <1>1, <1>2, <1>3, <2>1 DEF BelowMark
<1>7. touched' = {}
  BY <1>1, <1>2 DEF WalInv, BufferShape
<1>8. ASSUME NEW i \in Slot, want'[i] # NoClaim PROVE want'[i] = IF i \in dlive' THEN Base'[i] ELSE Absent
  BY <1>1, <1>2, <1>4 DEF Get, Base
<1> QED
  BY <1>1, <1>2, <1>5, <1>6, <1>7, <1>8, EmptiedInv


-----------------------------------------------------------------------------
(* Abrupt exits.                                                           *)

\* The lines that reached the file give what is owed, over the pages as they are.
LEMMA CrashClaims ==
  ASSUME WalInv, Honest, NEW i \in Slot, want[i] # NoClaim, i \notin leaked
  PROVE  Claim(log, Of(log, Committed(log), i), dlive, cells, i, want[i])
<1>1. LogOK /\ log \in Seq(Line) /\ buf \in Seq(Line) /\ Lines \in Seq(Line)
  BY TypeParts, LogTyped DEF WalInv
<1>2. Claim(Lines, Of(Lines, Committed(Lines), i), dlive, Base, i, want[i])
  BY DEF WalInv, FileClaims
<1>3. Committed(Lines) = Committed(log)
  BY <1>1, LogCommitted DEF WalInv
<1>4. Prefix(log, Lines) /\ \A n \in Committed(log) : n \in 1..Len(log)
  BY <1>1, Joined, RowPositions DEF Lines
<1>5. At(log, Committed(log), i) = At(Lines, Committed(Lines), i)
      /\ \A n \in At(Lines, Committed(Lines), i) : Lines[n] = log[n]
  BY <1>3, <1>4 DEF At, Prefix
<1>6. i \in dlive => Base[i] = cells[i]
  BY DEF Base, WalInv, Promised
<1>7. /\ At(Lines, Committed(Lines), i) = At(log, Committed(log), i)
      /\ \A n \in At(Lines, Committed(Lines), i) : Lines[n] = log[n]
      /\ i \in dlive <=> i \in dlive
      /\ i \in dlive => Base[i] = cells[i]
  BY <1>5, <1>6
<1> QED
  BY <1>2, <1>7, ClaimMoves

\* A process that is gone leaves the files' part of the invariant.
LEMMA DownInv ==
  ASSUME WalInv, TypeOK', phase' = "down", buf' = <<>>, touched' = {}, log' \in Seq(Line), UsedOnce',
         ASSUME Honest', NEW i \in Slot, want'[i] # NoClaim, i \notin leaked'
         PROVE  Claim(log', Of(log', Committed(log'), i), dlive', cells', i, want'[i])
  PROVE  WalInv'
<1>1. Lines' = log' /\ ~InTx'
  <2>1. Lines' = log' \o buf'
    BY DEF Lines
  <2> QED
    BY <2>1, ConcatEmptySeq DEF InTx
<1>2. BufferShape' /\ Promised' /\ BelowMark' /\ RecordsBelowMark' /\ TxClaims' /\ ReplayInv'
  <2>1. BufferShape'
    BY <1>1, NoLines DEF BufferShape
  <2>2. Promised' /\ TxClaims'
    BY <1>1 DEF Promised, TxClaims
  <2>3. BelowMark' /\ RecordsBelowMark' /\ ReplayInv'
    BY DEF BelowMark, RecordsBelowMark, ReplayInv
  <2> QED
    BY <2>1, <2>2, <2>3
<1>3. FileClaims'
  <2> SUFFICES ASSUME Honest', NEW i \in Slot, want'[i] # NoClaim, i \notin leaked'
               PROVE  Claim(Lines', Of(Lines', Committed(Lines'), i), dlive', Base', i, want'[i])
    BY <1>1 DEF FileClaims
  <2>1. Claim(log', Of(log', Committed(log'), i), dlive', cells', i, want'[i])
    OBVIOUS
  <2>2. Base'[i] = cells'[i]
    BY <1>1 DEF Base
  <2>3. Claim(log', Of(log', Committed(log'), i), dlive', Base', i, want'[i])
    <3>1. /\ At(log', Committed(log'), i) = At(log', Committed(log'), i)
          /\ i \in dlive' => cells'[i] = Base'[i]
      BY <2>2
    <3> QED
      BY <2>1, <3>1, ClaimMoves
  <2> QED
    BY <1>1, <2>3
<1> QED
  BY <1>2, <1>3 DEF WalInv

\* What was committed is used once, however the log grows behind it.
LEMMA UsedDown ==
  ASSUME WalInv, phase' = "down", buf' = <<>>, log' \in Seq(Line), Prefix(log, log'), Committed(log') = Committed(log),
         Honest' => Honest
  PROVE  UsedOnce'
<1>1. Lines' = log' /\ ~InTx'
  <2>1. Lines' = log' \o buf'
    BY DEF Lines
  <2> QED
    BY <2>1, ConcatEmptySeq DEF InTx
<1>2. LogOK /\ log \in Seq(Line) /\ buf \in Seq(Line) /\ Lines \in Seq(Line)
  BY TypeParts, LogTyped DEF WalInv
<1>3. Committed(Lines) = Committed(log) /\ Owing' = Committed(log) /\ Committed(Lines') = Committed(log)
  BY <1>1, <1>2, LogCommitted DEF WalInv, Owing
<1>4. \A n \in Committed(log) : n \in 1..Len(log) /\ n \in Owing /\ Lines[n] = log[n] /\ Lines'[n] = log[n]
  BY <1>1, <1>2, <1>3, Joined, RowPositions DEF Lines, Prefix, Owing
<1> SUFFICES ASSUME Honest', NEW m \in Committed(log), NEW n \in Committed(log), m < n,
                    Lines'[m].idx = Lines'[n].idx, Lines'[m].op = "delete", Lines'[n].op = "insert"
             PROVE  \E k \in Committed(log) : k > n /\ Lines'[k].op = "delete" /\ Lines'[k].idx = Lines'[n].idx
  BY <1>3 DEF UsedOnce
<1>5. Lines[m].idx = Lines[n].idx /\ Lines[m].op = "delete" /\ Lines[n].op = "insert" /\ m \in Owing /\ n \in Owing
  BY <1>4
<1>6. UsedOnce /\ Honest
  BY DEF WalInv
<1>7. PICK k \in Owing : /\ k > n /\ Lines[k].op = "delete" /\ Lines[k].idx = Lines[n].idx
                         /\ (n \in Committed(Lines) => k \in Committed(Lines))
  BY <1>5, <1>6 DEF UsedOnce
<1> QED
  BY <1>3, <1>4, <1>7

LEMMA SameLog == ASSUME NEW L \in Seq(Line) PROVE Prefix(L, L)
BY DEF Prefix

LEMMA CrashInv == ASSUME WalInv, Crash PROVE WalInv'
<1>1. /\ phase' = "down" /\ buf' = <<>> /\ touched' = {}
      /\ UNCHANGED <<cells, slabs, dlive, dmark, log, want, leaked, aligned>>
  BY DEF Crash, Forgotten, disk
<1>2. TypeOK' /\ log' \in Seq(Line)
  BY <1>1, CrashType, TypeParts, LogTyped DEF WalInv
<1>3. Honest' => Honest
  BY <1>1 DEF Honest, Whole
<1>4. UsedOnce'
  BY <1>1, <1>2, <1>3, SameLog, UsedDown
<1>5. ASSUME Honest', NEW i \in Slot, want'[i] # NoClaim, i \notin leaked'
      PROVE  Claim(log', Of(log', Committed(log'), i), dlive', cells', i, want'[i])
  <2>1. Claim(log, Of(log, Committed(log), i), dlive, cells, i, want[i])
    BY <1>1, <1>3, <1>5, CrashClaims
  <2> QED
    BY <1>1, <2>1
<1> QED
  BY <1>1, <1>2, <1>4, <1>5, DownInv

LEMMA CrashInFlushInv == ASSUME WalInv, CrashInFlush PROVE WalInv'
<1>1. /\ phase # "down" /\ phase' = "down" /\ buf' = <<>> /\ touched' = {} /\ dlive' = live
      /\ want' = [i \in Slot |-> IF i \in touched THEN NoClaim ELSE want[i]]
      /\ UNCHANGED <<cells, slabs, dmark, log, leaked, aligned>>
  BY DEF CrashInFlush, Forgotten, MayCrash, Running, PersistBitmaps
<1>2. TypeOK /\ LogOK /\ TypeOK' /\ log' \in Seq(Line) /\ log \in Seq(Line)
  BY <1>1, CrashInFlushType, TypeParts, LogTyped DEF WalInv
<1>3. Honest' <=> Honest
  BY <1>1 DEF Honest, Whole
<1>4. UsedOnce'
  BY <1>1, <1>2, <1>3, SameLog, UsedDown
<1>5. ASSUME Honest', NEW i \in Slot, want'[i] # NoClaim, i \notin leaked'
      PROVE  Claim(log', Of(log', Committed(log'), i), dlive', cells', i, want'[i])
  <2>1. want'[i] = want[i] /\ i \notin touched /\ want[i] # NoClaim /\ i \notin leaked /\ Honest
    BY <1>1, <1>3, <1>5
  <2>2. Claim(log, Of(log, Committed(log), i), live, cells, i, want[i])
    <3>1. CASE phase \in {"open", "tx"}
      <4>1. Claim(log, Of(log, Committed(log), i), dlive, cells, i, want[i])
        BY <2>1, CrashClaims
      <4>2. want[i] = IF i \in live THEN cells[i] ELSE Absent
        BY <2>1, <3>1, Untouched
      <4>3. Records(log, Of(log, Committed(log), i))
        <5>1. \A n \in Committed(log) : log[n] \in RowLine
          BY <1>2, RowPositions, LogTyped DEF Typed
        <5> QED
          BY <5>1 DEF Records, Of, Netted
      <4> QED
        BY <4>1, <4>2, <4>3, ClaimRead
    <3>2. CASE phase \in {"replay", "clear"}
      BY <2>1, <3>2 DEF WalInv, ReplayInv, Honest
    <3> QED
      BY <1>1, <1>2, <3>1, <3>2 DEF TypeOK
  <2> QED
    BY <1>1, <2>1, <2>2
<1> QED
  BY <1>1, <1>2, <1>4, <1>5, DownInv


LEMMA CrashInCompactInv == ASSUME WalInv, CrashInCompact PROVE WalInv'
<1>1. /\ phase = "open" /\ phase' = "down" /\ buf' = <<>> /\ touched' = {}
      /\ cells' = Packed.cells /\ dlive' = 0 .. Packed.n - 1
      /\ want' = [i \in Slot |-> IF InLog(i) /\ ToReplay(log) # <<>> THEN want[i]
                                 ELSE IF i < Packed.n THEN Packed.cells[i] ELSE Absent]
      /\ aligned' = (aligned /\ (live = dlive' \/ ToReplay(log) = <<>>))
      /\ UNCHANGED <<log, leaked>>
  BY DEF CrashInCompact, Swap, Forgotten
<1>2. TypeOK /\ LogOK /\ TypeOK' /\ log' \in Seq(Line) /\ log \in Seq(Line) /\ Typed(log) /\ Lines = log /\ touched = {}
  BY <1>1, CrashInCompactType, TypeParts, LogTyped, LogOnly DEF WalInv, InTx, BufferShape
<1>3. Honest' => Honest
  BY <1>1 DEF Honest, Whole
<1>4. UsedOnce'
  BY <1>1, <1>2, <1>3, SameLog, UsedDown
<1>5. ASSUME Honest', NEW i \in Slot, want'[i] # NoClaim, i \notin leaked'
      PROVE  Claim(log', Of(log', Committed(log'), i), dlive', cells', i, want'[i])
  <2>0. i \in Int /\ i >= 0 /\ Packed.n \in Nat
    BY <1>2, PackedType, SizeAssumption DEF Slot
  <2>1. (i < Packed.n) <=> i \in dlive'
    BY <1>1, <2>0
  <2>2. CASE ~(InLog(i) /\ ToReplay(log) # <<>>)
    <3>1. want'[i] = IF i \in dlive' THEN cells'[i] ELSE Absent
      BY <1>1, <2>1, <2>2
    <3>2. \A n \in Committed(log) : log[n].idx # i
      <4>1. CASE ToReplay(log) = <<>>
        BY <1>2, <4>1, NothingToReplay
      <4>2. CASE ~InLog(i)
        <5>1. \A n \in 1..Len(log) : log[n].idx # i
          BY <1>2, <4>2 DEF InLog, Lines
        <5> QED
          BY <1>2, <5>1, RowPositions
      <4> QED
        BY <2>2, <4>1, <4>2
    <3>3. Claim(log, Of(log, Committed(log), i), dlive', cells', i, want'[i])
      BY <3>1, <3>2, NoRecords
    <3> QED
      BY <1>1, <3>3
  <2>3. CASE InLog(i) /\ ToReplay(log) # <<>>
    <3>1. want'[i] = want[i] /\ want[i] # NoClaim /\ live = dlive' /\ Honest
      BY <1>1, <1>3, <1>5, <2>3 DEF Honest
    <3>2. Claim(log, Of(log, Committed(log), i), dlive, cells, i, want[i])
      BY <1>1, <1>5, <3>1, CrashClaims
    <3>3. want[i] = IF i \in live THEN cells[i] ELSE Absent
      BY <1>1, <1>2, <3>1, Untouched
    <3>4. i \in dlive' => cells'[i] = cells[i]
      BY <1>1, <1>2, <3>1, PackedType
    <3>5. want[i] = IF i \in dlive' THEN cells'[i] ELSE Absent
      BY <3>1, <3>3, <3>4
    <3>6. Records(log, Of(log, Committed(log), i))
      <4>1. \A n \in Committed(log) : log[n] \in RowLine
        BY <1>2, RowPositions DEF Typed
      <4> QED
        BY <4>1 DEF Records, Of, Netted
    <3>7. Claim(log, Of(log, Committed(log), i), dlive', cells', i, want[i])
      BY <3>2, <3>5, <3>6, ClaimRead
    <3> QED
      BY <1>1, <3>1, <3>7
  <2> QED
    BY <2>2, <2>3
<1> QED
  BY <1>1, <1>2, <1>4, <1>5, DownInv

\* A transaction is committed by the last of its lines and by no other.
LEMMA CutCommitted ==
  ASSUME WalInv, NEW n \in 0..Len(buf) + 1, NEW torn \in BOOLEAN, CrashInCommit(n, torn)
  PROVE  /\ log' \in Seq(Line) /\ Prefix(log, log')
         /\ n = Len(buf) + 1 => log' = Append(Lines, Mark("commit"))
         /\ n # Len(buf) + 1 => Committed(log') = Committed(log)
<1> DEFINE lines == Append(buf, Mark("commit"))
           part == SubSeq(lines, 1, n)
           cut == log \o part
<1>1. /\ lines \in Seq(Line) /\ part \in Seq(Line) /\ Len(part) = n /\ Len(lines) = Len(buf) + 1
      /\ \A m \in 1..n : part[m] = lines[m]
      /\ \A m \in 1..Len(buf) : lines[m] = buf[m]
      /\ log' = (IF torn THEN Append(cut, Mark("torn")) ELSE cut)
      /\ torn => n < Len(buf) + 1
      /\ log' \in Seq(Line)
  BY CutLines DEF WalInv
<1>2. LogOK /\ log \in Seq(Line) /\ buf \in Seq(Line) /\ Len(buf) \in Nat /\ Len(log) \in Nat
      /\ Mark("commit") \in Line /\ Mark("torn") \in Line /\ Mark("torn").op = "torn"
  BY TypeParts, LogTyped, Marks DEF WalInv
<1>f. n = Len(lines) => part = lines
  BY <1>1
<1>j. log \o lines = Append(Lines, Mark("commit"))
  BY <1>2, Joined DEF Lines
<1> HIDE DEF lines, part
<1>3. /\ cut \in Seq(Line) /\ Len(cut) = Len(log) + n /\ Prefix(log, cut)
      /\ \A m \in 1..n : cut[Len(log) + m] = part[m]
  <2>1. log \in Seq(Line) /\ part \in Seq(Line) /\ Len(part) = n
    BY <1>1, <1>2
  <2> QED
    BY <2>1, Joined
<1> HIDE DEF cut
<1>4. Prefix(cut, log') /\ Len(log') <= Len(cut) + 1 /\ Len(log') \in Nat /\ (\A m \in Len(cut) + 1..Len(log') : log'[m] = Mark("torn"))
  <2>1. CASE torn
    BY <1>1, <1>2, <1>3, <2>1, Appended
  <2>2. CASE ~torn
    BY <1>1, <1>3, <2>2 DEF Prefix
  <2> QED
    BY <2>1, <2>2
<1>5. Prefix(log, log')
  BY <1>2, <1>3, <1>4 DEF Prefix
<1>6. n = Len(buf) + 1 => log' = Append(Lines, Mark("commit"))
  <2> SUFFICES ASSUME n = Len(buf) + 1 PROVE log' = Append(Lines, Mark("commit"))
    OBVIOUS
  <2>1. ~torn
    BY <1>1, <1>2
  <2>2. log' = cut
    BY <1>1, <2>1
  <2> QED
    BY <1>1, <1>f, <1>j, <2>2 DEF cut
<1>7. n # Len(buf) + 1 => Committed(log') = Committed(log)
  <2> SUFFICES ASSUME n # Len(buf) + 1 PROVE Committed(log') = Committed(log)
    OBVIOUS
  <2>1. ASSUME NEW m \in Len(log) + 1..Len(log') PROVE log'[m].op # "commit"
    <3>1. CASE m <= Len(cut)
      <4>1. m - Len(log) \in 1..n /\ m - Len(log) \in 1..Len(buf) /\ Len(log) + (m - Len(log)) = m /\ m \in 1..Len(cut)
        BY <1>2, <1>3, <1>4, <3>1
      <4>2. log'[m] = cut[m] /\ cut[m] = part[m - Len(log)] /\ part[m - Len(log)] = buf[m - Len(log)]
        BY <1>1, <1>3, <1>4, <4>1 DEF Prefix
      <4>3. buf[m - Len(log)].op # "commit"
        BY <4>1 DEF WalInv, BufferShape, RowOps
      <4> QED
        BY <4>2, <4>3
    <3>2. CASE m > Len(cut)
      BY <1>2, <1>3, <1>4, <3>2
    <3> QED
      BY <1>2, <1>3, <3>1, <3>2
  <2> QED
    BY <1>1, <1>2, <1>5, <2>1, CommittedStays
<1> QED
  BY <1>1, <1>5, <1>6, <1>7

LEMMA CrashInCommitInv ==
  ASSUME WalInv, NEW n \in 0..Len(buf) + 1, NEW torn \in BOOLEAN, CrashInCommit(n, torn)
  PROVE  WalInv'
<1>1. /\ InTx /\ phase' = "down" /\ buf' = <<>> /\ touched' = {} /\ UNCHANGED <<cells, slabs, dlive, dmark, aligned>>
  BY DEF CrashInCommit, Forgotten
<1>2. TypeOK /\ LogOK /\ TypeOK' /\ log \in Seq(Line) /\ buf \in Seq(Line) /\ ~InTx'
  BY <1>1, CrashInCommitType, TypeParts, LogTyped DEF WalInv, InTx
<1>3. /\ log' \in Seq(Line) /\ Prefix(log, log')
      /\ n = Len(buf) + 1 => log' = Append(Lines, Mark("commit"))
      /\ n # Len(buf) + 1 => Committed(log') = Committed(log)
  BY CutCommitted
<1>4. Len(Append(buf, Mark("commit"))) = Len(buf) + 1
  BY <1>2, Marks, Appended
<1>5. CASE n = Len(buf) + 1
  <2>1. want' = Owed /\ leaked' = {}
    BY <1>4, <1>5 DEF CrashInCommit
  <2>2. /\ Lines' = log' /\ UsedOnce'
        /\ Honest' => \A i \in Slot : want'[i] # NoClaim =>
             Claim(Lines', Of(Lines', Committed(Lines'), i), dlive, cells, i, want'[i])
    BY <1>1, <1>2, <1>3, <1>5, <2>1, CommitLines
  <2>3. ASSUME Honest', NEW i \in Slot, want'[i] # NoClaim, i \notin leaked'
        PROVE  Claim(log', Of(log', Committed(log'), i), dlive', cells', i, want'[i])
    BY <1>1, <2>2, <2>3
  <2> QED
    BY <1>1, <1>2, <1>3, <2>2, <2>3, DownInv
<1>6. CASE n # Len(buf) + 1
  <2>1. want' = want /\ leaked' = leaked
    BY <1>4, <1>6 DEF CrashInCommit
  <2>2. Honest' => Honest
    BY <1>1, <1>2, <1>3, WholeBack DEF Honest
  <2>3. UsedOnce'
    BY <1>1, <1>3, <1>6, <2>2, UsedDown
  <2>4. ASSUME Honest', NEW i \in Slot, want'[i] # NoClaim, i \notin leaked'
        PROVE  Claim(log', Of(log', Committed(log'), i), dlive', cells', i, want'[i])
    <3>1. Claim(log, Of(log, Committed(log), i), dlive, cells, i, want[i])
      BY <2>1, <2>2, <2>4, CrashClaims
    <3>2. \A m \in Committed(log) : m \in 1..Len(log)
      BY <1>2, RowPositions
    <3>3. Claim(log', Of(log', Committed(log), i), dlive, cells, i, want[i])
      BY <1>2, <1>3, <3>1, <3>2, ClaimExtends
    <3> QED
      BY <1>1, <1>3, <1>6, <2>1, <3>3
  <2> QED
    BY <1>1, <1>2, <1>3, <2>3, <2>4, DownInv
<1> QED
  BY <1>5, <1>6

-----------------------------------------------------------------------------
(* Opening.                                                                *)

\* What the records left after netting say, they say one after another.
LEMMA ClaimReplayed ==
  ASSUME NEW L \in Seq(Line), Typed(L), NEW i, NEW a, NEW v, NEW y, Claim(L, Of(L, Committed(L), i), a, v, i, y)
  PROVE  Claim(ToReplay(L), At(ToReplay(L), 1..Len(ToReplay(L)), i), a, v, i, y)
<1> DEFINE N == Netted(L, Committed(L))
           R == Of(L, Committed(L), i)
           T == ToReplay(L)
           Q == At(T, 1..Len(T), i)
<1>1. PICK kept \in Seq(N) :
        /\ Len(T) = Len(kept)
        /\ \A k \in 1..Len(kept) : T[k] = L[kept[k]]
        /\ \A n \in N : \E k \in 1..Len(kept) : kept[k] = n
        /\ \A j, k \in 1..Len(kept) : j < k => kept[j] < kept[k]
  BY Replayed
<1>2. \A n \in N : n \in Nat
  BY DEF Netted, Committed, Readable
<1>3. \A n : n \in R <=> n \in N /\ L[n].idx = i
  BY DEF Of
<1>4. \A k : k \in Q <=> k \in 1..Len(T) /\ T[k].idx = i
  BY DEF At
<1> HIDE DEF N, R, T, Q
<1>5. Len(T) \in Nat /\ \A k \in 1..Len(T) : kept[k] \in N /\ kept[k] \in Nat
  BY <1>1, <1>2
<1>6. \A k \in Q : k \in 1..Len(T) /\ k \in Nat /\ kept[k] \in R /\ kept[k] \in Nat /\ T[k] = L[kept[k]]
  <2> SUFFICES ASSUME NEW k \in Q
               PROVE  k \in 1..Len(T) /\ k \in Nat /\ kept[k] \in R /\ kept[k] \in Nat /\ T[k] = L[kept[k]]
    OBVIOUS
  <2>1. k \in 1..Len(T) /\ T[k].idx = i
    BY <1>4
  <2>2. kept[k] \in N /\ kept[k] \in Nat /\ T[k] = L[kept[k]] /\ k \in Nat
    BY <1>1, <1>5, <2>1
  <2>3. kept[k] \in R
    BY <1>3, <2>1, <2>2
  <2> QED
    BY <2>1, <2>2, <2>3
<1>7. \A n \in R : \E k \in Q : kept[k] = n
  BY <1>1, <1>3, <1>4
<1>8. \A j, k \in Q : j < k <=> kept[j] < kept[k]
  <2> SUFFICES ASSUME NEW j \in Q, NEW k \in Q PROVE j < k <=> kept[j] < kept[k]
    OBVIOUS
  <2>1. /\ j \in 1..Len(T) /\ k \in 1..Len(T) /\ kept[j] \in Nat /\ kept[k] \in Nat /\ j \in Nat /\ k \in Nat
        /\ j < k => kept[j] < kept[k]
        /\ k < j => kept[k] < kept[j]
    BY <1>1, <1>6
  <2>2. j = k \/ j < k \/ k < j
    BY <2>1
  <2> QED
    BY <2>1, <2>2
<1>9. /\ R = {} => y = IF i \in a THEN v[i] ELSE Absent
      /\ \A n \in R : (\A m \in R : m <= n) =>
           /\ L[n].op = "delete" => y = Absent
           /\ L[n].op # "delete" => y = L[n].row
           /\ L[n].op = "insert" /\ i \in a => v[i] = L[n].row
           /\ L[n].op = "update" /\ i \notin a => \E m \in R : L[m].op = "insert"
      /\ \A m, n \in R : m < n => L[n].op = "update" /\ L[m].op # "delete"
  BY DEF Claim, R
<1>10. Q = {} => y = IF i \in a THEN v[i] ELSE Absent
  BY <1>7, <1>9
<1>11. ASSUME NEW k \in Q, \A j \in Q : j <= k
       PROVE  /\ T[k].op = "delete" => y = Absent
              /\ T[k].op # "delete" => y = T[k].row
              /\ T[k].op = "insert" /\ i \in a => v[i] = T[k].row
              /\ T[k].op = "update" /\ i \notin a => \E m \in Q : T[m].op = "insert"
  <2> DEFINE n == kept[k]
  <2>1. n \in R /\ T[k] = L[n]
    BY <1>6
  <2>2. \A m \in R : m <= n
    <3> SUFFICES ASSUME NEW m \in R PROVE m <= n
      OBVIOUS
    <3>1. PICK j \in Q : kept[j] = m
      BY <1>7
    <3>2. j <= k /\ j \in Nat /\ k \in Nat /\ m \in Nat /\ n \in Nat
      BY <1>6, <1>11, <3>1
    <3>3. j = k \/ j < k
      BY <3>2
    <3>4. j < k => m < n
      BY <1>8, <3>1
    <3> QED
      BY <3>1, <3>2, <3>3, <3>4
  <2> HIDE DEF n
  <2>3. L[n].op = "update" /\ i \notin a => \E m \in R : L[m].op = "insert"
    BY <1>9, <2>1, <2>2
  <2>4. (\E m \in R : L[m].op = "insert") => \E m \in Q : T[m].op = "insert"
    <3> SUFFICES ASSUME NEW m \in R, L[m].op = "insert" PROVE \E j \in Q : T[j].op = "insert"
      OBVIOUS
    <3>1. PICK j \in Q : kept[j] = m
      BY <1>7
    <3> QED
      BY <1>6, <3>1
  <2>5. /\ L[n].op = "delete" => y = Absent
        /\ L[n].op # "delete" => y = L[n].row
        /\ L[n].op = "insert" /\ i \in a => v[i] = L[n].row
    BY <1>9, <2>1, <2>2
  <2> QED
    BY <2>1, <2>3, <2>4, <2>5
<1>12. ASSUME NEW j \in Q, NEW k \in Q, j < k PROVE T[k].op = "update" /\ T[j].op # "delete"
  <2>1. kept[j] \in R /\ kept[k] \in R /\ kept[j] < kept[k] /\ T[k] = L[kept[k]] /\ T[j] = L[kept[j]]
    BY <1>6, <1>8, <1>12
  <2> QED
    BY <1>9, <2>1
<1>13. Claim(T, Q, a, v, i, y)
  BY <1>10, <1>11, <1>12 DEF Claim
<1> QED
  BY <1>13 DEF T, Q


\* A slot's insert comes after no delete of it that recovery still applies.
LEMMA InsertsLast ==
  ASSUME WalInv, Honest, ~InTx
  PROVE  \A m, n \in 1..Len(ToReplay(log)) :
           m < n /\ ToReplay(log)[m].idx = ToReplay(log)[n].idx /\ ToReplay(log)[n].op = "insert"
             => ToReplay(log)[m].op # "delete"
<1> DEFINE T == ToReplay(log)
           N == Netted(log, Committed(log))
<1>1. LogOK /\ log \in Seq(Line) /\ Typed(log) /\ Lines = log /\ Owing = Committed(log)
  BY TypeParts, LogTyped, LogOnly DEF WalInv
<1>2. PICK kept \in Seq(N) :
        /\ Len(T) = Len(kept)
        /\ \A k \in 1..Len(kept) : T[k] = log[kept[k]]
        /\ \A j, k \in 1..Len(kept) : j < k => kept[j] < kept[k]
  BY <1>1, Replayed
<1>3. \A n \in N : n \in Committed(log) /\ \A k \in Committed(log) : n < k /\ log[k].op = "delete" => log[k].idx # log[n].idx
  <2> DEFINE C == Committed(log)
  <2>1. N = {n \in C : \A k \in C : n < k /\ log[k].op = "delete" => log[k].idx # log[n].idx}
    BY DEF Netted
  <2> HIDE DEF C, N
  <2>2. \A n \in N : n \in C /\ \A k \in C : n < k /\ log[k].op = "delete" => log[k].idx # log[n].idx
    BY <2>1
  <2> QED
    BY <2>2 DEF C
<1>4. \A n \in Committed(log) : n \in Nat
  BY <1>1, RowPositions
<1> HIDE DEF T, N
<1> SUFFICES ASSUME NEW m \in 1..Len(T), NEW n \in 1..Len(T), m < n, T[m].idx = T[n].idx, T[n].op = "insert",
                    T[m].op = "delete"
             PROVE  FALSE
  BY DEF T
<1>5. kept[m] \in N /\ kept[n] \in N /\ kept[m] < kept[n] /\ T[m] = log[kept[m]] /\ T[n] = log[kept[n]]
  BY <1>2
<1>6. kept[m] \in Owing /\ kept[n] \in Owing /\ kept[n] \in Committed(Lines)
  BY <1>1, <1>3, <1>5
<1>7. UsedOnce
  BY DEF WalInv
<1>8. PICK k \in Owing : k > kept[n] /\ Lines[k].op = "delete" /\ Lines[k].idx = Lines[kept[n]].idx
  BY <1>1, <1>5, <1>6, <1>7 DEF UsedOnce
<1>9. k \in Committed(log) /\ kept[n] < k /\ log[k].op = "delete" /\ log[k].idx = log[kept[n]].idx
  BY <1>1, <1>3, <1>4, <1>5, <1>8
<1> QED
  BY <1>3, <1>5, <1>9

LEMMA LoadInv == ASSUME WalInv, Load PROVE WalInv'
<1>1. /\ phase = "down" /\ live' = dlive /\ last' = LoadedLast /\ todo' = ToReplay(log)
      /\ phase' = (IF todo' = <<>> THEN "open" ELSE "replay")
      /\ aligned' = (aligned /\ Fits(todo', dlive, (slabs - 1) * RowsPerSlab + LoadedLast))
      /\ UNCHANGED <<cells, slabs, dlive, dmark, log, buf, saved, touched>>
  BY DEF Load, disk
<1>2. TypeOK /\ LogOK /\ TypeOK' /\ ~InTx /\ ~InTx'
  BY <1>1, LoadType, TypeParts DEF WalInv, InTx
<1>3. /\ Lines = log /\ Owing = Committed(log) /\ Lines' = Lines /\ Owing' = Owing /\ touched = {}
      /\ log \in Seq(Line) /\ Typed(log)
  <2>1. Lines = log /\ Owing = Committed(log) /\ touched = {} /\ log \in Seq(Line) /\ Typed(log)
    BY <1>2, LogTyped, LogOnly DEF WalInv, BufferShape
  <2>2. Lines' = Lines
    BY <1>1 DEF Lines
  <2> QED
    BY <1>2, <2>1, <2>2 DEF Owing
<1>4. aligned' => aligned /\ Whole /\ Whole'
  <2>1. aligned' => aligned /\ \A n \in DOMAIN log : log[n].op = "torn" => n = Len(log)
    BY <1>1 DEF Fits
  <2>2. (\A n \in DOMAIN log : log[n].op = "torn" => n = Len(log)) => Whole
    BY <1>3 DEF Whole
  <2> QED
    BY <1>1, <2>1, <2>2 DEF Whole
<1>5. (Honest' => Honest) /\ (aligned' => Honest)
  BY <1>4 DEF Honest
<1>6. NextIdx' = (slabs - 1) * RowsPerSlab + LoadedLast
  BY <1>1 DEF NextIdx
<1>7. BufferShape'
  BY <1>1, <1>2 DEF WalInv, BufferShape
<1>8. BelowMark'
  BY <1>1, <1>2, <1>6 DEF BelowMark, Fits
<1>9. UsedOnce'
  BY <1>3, <1>5 DEF WalInv, UsedOnce
<1>10. CASE ToReplay(log) = <<>>
  <2>1. phase' = "open" /\ want' = FileView /\ leaked' = {} /\ Committed(log) = {}
    BY <1>1, <1>3, <1>10, NothingToReplay DEF Load
  <2>2. \A i \in Slot : want'[i] = Get(i)' /\ want'[i] = IF i \in dlive' THEN Base'[i] ELSE Absent
    BY <1>1, <1>2, <2>1 DEF FileView, Get, Base
  <2>3. Promised'
    BY <1>2, <2>1, <2>2 DEF Promised
  <2>4. RecordsBelowMark' /\ TxClaims' /\ ReplayInv'
    BY <1>2, <1>3, <2>1 DEF RecordsBelowMark, TxClaims, ReplayInv
  <2>5. FileClaims'
    <3> SUFFICES ASSUME NEW i \in Slot PROVE Claim(Lines', Of(Lines', Committed(Lines'), i), dlive', Base', i, want'[i])
      BY DEF FileClaims
    <3>1. \A n \in Committed(Lines') : Lines'[n].idx # i
      BY <1>3, <2>1
    <3> QED
      BY <2>2, <3>1, NoRecords
  <2> QED
    BY <1>2, <1>7, <1>8, <1>9, <2>3, <2>4, <2>5 DEF WalInv
<1>11. CASE ToReplay(log) # <<>>
  <2>1. phase' = "replay" /\ want' = want /\ leaked' = leaked
    BY <1>1, <1>11 DEF Load
  <2>2. Promised' /\ RecordsBelowMark' /\ TxClaims'
    BY <1>2, <2>1 DEF Promised, RecordsBelowMark, TxClaims
  <2>3. FileClaims'
    <3>1. Base' = Base
      BY <1>1, <1>2 DEF Base
    <3> QED
      BY <1>1, <1>2, <1>3, <1>5, <2>1, <3>1 DEF WalInv, FileClaims
  <2>4. ReplayInv'
    <3> SUFFICES ASSUME aligned' PROVE ReplayInv'
      BY DEF ReplayInv
    <3>1. Honest /\ Whole'
      BY <1>4, <1>5
    <3>2. \A m, n \in 1..Len(todo') :
            m < n /\ todo'[m].idx = todo'[n].idx /\ todo'[n].op = "insert" => todo'[m].op # "delete"
      BY <1>1, <1>2, <3>1, InsertsLast
    <3>3. \A n \in MissingRows' : todo'[n].idx = NextIdx' + Cardinality({m \in MissingRows' : m < n})
      <4>1. MissingRows' = {n \in DOMAIN todo' : todo'[n].op = "insert" /\ todo'[n].idx \notin dlive}
        BY <1>1 DEF MissingRows
      <4>2. Fits(todo', dlive, NextIdx')
        BY <1>1, <1>6
      <4> QED
        BY <4>1, <4>2 DEF Fits
    <3>4. ASSUME NEW i \in Slot \ leaked', want'[i] # NoClaim
          PROVE  /\ Claim(todo', At(todo', 1..Len(todo'), i), live', cells', i, want'[i])
                 /\ Claim(log', Of(log', Committed(log'), i), live', cells', i, want'[i])
      <4>1. Claim(log, Of(log, Committed(log), i), dlive, cells, i, want[i])
        BY <2>1, <3>1, <3>4, CrashClaims
      <4>2. Claim(ToReplay(log), At(ToReplay(log), 1..Len(ToReplay(log)), i), dlive, cells, i, want[i])
        BY <1>3, <4>1, ClaimReplayed
      <4> QED
        BY <1>1, <2>1, <4>1, <4>2
    <3>5. ASSUME NEW n \in 1..Len(todo') PROVE \E m \in Netted(log', Committed(log')) : log'[m] = todo'[n]
      <4>1. PICK kept \in Seq(Netted(log, Committed(log))) :
              /\ Len(ToReplay(log)) = Len(kept)
              /\ \A k \in 1..Len(kept) : ToReplay(log)[k] = log[kept[k]]
        BY <1>3, Replayed
      <4>2. n \in 1..Len(kept) /\ todo'[n] = log[kept[n]] /\ kept[n] \in Netted(log, Committed(log))
        BY <1>1, <4>1
      <4> QED
        BY <1>1, <4>2
    <3> QED
      BY <2>1, <3>1, <3>2, <3>3, <3>4, <3>5 DEF ReplayInv
  <2> QED
    BY <1>2, <1>7, <1>8, <1>9, <2>2, <2>3, <2>4 DEF WalInv
<1> QED
  BY <1>10, <1>11

LEMMA ReplayFlushInv == ASSUME WalInv, ReplayFlush PROVE WalInv'
<1>1. /\ phase = "replay" /\ todo = <<>> /\ dlive' = live /\ phase' = "clear"
      /\ UNCHANGED <<cells, slabs, log, live, last, buf, saved, todo, want, touched, leaked, aligned>>
  BY DEF ReplayFlush, PersistBitmaps, ghost
<1>2. TypeOK /\ LogOK /\ TypeOK' /\ ~InTx /\ ~InTx'
  BY <1>1, ReplayEndType, TypeParts DEF WalInv, InTx
<1>3. Lines = log /\ Lines' = Lines /\ Owing' = Owing /\ (Honest' <=> Honest) /\ NextIdx' = NextIdx
  BY <1>1, <1>2, LogOnly DEF WalInv, Lines, Owing, Honest, Whole, NextIdx
<1>4. BufferShape' /\ UsedOnce' /\ BelowMark'
  <2>1. BufferShape'
    BY <1>1, <1>2 DEF WalInv, BufferShape
  <2>2. UsedOnce'
    BY <1>3 DEF WalInv, UsedOnce
  <2>3. BelowMark'
    BY <1>1, <1>2, <1>3 DEF WalInv, BelowMark
  <2> QED
    BY <2>1, <2>2, <2>3
<1>5. Promised' /\ RecordsBelowMark' /\ TxClaims'
  BY <1>1, <1>2 DEF Promised, RecordsBelowMark, TxClaims
<1>6. FileClaims'
  <2> SUFFICES ASSUME Honest', NEW i \in Slot, want'[i] # NoClaim, i \notin leaked'
               PROVE  Claim(Lines', Of(Lines', Committed(Lines'), i), dlive', Base', i, want'[i])
    BY <1>2 DEF FileClaims
  <2>1. Claim(log, Of(log, Committed(log), i), live, cells, i, want[i])
    BY <1>1, <1>3 DEF WalInv, ReplayInv, Honest
  <2>2. Base' = cells
    BY <1>1, <1>2 DEF Base, TypeOK
  <2> QED
    BY <1>1, <1>3, <2>1, <2>2
<1>7. ReplayInv'
  <2> SUFFICES ASSUME aligned' PROVE ReplayInv'
    BY DEF ReplayInv
  <2>1. Whole' /\ MissingRows' = {} /\ Len(todo') = 0
    BY <1>1 DEF WalInv, ReplayInv, Whole, MissingRows
  <2>2. \A i \in Slot \ leaked' : want'[i] # NoClaim =>
         /\ Claim(todo', At(todo', 1..Len(todo'), i), live', cells', i, want'[i])
         /\ Claim(log', Of(log', Committed(log'), i), live', cells', i, want'[i])
    BY <1>1 DEF WalInv, ReplayInv
  <2> QED
    BY <1>1, <2>1, <2>2 DEF ReplayInv
<1> QED
  BY <1>2, <1>4, <1>5, <1>6, <1>7 DEF WalInv

LEMMA ReplayClearInv == ASSUME WalInv, ReplayClear PROVE WalInv'
<1>1. /\ phase = "clear" /\ phase' = "open" /\ log' = <<>> /\ want' = View /\ leaked' = {}
      /\ UNCHANGED <<cells, slabs, dlive, dmark, live, last, buf, saved, todo, touched, aligned>>
  BY DEF ReplayClear
<1>2. TypeOK' /\ ~InTx' /\ buf' = <<>> /\ touched' = {} /\ NextIdx' = NextIdx
  BY <1>1, ReplayEndType DEF WalInv, InTx, BufferShape, NextIdx
<1>3. \A i \in Slot : want'[i] = Get(i)'
  BY <1>1 DEF View, Get
<1>4. Promised' /\ BelowMark' /\ ReplayInv'
  <2>1. Promised' /\ ReplayInv'
    BY <1>1, <1>2, <1>3 DEF Promised, ReplayInv
  <2>2. BelowMark'
    BY <1>1, <1>2 DEF WalInv, BelowMark
  <2> QED
    BY <2>1, <2>2
<1>5. ASSUME Honest', NEW i \in Slot, want'[i] # NoClaim PROVE want'[i] = IF i \in dlive' THEN Base'[i] ELSE Absent
  <2>1. dlive = live
    BY <1>1, <1>5 DEF WalInv, ReplayInv, Honest
  <2> QED
    BY <1>1, <1>2, <1>3, <2>1 DEF Get, Base
<1> QED
  BY <1>1, <1>2, <1>4, <1>5, EmptiedInv


-----------------------------------------------------------------------------
(* Replaying.                                                              *)

\* As many, one place lower.
LEMMA ShiftedCount ==
  ASSUME NEW S \in SUBSET Int, NEW T \in SUBSET Int, IsFiniteSet(S), \A m \in S : m - 1 \in T, \A m \in T : m + 1 \in S
  PROVE  Cardinality(T) = Cardinality(S)
<1> DEFINE f == [m \in S |-> m - 1]
<1>1. f \in [S -> T] /\ \A m \in S : f[m] = m - 1
  OBVIOUS
<1> HIDE DEF f
<1>2. \A m, n \in S : f[m] = f[n] => m = n
  BY <1>1
<1>3. \A e \in T : \E m \in S : f[m] = e
  BY <1>1
<1>4. f \in Bijection(S, T)
  BY <1>1, <1>2, <1>3 DEF Bijection, Injection, Surjection, IsInjective
<1>5. ExistsBijection(S, T)
  BY <1>4 DEF ExistsBijection
<1> QED
  BY <1>5, FS_Bijection

\* The records of a slot in what is left when the first line is gone.
LEMMA AtTail ==
  ASSUME NEW T \in Seq(RowLine), T # <<>>, NEW U \in Seq(RowLine), Len(U) = Len(T) - 1,
         \A n \in 1..Len(U) : U[n] = T[n + 1], NEW i
  PROVE  /\ \A n \in At(U, 1..Len(U), i) : n \in Nat \ {0} /\ n + 1 \in At(T, 1..Len(T), i) /\ U[n] = T[n + 1]
         /\ \A n \in At(T, 1..Len(T), i) : n \in Nat \ {0} /\ (n # 1 => n - 1 \in At(U, 1..Len(U), i))
         /\ 1 \in At(T, 1..Len(T), i) <=> T[1].idx = i
<1>1. Len(T) \in Nat \ {0} /\ Len(U) \in Nat
  OBVIOUS
<1>2. \A n : n \in At(T, 1..Len(T), i) <=> n \in 1..Len(T) /\ T[n].idx = i
  BY DEF At
<1>3. \A n : n \in At(U, 1..Len(U), i) <=> n \in 1..Len(U) /\ U[n].idx = i
  BY DEF At
<1>4. ASSUME NEW n \in At(U, 1..Len(U), i)
      PROVE  n \in Nat \ {0} /\ n + 1 \in At(T, 1..Len(T), i) /\ U[n] = T[n + 1]
  <2>1. n \in 1..Len(U) /\ U[n].idx = i /\ U[n] = T[n + 1]
    BY <1>3
  <2>2. n \in Nat \ {0} /\ n + 1 \in 1..Len(T)
    BY <1>1, <2>1
  <2> QED
    BY <1>2, <2>1, <2>2
<1>5. ASSUME NEW n \in At(T, 1..Len(T), i) PROVE n \in Nat \ {0} /\ (n # 1 => n - 1 \in At(U, 1..Len(U), i))
  <2>1. n \in 1..Len(T) /\ T[n].idx = i /\ n \in Nat \ {0}
    BY <1>1, <1>2
  <2>2. ASSUME n # 1 PROVE n - 1 \in At(U, 1..Len(U), i)
    <3>1. n - 1 \in 1..Len(U) /\ (n - 1) + 1 = n
      BY <1>1, <2>1, <2>2
    <3>2. U[n - 1] = T[n]
      BY <3>1
    <3> QED
      BY <1>3, <2>1, <3>1, <3>2
  <2> QED
    BY <2>1, <2>2
<1>6. 1 \in At(T, 1..Len(T), i) <=> T[1].idx = i
  BY <1>1, <1>2
<1> QED
  BY <1>4, <1>5, <1>6

\* A line of another slot, gone.
LEMMA ClaimLater ==
  ASSUME NEW T \in Seq(RowLine), T # <<>>, NEW U \in Seq(RowLine), Len(U) = Len(T) - 1,
         \A n \in 1..Len(U) : U[n] = T[n + 1], NEW i, NEW a, NEW c, NEW v, NEW w, NEW y,
         T[1].idx # i, i \in a <=> i \in c, i \in a => v[i] = w[i],
         Claim(T, At(T, 1..Len(T), i), a, v, i, y)
  PROVE  Claim(U, At(U, 1..Len(U), i), c, w, i, y)
<1> DEFINE Q == At(T, 1..Len(T), i)
           P == At(U, 1..Len(U), i)
<1>1. /\ \A n \in P : n \in Nat \ {0} /\ n + 1 \in Q /\ U[n] = T[n + 1]
      /\ \A n \in Q : n \in Nat \ {0} /\ n # 1 /\ n - 1 \in P
  BY AtTail
<1>2. /\ Q = {} => y = IF i \in a THEN v[i] ELSE Absent
      /\ \A n \in Q : (\A m \in Q : m <= n) =>
           /\ T[n].op = "delete" => y = Absent
           /\ T[n].op # "delete" => y = T[n].row
           /\ T[n].op = "insert" /\ i \in a => v[i] = T[n].row
           /\ T[n].op = "update" /\ i \notin a => \E m \in Q : T[m].op = "insert"
      /\ \A m, n \in Q : m < n => T[n].op = "update" /\ T[m].op # "delete"
  BY DEF Claim
<1> HIDE DEF Q, P
<1>3. P = {} => y = IF i \in c THEN w[i] ELSE Absent
  <2> SUFFICES ASSUME P = {} PROVE y = IF i \in c THEN w[i] ELSE Absent
    OBVIOUS
  <2>1. Q = {}
    BY <1>1
  <2> QED
    BY <1>2, <2>1
<1>4. ASSUME NEW n \in P, \A m \in P : m <= n
      PROVE  /\ U[n].op = "delete" => y = Absent
             /\ U[n].op # "delete" => y = U[n].row
             /\ U[n].op = "insert" /\ i \in c => w[i] = U[n].row
             /\ U[n].op = "update" /\ i \notin c => \E m \in P : U[m].op = "insert"
  <2>1. n \in Nat \ {0} /\ n + 1 \in Q /\ U[n] = T[n + 1]
    BY <1>1
  <2>2. \A m \in Q : m <= n + 1
    <3> SUFFICES ASSUME NEW m \in Q PROVE m <= n + 1
      OBVIOUS
    <3>1. m \in Nat \ {0} /\ m - 1 \in P
      BY <1>1
    <3>2. m - 1 <= n
      BY <1>4, <3>1
    <3> QED
      BY <2>1, <3>1, <3>2
  <2>3. (\E m \in Q : T[m].op = "insert") => \E m \in P : U[m].op = "insert"
    <3> SUFFICES ASSUME NEW m \in Q, T[m].op = "insert" PROVE \E k \in P : U[k].op = "insert"
      OBVIOUS
    <3>1. m - 1 \in P /\ U[m - 1] = T[(m - 1) + 1] /\ (m - 1) + 1 = m
      BY <1>1
    <3> QED
      BY <3>1
  <2> QED
    BY <1>2, <2>1, <2>2, <2>3
<1>5. ASSUME NEW m \in P, NEW n \in P, m < n PROVE U[n].op = "update" /\ U[m].op # "delete"
  <2>1. m + 1 \in Q /\ n + 1 \in Q /\ m + 1 < n + 1 /\ U[n] = T[n + 1] /\ U[m] = T[m + 1]
    BY <1>1, <1>5
  <2> QED
    BY <1>2, <2>1
<1>6. Claim(U, P, c, w, i, y)
  BY <1>3, <1>4, <1>5 DEF Claim
<1> QED
  BY <1>6 DEF P


\* A line of this slot, applied.
LEMMA ClaimApplied ==
  ASSUME NEW T \in Seq(RowLine), T # <<>>, NEW U \in Seq(RowLine), Len(U) = Len(T) - 1,
         \A n \in 1..Len(U) : U[n] = T[n + 1], NEW i, NEW a, NEW c, NEW v, NEW w, NEW y,
         T[1].idx = i, T[1].op \in RowOps,
         T[1].op = "insert" => i \in c /\ w[i] = IF i \in a THEN v[i] ELSE T[1].row,
         T[1].op = "update" => (i \in a <=> i \in c) /\ (i \in a => w[i] = T[1].row),
         T[1].op = "delete" => i \notin c,
         Claim(T, At(T, 1..Len(T), i), a, v, i, y)
  PROVE  Claim(U, At(U, 1..Len(U), i), c, w, i, y)
<1> DEFINE Q == At(T, 1..Len(T), i)
           P == At(U, 1..Len(U), i)
<1>1. /\ \A n \in P : n \in Nat \ {0} /\ n + 1 \in Q /\ U[n] = T[n + 1]
      /\ \A n \in Q : n \in Nat \ {0} /\ (n # 1 => n - 1 \in P)
      /\ 1 \in Q
  BY AtTail
<1>2. /\ \A n \in Q : (\A m \in Q : m <= n) =>
           /\ T[n].op = "delete" => y = Absent
           /\ T[n].op # "delete" => y = T[n].row
           /\ T[n].op = "insert" /\ i \in a => v[i] = T[n].row
           /\ T[n].op = "update" /\ i \notin a => \E m \in Q : T[m].op = "insert"
      /\ \A m, n \in Q : m < n => T[n].op = "update" /\ T[m].op # "delete"
  BY DEF Claim
<1> HIDE DEF Q, P
<1>3. P = {} => y = IF i \in c THEN w[i] ELSE Absent
  <2> SUFFICES ASSUME P = {} PROVE y = IF i \in c THEN w[i] ELSE Absent
    OBVIOUS
  <2>1. \A n \in Q : n = 1 /\ n <= 1
    BY <1>1
  <2>2. /\ T[1].op = "delete" => y = Absent
        /\ T[1].op # "delete" => y = T[1].row
        /\ T[1].op = "insert" /\ i \in a => v[i] = T[1].row
        /\ T[1].op = "update" /\ i \notin a => \E m \in Q : T[m].op = "insert"
    BY <1>1, <1>2, <2>1
  <2>3. T[1].op = "update" => i \in a
    BY <2>1, <2>2
  <2>4. T[1].op = "insert" \/ T[1].op = "update" \/ T[1].op = "delete"
    BY DEF RowOps
  <2>5. CASE T[1].op = "insert"
    BY <2>2, <2>5
  <2>6. CASE T[1].op = "update"
    BY <2>2, <2>3, <2>6
  <2>7. CASE T[1].op = "delete"
    BY <2>2, <2>7
  <2> QED
    BY <2>4, <2>5, <2>6, <2>7
<1>4. ASSUME NEW n \in P, \A m \in P : m <= n
      PROVE  /\ U[n].op = "delete" => y = Absent
             /\ U[n].op # "delete" => y = U[n].row
             /\ U[n].op = "insert" /\ i \in c => w[i] = U[n].row
             /\ U[n].op = "update" /\ i \notin c => \E m \in P : U[m].op = "insert"
  <2>1. n \in Nat \ {0} /\ n + 1 \in Q /\ U[n] = T[n + 1] /\ 1 < n + 1
    BY <1>1
  <2>2. \A m \in Q : m <= n + 1
    <3> SUFFICES ASSUME NEW m \in Q PROVE m <= n + 1
      OBVIOUS
    <3>1. m \in Nat \ {0} /\ (m # 1 => m - 1 \in P)
      BY <1>1
    <3>2. m # 1 => m - 1 <= n
      BY <1>4, <3>1
    <3> QED
      BY <2>1, <3>1, <3>2
  <2>3. U[n].op = "update" /\ T[1].op # "delete"
    BY <1>1, <1>2, <2>1
  <2>4. y = U[n].row
    BY <1>2, <2>1, <2>2, <2>3
  <2>5. i \in c
    <3>1. T[1].op = "insert" \/ T[1].op = "update"
      BY <2>3 DEF RowOps
    <3>2. CASE T[1].op = "insert"
      BY <3>2
    <3>3. CASE T[1].op = "update"
      <4>1. i \in a
        <5> SUFFICES ASSUME i \notin a PROVE FALSE
          OBVIOUS
        <5>1. PICK m \in Q : T[m].op = "insert"
          BY <1>2, <2>1, <2>2, <2>3
        <5>2. m # 1 /\ 1 < m
          BY <1>1, <3>3, <5>1
        <5> QED
          BY <1>1, <1>2, <5>1, <5>2
      <4> QED
        BY <3>3, <4>1
    <3> QED
      BY <3>1, <3>2, <3>3
  <2> QED
    BY <2>3, <2>4, <2>5
<1>5. ASSUME NEW m \in P, NEW n \in P, m < n PROVE U[n].op = "update" /\ U[m].op # "delete"
  <2>1. m + 1 \in Q /\ n + 1 \in Q /\ m + 1 < n + 1 /\ U[n] = T[n + 1] /\ U[m] = T[m + 1]
    BY <1>1, <1>5
  <2> QED
    BY <1>2, <2>1
<1>6. Claim(U, P, c, w, i, y)
  BY <1>3, <1>4, <1>5 DEF Claim
<1> QED
  BY <1>6 DEF P

\* The same line, in the log from its start: applied there too.
LEMMA ClaimStands ==
  ASSUME NEW L, NEW R, \A n \in R : n \in Nat /\ L[n].op \in RowOps, NEW m \in R,
         NEW i, NEW a, NEW c, NEW v, NEW w, NEW y,
         L[m].op = "insert" => i \notin a /\ w[i] = L[m].row,
         L[m].op = "update" => (i \in a <=> i \in c),
         Claim(L, R, a, v, i, y)
  PROVE  Claim(L, R, c, w, i, y)
<1>1. /\ \A n \in R : (\A k \in R : k <= n) =>
           /\ L[n].op = "delete" => y = Absent
           /\ L[n].op # "delete" => y = L[n].row
           /\ L[n].op = "update" /\ i \notin a => \E k \in R : L[k].op = "insert"
      /\ \A k, n \in R : k < n => L[n].op = "update" /\ L[k].op # "delete"
  BY DEF Claim
<1>2. ASSUME NEW n \in R, \A k \in R : k <= n
      PROVE  /\ L[n].op = "delete" => y = Absent
             /\ L[n].op # "delete" => y = L[n].row
             /\ L[n].op = "insert" /\ i \in c => w[i] = L[n].row
             /\ L[n].op = "update" /\ i \notin c => \E k \in R : L[k].op = "insert"
  <2>1. m = n \/ m < n
    BY <1>2
  <2>2. L[m].op = "insert" \/ L[m].op = "update" \/ L[m].op = "delete"
    BY DEF RowOps
  <2>3. CASE m = n
    BY <1>1, <1>2, <2>2, <2>3
  <2>4. CASE m < n
    <3>1. L[n].op = "update" /\ L[m].op # "delete"
      BY <1>1, <2>4
    <3>2. L[m].op = "update" /\ i \notin c => \E k \in R : L[k].op = "insert"
      BY <1>1, <1>2, <3>1
    <3>3. L[m].op = "insert" => \E k \in R : L[k].op = "insert"
      OBVIOUS
    <3> QED
      BY <1>1, <1>2, <2>2, <3>1, <3>2, <3>3
  <2> QED
    BY <2>1, <2>3, <2>4
<1> QED
  BY <1>1, <1>2 DEF Claim


\* What one line does, once the log fits the file.
LEMMA ReplayEffect ==
  ASSUME WalInv, Replay, aligned, NEW rec \in RowLine, rec = todo[1], NEW j \in Slot, j = rec.idx
  PROVE  /\ \A i \in Slot : i # j => cells'[i] = cells[i] /\ (i \in live' <=> i \in live)
         /\ rec.op = "insert" => j \in live' /\ cells'[j] = IF j \in live THEN cells[j] ELSE rec.row
         /\ rec.op = "update" => (j \in live' <=> j \in live) /\ (j \in live => cells'[j] = rec.row)
         /\ rec.op = "delete" => j \notin live' /\ cells'[j] = cells[j]
         /\ j \notin live => rec.op = "insert" \/ cells'[j] = cells[j]
         /\ rec.op = "insert" /\ j \notin live => j = NextIdx /\ NextIdx' = NextIdx + 1
         /\ rec.op # "insert" \/ j \in live => NextIdx' = NextIdx
<1>1. TypeOK /\ phase = "replay" /\ todo # <<>> /\ Head(todo) = rec /\ Len(todo) \in Nat \ {0}
      /\ rec.op \in RowOps /\ (rec.op # "delete" => rec.row \in Val)
  BY TodoHead DEF WalInv, Replay, RowLine
<1>2. \/ rec.op = "insert" /\ ReplayInsert(rec)
      \/ rec.op = "update" /\ ReplayUpdate(rec)
      \/ rec.op = "delete" /\ ReplayDelete(rec)
  BY <1>1 DEF Replay
<1>3. j \notin live <=> Get(j) = Absent
  BY <1>1, MarkAssumption DEF Get, TypeOK
<1>4. cells \in [Slot -> Val \cup {Zero}] /\ live \in SUBSET Slot
  BY <1>1 DEF TypeOK
<1>5. CASE rec.op = "insert" /\ j \notin live
  <2>1. Place(rec.row)
    BY <1>2, <1>3, <1>5 DEF ReplayInsert
  <2>2. cells' = [cells EXCEPT ![NextIdx] = rec.row] /\ live' = live \cup {NextIdx}
    BY <2>1 DEF Place
  <2>3. NextIdx' = NextIdx + 1 /\ NextIdx \in Slot /\ NextIdx \in Int
    BY <1>1, <1>5, <2>1, PlaceType DEF Slot
  <2>4. j = NextIdx
    <3>1. 1 \in MissingRows
      BY <1>1, <1>5 DEF MissingRows, TypeOK
    <3>2. todo[1].idx = NextIdx + Cardinality({m \in MissingRows : m < 1})
      BY <1>1, <3>1 DEF WalInv, ReplayInv
    <3>3. {m \in MissingRows : m < 1} = {}
      <4>1. \A m \in MissingRows : m \in 1..Len(todo)
        BY DEF MissingRows, WalInv, TypeOK
      <4> QED
        BY <1>1, <4>1
    <3> QED
      BY <2>3, <3>2, <3>3, FS_EmptySet
  <2>5. cells' = [cells EXCEPT ![j] = rec.row] /\ live' = live \cup {j}
    BY <2>2, <2>4
  <2> QED
    BY <1>4, <1>5, <2>3, <2>4, <2>5
<1>6. CASE rec.op = "insert" /\ j \in live
  <2>1. UNCHANGED <<cells, live, slabs, last>>
    BY <1>2, <1>3, <1>6 DEF ReplayInsert
  <2> QED
    BY <1>6, <2>1 DEF NextIdx
<1>7. CASE rec.op = "update"
  <2>1. cells' = (IF j \in live THEN [cells EXCEPT ![j] = rec.row] ELSE cells) /\ UNCHANGED <<live, slabs, last>>
    BY <1>2, <1>7 DEF ReplayUpdate
  <2> QED
    BY <1>4, <1>7, <2>1 DEF NextIdx
<1>8. CASE rec.op = "delete"
  <2>1. live' = live \ {j} /\ UNCHANGED <<cells, slabs, last>>
    BY <1>2, <1>8 DEF ReplayDelete
  <2> QED
    BY <1>4, <1>8, <2>1 DEF NextIdx
<1> QED
  BY <1>1, <1>5, <1>6, <1>7, <1>8 DEF RowOps

\* The missing rows still run on from the mark.
LEMMA MissingAfter ==
  ASSUME WalInv, Replay, aligned
  PROVE  \A n \in MissingRows' : todo'[n].idx = NextIdx' + Cardinality({m \in MissingRows' : m < n})
<1>1. TypeOK /\ phase = "replay" /\ todo # <<>> /\ todo' = Tail(todo)
  BY DEF WalInv, Replay
<1>2. /\ todo[1] \in RowLine /\ Tail(todo) \in Seq(RowLine) /\ Len(todo) \in Nat \ {0} /\ Len(Tail(todo)) = Len(todo) - 1
      /\ \A n \in 1..Len(todo) - 1 : Tail(todo)[n] = todo[n + 1]
  BY <1>1, TodoHead
<1> DEFINE rec == todo[1]
           L == Len(todo)
           M == MissingRows
           K == MissingRows'
<1> HIDE DEF rec
<1>3. PICK j \in Slot : j = rec.idx
  BY <1>2 DEF RowLine, rec
<1>4. /\ \A i \in Slot : i # j => (i \in live' <=> i \in live)
      /\ rec.op = "insert" => j \in live'
      /\ rec.op = "update" => (j \in live' <=> j \in live)
      /\ rec.op = "insert" /\ j \notin live => j = NextIdx /\ NextIdx' = NextIdx + 1
      /\ rec.op # "insert" \/ j \in live => NextIdx' = NextIdx
  BY <1>2, <1>3, ReplayEffect DEF rec
<1>5. \A n : n \in M <=> n \in 1..L /\ todo[n].op = "insert" /\ todo[n].idx \notin live
  BY <1>1 DEF MissingRows, TypeOK
<1>6. \A n : n \in K <=> n \in 1..L - 1 /\ todo[n + 1].op = "insert" /\ todo[n + 1].idx \notin live'
  <2>1. DOMAIN todo' = 1..L - 1
    BY <1>1, <1>2
  <2> QED
    BY <1>1, <1>2, <2>1 DEF MissingRows
<1>7. \A n \in M : todo[n].idx = NextIdx + Cardinality({m \in M : m < n})
  BY <1>1 DEF WalInv, ReplayInv
<1>8. \A m, n \in 1..L : m < n /\ todo[m].idx = todo[n].idx /\ todo[n].op = "insert" => todo[m].op # "delete"
  BY <1>1 DEF WalInv, ReplayInv
<1>9. \A n \in 1..L : todo[n] \in RowLine /\ todo[n].idx \in Slot
  <2>1. \A n \in 1..L : todo[n] \in RowLine
    BY <1>1 DEF TypeOK
  <2> QED
    BY <2>1 DEF RowLine
<1>10. NextIdx \in Int /\ rec.op \in RowOps
  BY <1>1, <1>2, MarkNat, SizeAssumption DEF TypeOK, RowLine, rec
<1> HIDE DEF M, K, L
<1>11. \A n \in M : n \in 1..L /\ n \in Nat \ {0}
  BY <1>2, <1>5 DEF L
<1>12. \A n \in Nat : IsFiniteSet({m \in M : m < n})
  <2> SUFFICES ASSUME NEW n \in Nat PROVE IsFiniteSet({m \in M : m < n})
    OBVIOUS
  <2>1. {m \in M : m < n} \in SUBSET (1..L)
    BY <1>11
  <2>2. IsFiniteSet(1..L)
    BY <1>2, FS_Interval DEF L
  <2> QED
    BY <2>1, <2>2, FS_Subset
\* The rows missing before a later one: the first line's own, if it was missing, and those still missing.
<1>13. ASSUME NEW n \in 1..L - 1
       PROVE  /\ n \in K => n + 1 \in M
              /\ n + 1 \in M /\ (1 \in M => todo[n + 1].idx # j) => n \in K
  <2>1. n + 1 \in 1..L /\ 1 < n + 1 /\ 1 \in 1..L /\ n + 1 # 1
    BY <1>2 DEF L
  <2>2. todo[n + 1].idx \in Slot
    BY <1>9, <2>1
  <2>3. n \in K => n + 1 \in M
    <3> SUFFICES ASSUME n \in K PROVE n + 1 \in M
      OBVIOUS
    <3>1. todo[n + 1].op = "insert" /\ todo[n + 1].idx \notin live'
      BY <1>6
    <3>2. todo[n + 1].idx # j \/ rec.op # "delete"
      BY <1>3, <1>8, <2>1, <3>1 DEF rec
    <3>3. todo[n + 1].idx \notin live
      BY <1>3, <1>4, <1>10, <2>2, <3>1, <3>2 DEF RowOps
    <3> QED
      BY <1>5, <2>1, <3>1, <3>3
  <2>4. n + 1 \in M /\ (1 \in M => todo[n + 1].idx # j) => n \in K
    <3> SUFFICES ASSUME n + 1 \in M, 1 \in M => todo[n + 1].idx # j PROVE n \in K
      OBVIOUS
    <3>1. todo[n + 1].op = "insert" /\ todo[n + 1].idx \notin live
      BY <1>5
    <3>2. CASE todo[n + 1].idx # j
      BY <1>4, <1>6, <2>2, <3>1, <3>2
    <3>3. CASE todo[n + 1].idx = j
      <4>1. j \notin live /\ 1 \notin M
        BY <3>1, <3>3
      <4>2. rec.op # "insert"
        BY <1>3, <1>5, <2>1, <4>1 DEF rec
      <4>3. rec.op # "delete"
        BY <1>3, <1>8, <2>1, <3>1, <3>3 DEF rec
      <4>4. j \notin live'
        BY <1>4, <1>10, <4>1, <4>2, <4>3 DEF RowOps
      <4> QED
        BY <1>6, <3>1, <3>3, <4>4
    <3> QED
      BY <3>2, <3>3
  <2> QED
    BY <2>3, <2>4
<1>14. 1 \in M => \A n \in M : n # 1 => todo[n].idx # j
  <2> SUFFICES ASSUME 1 \in M, NEW n \in M, n # 1 PROVE todo[n].idx # j
    OBVIOUS
  <2>1. j = NextIdx
    BY <1>3, <1>4, <1>5 DEF rec
  <2> DEFINE B == {m \in M : m < n}
  <2>2. 1 \in B /\ IsFiniteSet(B)
    BY <1>11, <1>12
  <2>3. todo[n].idx = NextIdx + Cardinality(B)
    BY <1>7
  <2> HIDE DEF B
  <2>4. Cardinality(B) \in Nat /\ Cardinality(B) # 0
    BY <2>2, FS_EmptySet, FS_CardinalityType
  <2> QED
    BY <1>10, <2>1, <2>3, <2>4
<1>15. \A n \in 1..L - 1 : n \in K <=> n + 1 \in M
  <2> SUFFICES ASSUME NEW n \in 1..L - 1 PROVE n \in K <=> n + 1 \in M
    OBVIOUS
  <2>1. n + 1 # 1
    BY <1>2 DEF L
  <2> QED
    BY <1>13, <1>14, <2>1
<1>16. \A n \in K : n \in 1..L - 1 /\ n \in Nat \ {0}
  BY <1>2, <1>6 DEF L
<1>17. IF 1 \in M THEN NextIdx' = NextIdx + 1 ELSE NextIdx' = NextIdx
  <2>1. 1 \in 1..L
    BY <1>2 DEF L
  <2>2. 1 \in M <=> rec.op = "insert" /\ j \notin live
    BY <1>3, <1>5, <2>1 DEF rec
  <2> QED
    BY <1>4, <2>2
<1>18. ASSUME NEW n \in K PROVE todo'[n].idx = NextIdx' + Cardinality({m \in K : m < n})
  <2> DEFINE A == {m \in M : m < n + 1}
             C == {m \in K : m < n}
  <2>1. n \in 1..L - 1 /\ n \in Nat \ {0} /\ n + 1 \in M /\ todo'[n] = todo[n + 1]
    BY <1>1, <1>2, <1>15, <1>16 DEF L
  <2>2. IsFiniteSet(A)
    BY <1>12, <2>1
  <2>3. todo[n + 1].idx = NextIdx + Cardinality(A)
    BY <1>7, <2>1
  <2>4. C \in SUBSET Int /\ \A m \in C : m + 1 \in A /\ m + 1 # 1
    <3> SUFFICES ASSUME NEW m \in C PROVE m \in Int /\ m + 1 \in A /\ m + 1 # 1
      OBVIOUS
    <3>1. m \in K /\ m < n /\ m \in 1..L - 1 /\ m \in Nat \ {0}
      BY <1>16
    <3> QED
      BY <1>15, <2>1, <3>1
  <2>5. A \in SUBSET Int /\ \A m \in A : m # 1 => m - 1 \in C
    <3> SUFFICES ASSUME NEW m \in A PROVE m \in Int /\ (m # 1 => m - 1 \in C)
      OBVIOUS
    <3>1. m \in M /\ m < n + 1 /\ m \in 1..L /\ m \in Nat \ {0}
      BY <1>11
    <3>2. m # 1 => m - 1 \in 1..L - 1 /\ (m - 1) + 1 = m /\ m - 1 < n
      BY <1>2, <2>1, <3>1 DEF L
    <3> QED
      BY <1>15, <3>1, <3>2
  <2>6. 1 \in A <=> 1 \in M
    BY <2>1
  <2> HIDE DEF A, C
  <2>7. Cardinality(C) = Cardinality(A \ {1})
    <3>1. IsFiniteSet(A \ {1})
      BY <2>2, FS_RemoveElement
    <3>2. A \ {1} \in SUBSET Int /\ (\A m \in A \ {1} : m - 1 \in C) /\ (\A m \in C : m + 1 \in A \ {1})
      BY <2>4, <2>5
    <3> QED
      BY <2>4, <3>1, <3>2, ShiftedCount
  <2>8. Cardinality(A \ {1}) = IF 1 \in A THEN Cardinality(A) - 1 ELSE Cardinality(A)
    BY <2>2, FS_RemoveElement
  <2>9. Cardinality(A) \in Nat
    BY <2>2, FS_CardinalityType
  <2>10. todo'[n].idx = NextIdx' + Cardinality(C)
    BY <1>10, <1>17, <2>1, <2>3, <2>6, <2>7, <2>8, <2>9
  <2> QED
    BY <2>10 DEF C
<1> QED
  BY <1>18 DEF K


LEMMA ReplayStepInv == ASSUME WalInv, Replay PROVE WalInv'
<1>1. /\ TypeOK /\ LogOK /\ phase = "replay" /\ phase' = "replay" /\ todo # <<>> /\ todo' = Tail(todo) /\ TypeOK'
      /\ UNCHANGED <<dlive, dmark, log, buf, saved, want, touched, leaked, aligned>>
  BY ReplayType, TypeParts DEF WalInv, Replay, ghost
<1>2. ~InTx /\ ~InTx' /\ Lines = log /\ Lines' = Lines /\ Owing' = Owing /\ Whole' = Whole
  BY <1>1, LogOnly DEF WalInv, InTx, Lines, Owing, Whole
<1>3. BufferShape' /\ Promised' /\ RecordsBelowMark' /\ TxClaims'
  <2>1. BufferShape'
    BY <1>1, <1>2 DEF WalInv, BufferShape
  <2>2. Promised' /\ RecordsBelowMark' /\ TxClaims'
    BY <1>1, <1>2 DEF Promised, RecordsBelowMark, TxClaims
  <2> QED
    BY <2>1, <2>2
<1>4. UsedOnce'
  BY <1>1, <1>2 DEF WalInv, UsedOnce, Honest
<1>5. CASE ~aligned
  <2>1. BelowMark' /\ FileClaims' /\ ReplayInv'
    BY <1>1, <1>5 DEF BelowMark, FileClaims, ReplayInv, Honest
  <2> QED
    BY <1>1, <1>3, <1>4, <2>1 DEF WalInv
<1>6. CASE aligned
  <2>1. PICK rec \in RowLine : rec = todo[1]
    BY <1>1, TodoHead
  <2>2. PICK j \in Slot : j = rec.idx
    BY <2>1 DEF RowLine
  <2>3. /\ \A i \in Slot : i # j => cells'[i] = cells[i] /\ (i \in live' <=> i \in live)
        /\ rec.op = "insert" => j \in live' /\ cells'[j] = IF j \in live THEN cells[j] ELSE rec.row
        /\ rec.op = "update" => (j \in live' <=> j \in live) /\ (j \in live => cells'[j] = rec.row)
        /\ rec.op = "delete" => j \notin live' /\ cells'[j] = cells[j]
        /\ j \notin live => rec.op = "insert" \/ cells'[j] = cells[j]
        /\ rec.op = "insert" /\ j \notin live => j = NextIdx /\ NextIdx' = NextIdx + 1
        /\ rec.op # "insert" \/ j \in live => NextIdx' = NextIdx
    BY <1>6, <2>1, <2>2, ReplayEffect
  <2>4. rec.op \in RowOps /\ NextIdx \in Int
    BY <1>1, MarkNat, SizeAssumption DEF RowLine, TypeOK
  <2>5. /\ Whole
        /\ \A m, n \in 1..Len(todo) :
             m < n /\ todo[m].idx = todo[n].idx /\ todo[n].op = "insert" => todo[m].op # "delete"
        /\ \A n \in 1..Len(todo) : \E m \in Netted(log, Committed(log)) : log[m] = todo[n]
    BY <1>1, <1>6 DEF WalInv, ReplayInv
  <2>6. Honest /\ Honest'
    BY <1>1, <1>2, <1>6, <2>5 DEF Honest
  <2>7. /\ Tail(todo) \in Seq(RowLine) /\ Len(todo) \in Nat \ {0} /\ Len(Tail(todo)) = Len(todo) - 1
        /\ \A n \in 1..Len(todo) - 1 : Tail(todo)[n] = todo[n + 1]
        /\ todo \in Seq(RowLine)
    BY <1>1, TodoHead DEF TypeOK
  <2>8. PICK m \in Netted(log, Committed(log)) : log[m] = rec
    BY <2>1, <2>5, <2>7
  <2>9. m \in Of(log, Committed(log), j) /\ m \in Committed(log)
    BY <2>2, <2>8 DEF Of, Netted
  <2>10. \A n \in Of(log, Committed(log), j) : n \in Nat /\ log[n].op \in RowOps
    <3>1. \A n \in Committed(log) : n \in 1..Len(log) /\ log[n].op \in RowOps
      BY <1>1, LogTyped, RowPositions
    <3>2. Of(log, Committed(log), j) \subseteq Committed(log)
      BY DEF Of, Netted
    <3>3. Len(log) \in Nat
      BY <1>1, LogTyped
    <3> QED
      BY <3>1, <3>2, <3>3
  <2>11. BelowMark'
    <3>1. \A i \in live \cup dlive : i < NextIdx /\ i \in Int
      BY <1>1, <1>6 DEF WalInv, BelowMark, TypeOK, Slot
    <3>2. ASSUME NEW i \in live' \cup dlive' PROVE i < NextIdx'
      <4>1. i \in Slot
        BY <1>1 DEF TypeOK
      <4>2. i \in live \cup dlive \/ (i = j /\ j \notin live /\ rec.op = "insert")
        <5>1. CASE i \in dlive
          BY <5>1
        <5>2. CASE i \in live' /\ i # j
          BY <2>3, <4>1, <5>2
        <5>3. CASE i \in live' /\ i = j
          BY <2>3, <2>4, <5>3 DEF RowOps
        <5> QED
          BY <1>1, <5>1, <5>2, <5>3
      <4>3. NextIdx' = NextIdx \/ NextIdx' = NextIdx + 1
        BY <2>3
      <4>4. CASE i \in live \cup dlive
        BY <2>4, <3>1, <4>3, <4>4
      <4>5. CASE i = j /\ j \notin live /\ rec.op = "insert"
        BY <2>3, <2>4, <4>5
      <4> QED
        BY <4>2, <4>4, <4>5
    <3> QED
      BY <1>1, <1>2, <3>2 DEF BelowMark
  <2>12. ASSUME NEW i \in Slot \ leaked, want[i] # NoClaim
         PROVE  /\ Claim(todo, At(todo, 1..Len(todo), i), live, cells, i, want[i])
                /\ Claim(log, Of(log, Committed(log), i), live, cells, i, want[i])
                /\ Claim(log, Of(log, Committed(log), i), dlive, cells, i, want[i])
    <3>1. /\ Claim(todo, At(todo, 1..Len(todo), i), live, cells, i, want[i])
          /\ Claim(log, Of(log, Committed(log), i), live, cells, i, want[i])
      BY <1>1, <1>6, <2>12 DEF WalInv, ReplayInv
    <3>2. Claim(log, Of(log, Committed(log), i), dlive, cells, i, want[i])
      BY <2>6, <2>12, CrashClaims
    <3> QED
      BY <3>1, <3>2
  <2>13. FileClaims'
    <3> SUFFICES ASSUME NEW i \in Slot, want'[i] # NoClaim, i \notin leaked'
                 PROVE  Claim(Lines', Of(Lines', Committed(Lines'), i), dlive', Base', i, want'[i])
      BY <1>2 DEF FileClaims
    <3>1. Claim(log, Of(log, Committed(log), i), dlive, cells, i, want[i])
      BY <1>1, <2>12
    <3>2. Base'[i] = cells'[i]
      BY <1>2 DEF Base
    <3>3. Claim(log, Of(log, Committed(log), i), dlive, Base', i, want[i])
      <4>1. CASE i # j \/ cells'[i] = cells[i]
        <5>1. /\ At(log, Committed(log), i) = At(log, Committed(log), i)
              /\ i \in dlive => cells[i] = Base'[i]
          BY <2>3, <3>2, <4>1
        <5> QED
          BY <3>1, <5>1, ClaimMoves
      <4>2. CASE i = j /\ cells'[i] # cells[i]
        <5>1. CASE rec.op = "insert"
          <6>1. j \notin live /\ j = NextIdx
            BY <2>3, <4>2, <5>1
          <6>2. j \notin dlive
            BY <1>1, <1>6, <2>4, <6>1 DEF WalInv, BelowMark
          <6>3. /\ At(log, Committed(log), i) = At(log, Committed(log), i)
                /\ i \in dlive => cells[i] = Base'[i]
            BY <4>2, <6>2
          <6> QED
            BY <3>1, <6>3, ClaimMoves
        <5>2. CASE rec.op = "update"
          <6>1. log[m].op = "update" /\ m \in Of(log, Committed(log), i)
            BY <2>8, <2>9, <4>2, <5>2
          <6>2. \A n \in Of(log, Committed(log), i) : n \in Nat /\ log[n].op \in RowOps
            BY <2>10, <4>2
          <6> DEFINE R == Of(log, Committed(log), i)
          <6> HIDE DEF R
          <6>3. Claim(log, R, dlive, cells, i, want[i]) /\ m \in R /\ \A n \in R : n \in Nat /\ log[n].op \in RowOps
            BY <3>1, <6>1, <6>2 DEF R
          <6>4. Claim(log, R, dlive, Base', i, want[i])
            BY <6>1, <6>3, ClaimStands
          <6> QED
            BY <6>4 DEF R
        <5>3. CASE rec.op = "delete"
          BY <2>3, <4>2, <5>3
        <5> QED
          BY <2>4, <5>1, <5>2, <5>3 DEF RowOps
      <4> QED
        BY <4>1, <4>2
    <3> QED
      BY <1>1, <1>2, <3>3
  <2>14. ASSUME NEW i \in Slot \ leaked, want[i] # NoClaim
         PROVE  Claim(todo', At(todo', 1..Len(todo'), i), live', cells', i, want[i])
    <3>1. Claim(todo, At(todo, 1..Len(todo), i), live, cells, i, want[i])
      BY <2>12, <2>14
    <3>2. CASE i # j
      <4>1. todo[1].idx # i /\ (i \in live <=> i \in live') /\ (i \in live => cells[i] = cells'[i])
        BY <2>1, <2>2, <2>3, <3>2
      <4>2. Claim(Tail(todo), At(Tail(todo), 1..Len(Tail(todo)), i), live', cells', i, want[i])
        BY <1>1, <2>7, <3>1, <4>1, ClaimLater
      <4> QED
        BY <1>1, <4>2
    <3>3. CASE i = j
      <4>1. /\ todo[1].idx = i /\ todo[1].op \in RowOps
            /\ todo[1].op = "insert" => i \in live' /\ cells'[i] = IF i \in live THEN cells[i] ELSE todo[1].row
            /\ todo[1].op = "update" => (i \in live <=> i \in live') /\ (i \in live => cells'[i] = todo[1].row)
            /\ todo[1].op = "delete" => i \notin live'
        BY <2>1, <2>2, <2>3, <2>4, <3>3
      <4>2. Claim(Tail(todo), At(Tail(todo), 1..Len(Tail(todo)), i), live', cells', i, want[i])
        BY <1>1, <2>7, <3>1, <4>1, ClaimApplied
      <4> QED
        BY <1>1, <4>2
    <3> QED
      BY <3>2, <3>3
  <2>15. ASSUME NEW i \in Slot \ leaked, want[i] # NoClaim
         PROVE  Claim(log, Of(log, Committed(log), i), live', cells', i, want[i])
    <3>1. Claim(log, Of(log, Committed(log), i), live, cells, i, want[i])
      BY <2>12, <2>15
    <3>2. CASE i # j \/ (rec.op = "insert" /\ j \in live)
      <4>1. /\ At(log, Committed(log), i) = At(log, Committed(log), i)
            /\ i \in live <=> i \in live'
            /\ i \in live => cells[i] = cells'[i]
        BY <2>3, <3>2
      <4> QED
        BY <3>1, <4>1, ClaimMoves
    <3>3. CASE i = j /\ (rec.op # "insert" \/ j \notin live)
      <4>1. /\ log[m].op = "insert" => i \notin live /\ cells'[i] = log[m].row
            /\ log[m].op = "update" => (i \in live <=> i \in live')
        BY <2>3, <2>8, <3>3
      <4> DEFINE R == Of(log, Committed(log), i)
      <4>2. m \in R /\ \A n \in R : n \in Nat /\ log[n].op \in RowOps
        BY <2>9, <2>10, <3>3
      <4> HIDE DEF R
      <4>3. Claim(log, R, live, cells, i, want[i])
        BY <3>1 DEF R
      <4>4. Claim(log, R, live', cells', i, want[i])
        BY <4>1, <4>2, <4>3, ClaimStands
      <4> QED
        BY <4>4 DEF R
    <3> QED
      BY <3>2, <3>3
  <2>16. ReplayInv'
    <3>1. Len(todo') = Len(todo) - 1 /\ \A n \in 1..Len(todo') : todo'[n] = todo[n + 1] /\ n + 1 \in 1..Len(todo)
      BY <1>1, <2>7
    <3>2. ASSUME NEW k \in 1..Len(todo'), NEW n \in 1..Len(todo'), k < n, todo'[k].idx = todo'[n].idx, todo'[n].op = "insert"
          PROVE  todo'[k].op # "delete"
      <4>1. k + 1 \in 1..Len(todo) /\ n + 1 \in 1..Len(todo) /\ k + 1 < n + 1 /\ todo'[k] = todo[k + 1] /\ todo'[n] = todo[n + 1]
        BY <2>7, <3>1, <3>2
      <4> QED
        BY <2>5, <3>2, <4>1
    <3>3. \A n \in MissingRows' : todo'[n].idx = NextIdx' + Cardinality({k \in MissingRows' : k < n})
      BY <1>6, MissingAfter
    <3>4. \A n \in 1..Len(todo') : \E k \in Netted(log', Committed(log')) : log'[k] = todo'[n]
      BY <1>1, <2>5, <3>1
    <3>5. \A i \in Slot \ leaked' : want'[i] # NoClaim =>
            /\ Claim(todo', At(todo', 1..Len(todo'), i), live', cells', i, want'[i])
            /\ Claim(log', Of(log', Committed(log'), i), live', cells', i, want'[i])
      BY <1>1, <2>14, <2>15
    <3>6. Whole'
      BY <1>2, <2>5
    <3> QED
      BY <1>1, <3>2, <3>3, <3>4, <3>5, <3>6 DEF ReplayInv
  <2> QED
    BY <1>1, <1>3, <1>4, <2>11, <2>13, <2>16 DEF WalInv
<1> QED
  BY <1>5, <1>6

-----------------------------------------------------------------------------
(* The theorems.                                                           *)

LEMMA InitInv == Init => WalInv
<1> SUFFICES ASSUME Init PROVE WalInv
  OBVIOUS
<1>1. /\ cells = [i \in Slot |-> Zero] /\ slabs = 1 /\ dlive = {} /\ log = <<>> /\ live = {} /\ buf = <<>>
      /\ phase = "open" /\ todo = <<>> /\ want = EmptyView /\ touched = {} /\ leaked = {}
  BY DEF Init
<1>2. TypeOK /\ LogOK /\ ~InTx
  BY <1>1, InitType, TypeParts DEF InTx
<1>3. Lines = log /\ Owing = Committed(log) /\ BufferShape
  <2>1. BufferShape
    BY <1>1, <1>2, NoLines DEF BufferShape
  <2> QED
    BY <1>2, <2>1, LogOnly
<1>4. Committed(log) = {}
  <2>1. log \in Seq(Line) /\ 1..Len(log) = {}
    BY <1>1, NoLines
  <2> QED
    BY <2>1, RowPositions
<1>5. \A i \in Slot : want[i] = Get(i) /\ want[i] = IF i \in dlive THEN Base[i] ELSE Absent
  BY <1>1 DEF EmptyView, Get
<1>6. Promised /\ BelowMark /\ RecordsBelowMark /\ UsedOnce /\ TxClaims /\ ReplayInv
  <2>1. Promised /\ BelowMark
    BY <1>1, <1>2, <1>5 DEF Promised, BelowMark
  <2>2. RecordsBelowMark /\ UsedOnce
    BY <1>3, <1>4 DEF RecordsBelowMark, UsedOnce
  <2>3. TxClaims /\ ReplayInv
    BY <1>1, <1>2 DEF TxClaims, ReplayInv
  <2> QED
    BY <2>1, <2>2, <2>3
<1>7. FileClaims
  <2> SUFFICES ASSUME NEW i \in Slot PROVE Claim(Lines, Of(Lines, Committed(Lines), i), dlive, Base, i, want[i])
    BY DEF FileClaims
  <2>1. \A n \in Committed(Lines) : Lines[n].idx # i
    BY <1>3, <1>4
  <2> QED
    BY <1>5, <2>1, NoRecords
<1> QED
  BY <1>2, <1>3, <1>6, <1>7 DEF WalInv

LEMMA StutterInv == ASSUME WalInv, UNCHANGED vars PROVE WalInv'
<1>1. UNCHANGED <<cells, slabs, dlive, dmark, log, live, last, buf, saved, phase, todo, want, touched, leaked, aligned>>
  BY DEF vars, disk, memory, ghost
<1>2. TypeOK'
  BY NextType DEF WalInv
<1>3. /\ Lines' = Lines /\ Owing' = Owing /\ (Honest' <=> Honest) /\ (Whole' <=> Whole) /\ Base' = Base
      /\ (InTx' <=> InTx) /\ NextIdx' = NextIdx /\ MissingRows' = MissingRows /\ \A i : Get(i)' = Get(i)
  BY <1>1 DEF Lines, Owing, InTx, Honest, Whole, Base, NextIdx, MissingRows, Get
<1>4. BufferShape' /\ Promised' /\ BelowMark'
  BY <1>1, <1>3 DEF WalInv, BufferShape, Promised, BelowMark
<1>5. RecordsBelowMark' /\ UsedOnce'
  BY <1>1, <1>3 DEF WalInv, RecordsBelowMark, UsedOnce
<1>6. FileClaims' /\ TxClaims'
  BY <1>1, <1>3 DEF WalInv, FileClaims, TxClaims
<1>7. ReplayInv'
  BY <1>1, <1>3 DEF WalInv, ReplayInv
<1> QED
  BY <1>2, <1>4, <1>5, <1>6, <1>7 DEF WalInv

LEMMA NextInv == ASSUME WalInv, [Next]_vars PROVE WalInv'
<1>1. CASE UNCHANGED vars
  BY <1>1, StutterInv
<1>2. ASSUME NEW r \in Val, Insert(r) PROVE WalInv'
  BY <1>2, InsertInv
<1>3. ASSUME NEW i \in live, NEW r \in Val, Update(i, r) PROVE WalInv'
  BY <1>3, UpdateInv
<1>4. ASSUME NEW i \in live, Delete(i) PROVE WalInv'
  BY <1>4, DeleteInv
<1>5. CASE Begin \/ Commit \/ CommitFails \/ Rollback
  BY <1>5, BeginInv, CommitInv, CommitFailsInv, RollbackInv
<1>6. CASE Flush \/ Checkpoint \/ Compact \/ Close
  BY <1>6, FlushInv, CheckpointInv, CompactInv, CloseInv
<1>7. CASE Crash \/ CrashInFlush \/ CrashInCompact
  BY <1>7, CrashInv, CrashInFlushInv, CrashInCompactInv
<1>8. ASSUME NEW n \in 0..Len(buf) + 1, NEW torn \in BOOLEAN, CrashInCommit(n, torn) PROVE WalInv'
  BY <1>8, CrashInCommitInv
<1>9. CASE Recover
  BY <1>9, LoadInv, ReplayStepInv, ReplayFlushInv, ReplayClearInv DEF Recover
<1> QED
  BY <1>1, <1>2, <1>3, <1>4, <1>5, <1>6, <1>7, <1>8, <1>9 DEF Next

\* At every point of every behaviour, exits, torn lines and failing commits
\* included, the records committed in the log over the pages of the file are
\* what recovery owes the client, and no replay has spoilt that.
THEOREM WalCorrect == Spec => []WalInv
<1>1. Init => WalInv
  BY InitInv
<1>2. WalInv /\ [Next]_vars => WalInv'
  BY NextInv
<1> QED
  BY <1>1, <1>2, PTL DEF Spec

\* Which steps end a recovery.
LEMMA RecoveryEnded == ASSUME TypeOK, [Next]_vars, RecoveryEnds PROVE Load \/ ReplayClear
<1>1. phase \in {"down", "clear"} /\ phase' = "open"
  BY DEF RecoveryEnds
<1>2. CASE UNCHANGED vars
  BY <1>1, <1>2 DEF vars, memory
<1>3. ASSUME NEW r \in Val, Insert(r) PROVE FALSE
  BY <1>1, <1>3 DEF Insert, MayWrite, InTx
<1>4. ASSUME NEW i \in live, NEW r \in Val, Update(i, r) PROVE FALSE
  BY <1>1, <1>4 DEF Update, MayWrite, InTx
<1>5. ASSUME NEW i \in live, Delete(i) PROVE FALSE
  BY <1>1, <1>5 DEF Delete, MayWrite, InTx
<1>6. CASE Begin \/ Commit \/ CommitFails \/ Rollback
  BY <1>1, <1>6 DEF Begin, Commit, CommitFails, Rollback, InTx
<1>7. CASE Flush \/ Checkpoint \/ Compact \/ Close
  BY <1>1, <1>7 DEF Flush, Checkpoint, Compact, Swap, Close
<1>8. CASE Crash \/ CrashInFlush \/ CrashInCompact
  BY <1>1, <1>8 DEF Crash, CrashInFlush, CrashInCompact, Forgotten
<1>9. ASSUME NEW n \in 0..Len(buf) + 1, NEW torn \in BOOLEAN, CrashInCommit(n, torn) PROVE FALSE
  BY <1>1, <1>9 DEF CrashInCommit, Forgotten
<1>10. CASE Recover
  BY <1>1, <1>10 DEF Recover, Replay, ReplayFlush
<1> QED
  BY <1>2, <1>3, <1>4, <1>5, <1>6, <1>7, <1>8, <1>9, <1>10 DEF Next

LEMMA Restored ==
  ASSUME WalInv, [Next]_vars, RecoveryEnds, aligned', NEW i \in Slot \ leaked
  PROVE  want[i] \in {NoClaim, View'[i]}
<1> SUFFICES ASSUME want[i] # NoClaim PROVE want[i] = View'[i]
  OBVIOUS
<1>1. View'[i] = IF i \in live' THEN cells'[i] ELSE Absent
  BY DEF View, Get
<1>2. CASE Load
  <2>1. /\ phase = "down" /\ todo' = <<>> /\ todo' = ToReplay(log) /\ live' = dlive /\ cells' = cells
        /\ aligned /\ Fits(todo', dlive, (slabs - 1) * RowsPerSlab + LoadedLast)
    BY <1>2 DEF Load, RecoveryEnds, disk
  <2>2. log \in Seq(Line) /\ Typed(log) /\ LogOK
    BY TypeParts, LogTyped DEF WalInv
  <2>3. Honest
    <3>1. \A n \in DOMAIN log : log[n].op = "torn" => n = Len(log)
      BY <2>1 DEF Fits
    <3> QED
      BY <2>1, <2>2, <3>1 DEF Honest, Whole
  <2>4. Committed(log) = {}
    BY <2>1, <2>2, NothingToReplay
  <2>5. Of(log, Committed(log), i) = {}
    BY <2>4 DEF Of, Netted
  <2>6. Claim(log, {}, dlive, cells, i, want[i])
    BY <2>3, <2>5, CrashClaims
  <2> QED
    BY <1>1, <2>1, <2>6 DEF Claim
<1>3. CASE ReplayClear
  <2>1. phase = "clear" /\ live' = live /\ cells' = cells /\ aligned
    BY <1>3 DEF ReplayClear
  <2>2. Claim(todo, At(todo, 1..Len(todo), i), live, cells, i, want[i]) /\ todo = <<>>
    BY <2>1 DEF WalInv, ReplayInv
  <2>3. At(todo, 1..Len(todo), i) = {}
    <3>1. 1..Len(todo) = {}
      BY <2>2
    <3> QED
      BY <3>1 DEF At
  <2> QED
    BY <1>1, <2>1, <2>2, <2>3 DEF Claim
<1> QED
  BY <1>2, <1>3, RecoveryEnded DEF WalInv

\* When the log fits the file, recovery gives every slot the row it had at the
\* last commit (or flush), whatever exits interrupted the commit, the flush or
\* an earlier recovery: for every number of slots, size of the buffer, and
\* number of calls, exits and faults.
THEOREM RecoveryRestored == Spec => RecoveryRestores
<1>1. WalInv /\ [Next]_vars
        => [RecoveryEnds /\ aligned' => \A i \in Slot \ leaked : want[i] \in {NoClaim, View'[i]}]_vars
  BY Restored
<1> QED
  BY <1>1, WalCorrect, PTL DEF Spec, RecoveryRestores
=============================================================================
