--------------------------- MODULE ColumnarProofs ---------------------------
(***************************************************************************)
(* Theorems of ColumnarTable.                                              *)
(***************************************************************************)
EXTENDS ColumnarTable, GeneralLemmas

-----------------------------------------------------------------------------
(* Widths of windows.                                                      *)

\* Power is defined for every width.
LEMMA PowerExists ==
  ASSUME NEW size \in Nat
  PROVE  \A n \in 0 .. size : \E f : f = [b \in 0 .. n |-> IF b = 0 THEN 1 ELSE 2 * f[b - 1]]
<1> DEFINE Q(f, n) == f = [b \in 0 .. n |-> IF b = 0 THEN 1 ELSE 2 * f[b - 1]]
           P == {n \in 0 .. size : \E f : Q(f, n)}
<1>1. 0 \in P
  <2> DEFINE g == [b \in 0 .. 0 |-> 1]
  <2>1. Q(g, 0)
    <3>1. \A b \in 0 .. 0 : b = 0 /\ g[b] = IF b = 0 THEN 1 ELSE 2 * g[b - 1]
      OBVIOUS
    <3>2. g = [b \in 0 .. 0 |-> g[b]]
      OBVIOUS
    <3> HIDE DEF g
    <3> QED
      BY <3>1, <3>2
  <2> HIDE DEF Q
  <2> QED
    BY <2>1
<1>2. ASSUME NEW n \in 0 .. size - 1, n \in P
      PROVE  n + 1 \in P
  <2>1. PICK f : Q(f, n)
    BY <1>2
  <2> DEFINE g == [b \in 0 .. n + 1 |-> IF b <= n THEN f[b] ELSE 2 * f[b - 1]]
  <2>2. \A b \in 0 .. n : f[b] = IF b = 0 THEN 1 ELSE 2 * f[b - 1]
    BY <2>1
  <2>3. \A b \in 0 .. n + 1 : g[b] = IF b = 0 THEN 1 ELSE 2 * g[b - 1]
    <3>1. ASSUME NEW b \in 0 .. n + 1 PROVE g[b] = IF b = 0 THEN 1 ELSE 2 * g[b - 1]
      <4>1. b # 0 => b - 1 \in 0 .. n /\ g[b - 1] = f[b - 1]
        OBVIOUS
      <4>2. CASE b <= n
        BY <2>2, <4>1, <4>2
      <4>3. CASE ~(b <= n)
        BY <4>1, <4>3
      <4> QED
        BY <4>2, <4>3
    <3> QED
      BY <3>1
  <2>4. g = [b \in 0 .. n + 1 |-> g[b]]
    OBVIOUS
  <2> HIDE DEF g
  <2>5. Q(g, n + 1)
    BY <2>3, <2>4
  <2> HIDE DEF Q
  <2> QED
    BY <2>5
<1>3. \A n \in 0 .. size : n \in P
  <2> HIDE DEF P
  <2> QED
    BY <1>1, <1>2, NatUpTo
<1> QED
  BY <1>3

\* What Power is.
LEMMA PowerStep ==
  ASSUME ColumnAssumption
  PROVE  Power[0] = 1 /\ \A b \in 1 .. MaxBits : Power[b] = 2 * Power[b - 1]
<1> DEFINE Q(f) == f = [b \in 0 .. MaxBits |-> IF b = 0 THEN 1 ELSE 2 * f[b - 1]]
<1>1. MaxBits \in Nat
  BY ColumnAssumption DEF ColumnAssumption
<1>2. \E f : Q(f)
  <2>1. MaxBits \in 0 .. MaxBits
    BY <1>1
  <2> QED
    BY <1>1, <2>1, PowerExists
<1>3. Power = CHOOSE f : Q(f)
  BY DEF Power
<1>4. Q(Power)
  <2> HIDE DEF Q
  <2> QED
    BY <1>2, <1>3
<1>5. Power = [b \in 0 .. MaxBits |-> IF b = 0 THEN 1 ELSE 2 * Power[b - 1]]
  BY <1>4
<1> QED
  BY <1>1, <1>5

\* Powers are positive and grow with the width.
LEMMA Powers ==
  ASSUME ColumnAssumption
  PROVE  /\ MaxBits \in Nat \ {0}
         /\ \A b \in 0 .. MaxBits : Power[b] \in Nat \ {0}
         /\ \A b \in 0 .. MaxBits : \A a \in 0 .. b : Power[a] <= Power[b]
<1>1. MaxBits \in Nat \ {0}
  BY DEF ColumnAssumption
<1> DEFINE P == {b \in 0 .. MaxBits : Power[b] \in Nat \ {0} /\ \A a \in 0 .. b : Power[a] <= Power[b] /\ Power[a] \in Nat}
<1>2. 0 \in P
  BY <1>1, PowerStep
<1>3. ASSUME NEW m \in 0 .. MaxBits - 1, m \in P
      PROVE  m + 1 \in P
  <2>1. m + 1 \in 1 .. MaxBits /\ (m + 1) - 1 = m
    BY <1>1
  <2>2. Power[m + 1] = 2 * Power[m]
    BY <2>1, PowerStep
  <2>3. Power[m] \in Nat \ {0} /\ Power[m + 1] \in Nat \ {0} /\ Power[m] <= Power[m + 1]
    BY <1>3, <2>2
  <2>4. ASSUME NEW a \in 0 .. m + 1 PROVE Power[a] <= Power[m + 1] /\ Power[a] \in Nat
    <3>1. CASE a \in 0 .. m
      BY <1>3, <2>3, <3>1
    <3>2. CASE a = m + 1
      BY <2>3, <3>2
    <3> QED
      BY <3>1, <3>2
  <2> QED
    BY <2>1, <2>3, <2>4
<1>4. \A b \in 0 .. MaxBits : b \in P
  <2> HIDE DEF P
  <2> QED
    BY <1>1, <1>2, <1>3, NatUpTo
<1> QED
  BY <1>1, <1>4

\* The width that bit_length gives is one that holds the range, if any does.
LEMMA BitsHold ==
  ASSUME ColumnAssumption, NEW range \in Nat, ~TooWide(range)
  PROVE  /\ Bits(range) \in 1 .. MaxBits
         /\ range < Power[Bits(range)]
<1>1. MaxBits \in Nat \ {0} /\ \A b \in 0 .. MaxBits : Power[b] \in Nat \ {0}
  BY Powers
<1> DEFINE T == {b \in 1 .. MaxBits : range < Power[b]}
<1>2. MaxBits \in T
  BY <1>1 DEF TooWide
<1>3. PICK b \in T : \A a \in T : b <= a
  <2>1. T \in SUBSET Nat /\ T # {}
    BY <1>1, <1>2
  <2> HIDE DEF T
  <2> QED
    BY <2>1, NatLeast
<1>4. \A a \in 1 .. b - 1 : Power[a] <= range
  <2>1. ASSUME NEW a \in 1 .. b - 1 PROVE Power[a] <= range
    <3>1. a \in 1 .. MaxBits /\ a \in 0 .. MaxBits /\ a < b
      BY <1>1
    <3>2. a \notin T
      BY <1>1, <1>3, <3>1
    <3>3. Power[a] \in Nat
      BY <1>1, <3>1
    <3> QED
      BY <3>1, <3>2, <3>3
  <2> QED
    BY <2>1
<1>5. \E d \in 1 .. MaxBits : range < Power[d] /\ \A a \in 1 .. d - 1 : Power[a] <= range
  BY <1>3, <1>4
<1> QED
  BY <1>5 DEF Bits

-----------------------------------------------------------------------------
(* Sequences of numbers.                                                   *)

LEMMA AtMost ==
  ASSUME NEW a \in Int, NEW b \in Int, NEW c \in Int, a <= b, b <= c
  PROVE  a <= c
OBVIOUS

\* The least and the greatest value of a column.
LEMMA RangeBounds ==
  ASSUME NEW s \in Seq(Int), s # <<>>
  PROVE  \E a, z \in DOMAIN s : /\ Min(Range(s)) = s[a] /\ Max(Range(s)) = s[z]
                                /\ \A k \in DOMAIN s : s[a] <= s[k] /\ s[k] <= s[z]
<1> DEFINE len == Len(s)
           P == {n \in 0 .. len - 1 :
                   \E a, z \in 1 .. n + 1 : \A k \in 1 .. n + 1 : s[a] <= s[k] /\ s[k] <= s[z]}
<1>1. len \in Nat \ {0} /\ DOMAIN s = 1 .. len /\ \A k \in 1 .. len : s[k] \in Int
  OBVIOUS
<1> HIDE DEF len
<1>2. 0 \in P
  <2>1. 0 \in 0 .. len - 1 /\ 1 \in 1 .. 0 + 1 /\ \A k \in 1 .. 0 + 1 : k = 1
    BY <1>1
  <2>2. s[1] <= s[1]
    BY <1>1
  <2> QED
    BY <2>1, <2>2
<1>3. ASSUME NEW n \in 0 .. (len - 1) - 1, n \in P PROVE n + 1 \in P
  <2>1. n + 1 \in 0 .. len - 1 /\ n + 2 \in 1 .. len
    BY <1>1
  <2>2. PICK a, z \in 1 .. n + 1 : \A k \in 1 .. n + 1 : s[a] <= s[k] /\ s[k] <= s[z]
    BY <1>3
  <2>3. s[a] \in Int /\ s[z] \in Int /\ s[n + 2] \in Int /\ n + 2 \in 1 .. n + 2 /\ (n + 1) + 1 = n + 2
    BY <1>1, <2>1
  <2> HIDE DEF P
  <2>4. PICK b \in 1 .. n + 2 : s[b] \in Int /\ s[b] <= s[a] /\ s[b] <= s[n + 2]
    <3>1. CASE s[a] <= s[n + 2]
      <4>1. a \in 1 .. n + 2 /\ s[a] <= s[a]
        BY <2>3
      <4> QED
        BY <2>3, <3>1, <4>1
    <3>2. CASE ~(s[a] <= s[n + 2])
      <4>1. s[n + 2] <= s[a] /\ s[n + 2] <= s[n + 2]
        BY <2>3, <3>2
      <4> QED
        BY <2>3, <4>1
    <3> QED
      BY <3>1, <3>2
  <2>5. PICK y \in 1 .. n + 2 : s[y] \in Int /\ s[z] <= s[y] /\ s[n + 2] <= s[y]
    <3>1. CASE s[n + 2] <= s[z]
      <4>1. z \in 1 .. n + 2 /\ s[z] <= s[z]
        BY <2>3
      <4> QED
        BY <2>3, <3>1, <4>1
    <3>2. CASE ~(s[n + 2] <= s[z])
      <4>1. s[z] <= s[n + 2] /\ s[n + 2] <= s[n + 2]
        BY <2>3, <3>2
      <4> QED
        BY <2>3, <4>1
    <3> QED
      BY <3>1, <3>2
  <2>6. ASSUME NEW k \in 1 .. n + 2 PROVE s[b] <= s[k] /\ s[k] <= s[y]
    <3>1. s[k] \in Int /\ (k \in 1 .. n + 1 \/ k = n + 2)
      BY <1>1, <2>1
    <3>2. CASE k \in 1 .. n + 1
      <4>1. s[a] <= s[k] /\ s[k] <= s[z]
        BY <2>2, <3>2
      <4>2. s[b] <= s[k]
        BY <2>3, <2>4, <3>1, <4>1, AtMost, Zenon
      <4>3. s[k] <= s[y]
        BY <2>3, <2>5, <3>1, <4>1, AtMost, Zenon
      <4> QED
        BY <4>2, <4>3
    <3>3. CASE k = n + 2
      BY <2>4, <2>5, <3>3
    <3> QED
      BY <3>1, <3>2, <3>3
  <2> QED
    BY <2>1, <2>3, <2>6 DEF P
<1>4. \A n \in 0 .. len - 1 : n \in P
  <2>1. len - 1 \in Nat
    BY <1>1
  <2> HIDE DEF P
  <2> QED
    BY <1>2, <1>3, <2>1, NatUpTo
<1>5. PICK a, z \in 1 .. len : \A k \in 1 .. len : s[a] <= s[k] /\ s[k] <= s[z]
  <2>1. len - 1 \in 0 .. len - 1 /\ (len - 1) + 1 = len
    BY <1>1
  <2>2. len - 1 \in P
    BY <1>4, <2>1
  <2> QED
    BY <2>1, <2>2
<1>6. \A x : x \in Range(s) <=> \E k \in 1 .. len : x = s[k]
  BY <1>1 DEF Range
<1>7. Min(Range(s)) = s[a]
  <2>1. s[a] \in Range(s) /\ \A y \in Range(s) : s[a] =< y
    BY <1>5, <1>6
  <2>2. ASSUME NEW x \in Range(s), \A y \in Range(s) : x =< y PROVE x = s[a]
    <3>1. x \in Int /\ s[a] \in Int /\ x <= s[a] /\ s[a] <= x
      BY <1>1, <1>6, <2>1, <2>2
    <3> QED
      BY <3>1
  <2> QED
    BY <2>1, <2>2 DEF Min
<1>8. Max(Range(s)) = s[z]
  <2>1. s[z] \in Range(s) /\ \A y \in Range(s) : s[z] >= y
    <3>1. s[z] \in Range(s)
      BY <1>6
    <3>2. ASSUME NEW y \in Range(s) PROVE s[z] >= y
      <4>1. y <= s[z] /\ y \in Int /\ s[z] \in Int
        BY <1>1, <1>5, <1>6
      <4> QED
        BY <4>1
    <3> QED
      BY <3>1, <3>2
  <2>2. ASSUME NEW x \in Range(s), \A y \in Range(s) : x >= y PROVE x = s[z]
    <3>1. x \in Int /\ s[z] \in Int /\ x >= s[z] /\ s[z] >= x
      BY <1>1, <1>6, <2>1, <2>2
    <3> QED
      BY <3>1
  <2> QED
    BY <2>1, <2>2 DEF Max
<1> QED
  BY <1>1, <1>5, <1>7, <1>8

\* The reconstruction of deltas is defined for every number of them.
LEMMA SumExists ==
  ASSUME NEW size \in Nat, NEW c
  PROVE  \A n \in 0 .. size : \E f : f = [m \in 0 .. n |-> IF m = 0 THEN c.base ELSE f[m - 1] + c.data[m]]
<1> DEFINE Q(f, n) == f = [m \in 0 .. n |-> IF m = 0 THEN c.base ELSE f[m - 1] + c.data[m]]
           P == {n \in 0 .. size : \E f : Q(f, n)}
<1>1. 0 \in P
  <2> DEFINE g == [m \in 0 .. 0 |-> c.base]
  <2>1. Q(g, 0)
    <3>1. \A m \in 0 .. 0 : m = 0 /\ g[m] = IF m = 0 THEN c.base ELSE g[m - 1] + c.data[m]
      OBVIOUS
    <3>2. g = [m \in 0 .. 0 |-> g[m]]
      OBVIOUS
    <3> HIDE DEF g
    <3> QED
      BY <3>1, <3>2
  <2> HIDE DEF Q
  <2> QED
    BY <2>1
<1>2. ASSUME NEW n \in 0 .. size - 1, n \in P
      PROVE  n + 1 \in P
  <2>1. PICK f : Q(f, n)
    BY <1>2
  <2> DEFINE g == [m \in 0 .. n + 1 |-> IF m <= n THEN f[m] ELSE f[m - 1] + c.data[m]]
  <2>2. \A m \in 0 .. n : f[m] = IF m = 0 THEN c.base ELSE f[m - 1] + c.data[m]
    BY <2>1
  <2>3. \A m \in 0 .. n + 1 : g[m] = IF m = 0 THEN c.base ELSE g[m - 1] + c.data[m]
    <3>1. ASSUME NEW m \in 0 .. n + 1 PROVE g[m] = IF m = 0 THEN c.base ELSE g[m - 1] + c.data[m]
      <4>1. m # 0 => m - 1 \in 0 .. n /\ g[m - 1] = f[m - 1]
        OBVIOUS
      <4>2. CASE m <= n
        BY <2>2, <4>1, <4>2
      <4>3. CASE ~(m <= n)
        BY <4>1, <4>3
      <4> QED
        BY <4>2, <4>3
    <3> QED
      BY <3>1
  <2>4. g = [m \in 0 .. n + 1 |-> g[m]]
    OBVIOUS
  <2> HIDE DEF g
  <2>5. Q(g, n + 1)
    BY <2>3, <2>4
  <2> HIDE DEF Q
  <2> QED
    BY <2>5
<1>3. \A n \in 0 .. size : n \in P
  <2> HIDE DEF P
  <2> QED
    BY <1>1, <1>2, NatUpTo
<1> QED
  BY <1>3

\* What _reconstruct_delta computes.
LEMMA SummedStep ==
  ASSUME NEW c, c.data \in Seq(Int), c.base \in Int
  PROVE  /\ Summed(c) \in Seq(Int) /\ Len(Summed(c)) = Len(c.data) + 1
         /\ Summed(c)[1] = c.base
         /\ \A n \in 1 .. Len(c.data) : Summed(c)[n + 1] = Summed(c)[n] + c.data[n]
<1> DEFINE len == Len(c.data)
           Q(f) == f = [n \in 0 .. len |-> IF n = 0 THEN c.base ELSE f[n - 1] + c.data[n]]
           sum == CHOOSE f : Q(f)
<1>1. len \in Nat /\ \A n \in 1 .. len : c.data[n] \in Int
  OBVIOUS
<1>2. \E f : Q(f)
  <2> HIDE DEF len
  <2>1. len \in 0 .. len
    BY <1>1
  <2>2. \A m \in 0 .. len : \E f : f = [n \in 0 .. m |-> IF n = 0 THEN c.base ELSE f[n - 1] + c.data[n]]
    BY <1>1, SumExists
  <2> QED
    BY <2>1, <2>2
<1>3. Q(sum)
  <2> HIDE DEF Q
  <2> QED
    BY <1>2
<1>4. Summed(c) = [i \in 1 .. len + 1 |-> sum[i - 1]]
  BY DEF Summed
<1> HIDE DEF sum
<1>5. \A n \in 0 .. len : sum[n] = IF n = 0 THEN c.base ELSE sum[n - 1] + c.data[n]
  BY <1>3
<1> DEFINE P == {n \in 0 .. len : sum[n] \in Int}
<1> HIDE DEF Q, len
<1>6. \A n \in 0 .. len : n \in P
  <2>1. 0 \in P
    BY <1>1, <1>5
  <2>2. ASSUME NEW n \in 0 .. len - 1, n \in P PROVE n + 1 \in P
    <3>1. n + 1 \in 1 .. len /\ (n + 1) - 1 = n /\ sum[n] \in Int
      BY <1>1, <2>2
    <3>2. sum[n + 1] = sum[n] + c.data[n + 1]
      BY <1>1, <1>5, <3>1
    <3> QED
      BY <1>1, <3>1, <3>2
  <2> HIDE DEF P
  <2> QED
    BY <1>1, <2>1, <2>2, NatUpTo
<1>7. Summed(c) \in Seq(Int) /\ Len(Summed(c)) = len + 1
  <2>1. \A i \in 1 .. len + 1 : i - 1 \in 0 .. len /\ sum[i - 1] \in Int
    BY <1>1, <1>6
  <2>2. Summed(c) \in [1 .. len + 1 -> Int]
    BY <1>4, <2>1
  <2> QED
    BY <1>1, <2>2
<1>8. Summed(c)[1] = c.base
  BY <1>1, <1>4, <1>5
<1>9. ASSUME NEW n \in 1 .. len PROVE Summed(c)[n + 1] = Summed(c)[n] + c.data[n]
  <2>1. n + 1 \in 1 .. len + 1 /\ n \in 1 .. len + 1 /\ (n + 1) - 1 = n /\ n \in 0 .. len /\ n # 0
    BY <1>1
  <2>2. Summed(c)[n + 1] = sum[n] /\ Summed(c)[n] = sum[n - 1]
    BY <1>4, <2>1
  <2> QED
    BY <1>5, <2>1, <2>2
<1> QED
  BY <1>7, <1>8, <1>9 DEF len

\* Deltas determine the values.
LEMMA SummedOnly ==
  ASSUME NEW c, c.data \in Seq(Int), c.base \in Int, NEW s \in Seq(Int), NEW n \in 1 .. Len(c.data) + 1,
         n <= Len(s), s[1] = c.base, \A k \in 1 .. n - 1 : s[k + 1] = s[k] + c.data[k]
  PROVE  \A k \in 1 .. n : Summed(c)[k] = s[k]
<1> DEFINE P == {m \in 0 .. n - 1 : Summed(c)[m + 1] = s[m + 1]}
<1>1. n - 1 \in Nat /\ Len(c.data) \in Nat
  OBVIOUS
<1>2. 0 \in P
  BY SummedStep
<1>3. ASSUME NEW m \in 0 .. (n - 1) - 1, m \in P PROVE m + 1 \in P
  <2>1. m + 1 \in 1 .. Len(c.data) /\ m + 1 \in 1 .. n - 1 /\ m + 1 \in 0 .. n - 1
    BY <1>1
  <2>2. Summed(c)[(m + 1) + 1] = Summed(c)[m + 1] + c.data[m + 1]
    BY <2>1, SummedStep
  <2>3. s[(m + 1) + 1] = s[m + 1] + c.data[m + 1]
    BY <2>1
  <2> QED
    BY <1>3, <2>1, <2>2, <2>3
<1>4. \A m \in 0 .. n - 1 : m \in P
  <2> HIDE DEF P
  <2> QED
    BY <1>1, <1>2, <1>3, NatUpTo
<1>5. ASSUME NEW k \in 1 .. n PROVE Summed(c)[k] = s[k]
  <2>1. k - 1 \in 0 .. n - 1 /\ (k - 1) + 1 = k
    BY <1>1
  <2>2. k - 1 \in P
    BY <1>4, <2>1
  <2> QED
    BY <2>1, <2>2
<1> QED
  BY <1>5

-----------------------------------------------------------------------------
(* What a column holds of the values w written to it.                      *)

Modes == {"raw", "bool", "dict", "delta", "for"}

\* What may be written to a column.
Accepts(c) == IF c.kind = "bool" THEN {0, 1, Null} ELSE Int \cup {Null}

BoolHolds(c, w) ==
  /\ c.kind = "bool" /\ Len(c.data) <= Len(w)
  /\ \A i \in 1 .. Len(w) : w[i] # Null => w[i] = IF i <= Len(c.data) THEN c.data[i] ELSE 0

\* A null keeps the code 0, in an empty dictionary too.
DictHolds(c, w) ==
  /\ Len(c.data) = Len(w)
  /\ \A i \in 1 .. Len(w) : c.data[i] \in Nat /\ (c.data[i] = 0 \/ c.data[i] < Len(c.values))
  /\ \A i \in 1 .. Len(w) : w[i] # Null => c.data[i] < Len(c.values) /\ w[i] = c.values[c.data[i] + 1]

DeltaHolds(c, w) ==
  /\ Len(w) = Len(c.data) + 1 /\ c.last = Summed(c)[Len(w)] /\ c.cache \in {NoCache, Summed(c)}
  /\ \A i \in 1 .. Len(w) : w[i] # Null => w[i] = Summed(c)[i]

ForHolds(c, w) ==
  /\ Len(c.data) = Len(w) /\ c.width \in 1 .. MaxBits /\ c.cache \in {NoCache, Decoded(c)}
  /\ \A i \in 1 .. Len(w) : w[i] # Null => w[i] = c.base + c.data[i]

RawHolds(c, w) ==
  /\ Len(c.data) = Len(w) /\ c.cache = NoCache
  /\ \A i \in 1 .. Len(w) : w[i] # Null => w[i] = c.data[i]

Holds(c, w) ==
  /\ c.mode = "bool" => BoolHolds(c, w)
  /\ c.mode = "dict" => DictHolds(c, w)
  /\ c.mode = "delta" => DeltaHolds(c, w)
  /\ c.mode = "for" => ForHolds(c, w)
  /\ c.mode = "raw" => RawHolds(c, w)

\* A column but for its nulls, and with them.
Fits(c, w) == c \in ColumnType /\ Encodable(c) /\ w \in Seq(Accepts(c)) /\ Holds(c, w)
Good(c, w) == Fits(c, w) /\ Len(c.nulls) = Len(w) /\ \A i \in 1 .. Len(w) : c.nulls[i] = (w[i] = Null)

\* The fields of a column.
LEMMA Fields ==
  ASSUME NEW c \in ColumnType
  PROVE  /\ c.kind \in Kinds /\ c.mode \in Modes /\ c.nulls \in Seq(BOOLEAN) /\ c.data \in Seq(Int)
         /\ c.values \in Seq(Int) /\ c.base \in Int /\ c.last \in Int /\ c.width \in Nat
         /\ c.cache \in {NoCache} \cup Seq(Int) /\ c.given \in SUBSET {"dict", "delta", "for"}
         /\ c.seen \in Nat /\ c.lo \in Int /\ c.hi \in Int
BY DEF ColumnType, Modes

\* A record with the fields of a column is one.
FieldNames == {"kind", "mode", "nulls", "data", "values", "base", "last", "width", "cache", "given",
               "seen", "lo", "hi"}
IsRecord(d) == DOMAIN d = FieldNames /\ d = [f \in FieldNames |-> d[f]]
LEMMA Record ==
  ASSUME NEW c \in ColumnType
  PROVE  IsRecord(c)
BY DEF ColumnType, IsRecord, FieldNames

LEMMA IsColumn ==
  ASSUME NEW d, IsRecord(d),
         d.kind \in Kinds, d.mode \in Modes, d.nulls \in Seq(BOOLEAN), d.data \in Seq(Int),
         d.values \in Seq(Int), d.base \in Int, d.last \in Int, d.width \in Nat,
         d.cache \in {NoCache} \cup Seq(Int), d.given \in SUBSET {"dict", "delta", "for"},
         d.seen \in Nat, d.lo \in Int, d.hi \in Int
  PROVE  d \in ColumnType
<1> DEFINE r == [kind |-> d.kind, mode |-> d.mode, nulls |-> d.nulls, data |-> d.data, values |-> d.values,
                 base |-> d.base, last |-> d.last, width |-> d.width, cache |-> d.cache, given |-> d.given,
                 seen |-> d.seen, lo |-> d.lo, hi |-> d.hi]
<1>1. d = r
  BY DEF IsRecord, FieldNames
<1>2. r \in ColumnType
  BY DEF ColumnType, Modes
<1> QED
  BY <1>1, <1>2

\* Falling back to raw values.
LEMMA RawFits ==
  ASSUME NEW c \in ColumnType, NEW encoding \in {"dict", "delta", "for"}, NEW values \in Seq(Int),
         NEW w \in Seq(Accepts(c)), Len(values) = Len(w),
         \A i \in 1 .. Len(w) : w[i] # Null => w[i] = values[i]
  PROVE  LET d == RawWith(c, encoding, values)
         IN  /\ Fits(d, w) /\ d.mode = "raw" /\ d.nulls = c.nulls /\ d.kind = c.kind
             /\ d.given = c.given \cup {encoding}
<1> DEFINE d == RawWith(c, encoding, values)
<1>1. IsRecord(d)
  BY Record DEF IsRecord, FieldNames, RawWith
<1>2. /\ d.mode = "raw" /\ d.nulls = c.nulls /\ d.kind = c.kind /\ d.data = values /\ d.cache = NoCache
      /\ d.given = c.given \cup {encoding} /\ d.values = <<>> /\ d.base = 0 /\ d.last = 0 /\ d.width = 0
      /\ d.seen = c.seen /\ d.lo = c.lo /\ d.hi = c.hi
  BY Record DEF IsRecord, FieldNames, RawWith
<1> HIDE DEF d
<1>3. d \in ColumnType
  <2>1. d.given \in SUBSET {"dict", "delta", "for"}
    BY <1>2, Fields
  <2>2. d.values \in Seq(Int) /\ d.mode \in Modes
    BY <1>2 DEF Modes
  <2>3. /\ d.kind \in Kinds /\ d.nulls \in Seq(BOOLEAN) /\ d.data \in Seq(Int)
        /\ d.base \in Int /\ d.last \in Int /\ d.width \in Nat /\ d.cache \in {NoCache} \cup Seq(Int)
        /\ d.seen \in Nat /\ d.lo \in Int /\ d.hi \in Int
    BY <1>2, Fields
  <2> QED
    BY <1>1, <2>1, <2>2, <2>3, IsColumn
<1>4. Encodable(d)
  BY <1>2 DEF Encodable
<1>5. Holds(d, w)
  BY <1>2 DEF Holds, RawHolds
<1>6. Accepts(d) = Accepts(c)
  BY <1>2 DEF Accepts
<1> QED
  BY <1>2, <1>3, <1>4, <1>5, <1>6 DEF Fits, d

\* Nor does it stop being one when fields change to others of their types.
LEMMA IsColumnStill ==
  ASSUME NEW c \in ColumnType, NEW d, IsRecord(d),
         d.kind = c.kind, d.nulls = c.nulls, d.mode \in Modes, d.data \in Seq(Int), d.values \in Seq(Int),
         d.base \in Int, d.last \in Int, d.width \in Nat, d.cache \in {NoCache} \cup Seq(Int),
         d.given \in SUBSET {"dict", "delta", "for"}, d.seen \in Nat, d.lo \in Int, d.hi \in Int
  PROVE  d \in ColumnType /\ Accepts(d) = Accepts(c)
BY Fields, IsColumn DEF Accepts

\* What EXCEPT and Append do to sequences.
LEMMA SeqPut ==
  ASSUME NEW S, NEW s \in Seq(S), NEW i \in 1 .. Len(s), NEW x \in S
  PROVE  /\ [s EXCEPT ![i] = x] \in Seq(S) /\ Len([s EXCEPT ![i] = x]) = Len(s)
         /\ \A k \in 1 .. Len(s) : [s EXCEPT ![i] = x][k] = IF k = i THEN x ELSE s[k]
OBVIOUS

LEMMA SeqPush ==
  ASSUME NEW S, NEW s \in Seq(S), NEW x \in S
  PROVE  /\ Append(s, x) \in Seq(S) /\ Len(Append(s, x)) = Len(s) + 1
         /\ \A k \in 1 .. Len(s) : Append(s, x)[k] = s[k]
         /\ Append(s, x)[Len(s) + 1] = x
OBVIOUS

LEMMA SeqPointwise ==
  ASSUME NEW S, NEW n \in Nat, NEW f, f = [k \in 1 .. n |-> f[k]], \A k \in 1 .. n : f[k] \in S
  PROVE  f \in Seq(S) /\ Len(f) = n
OBVIOUS

\* Nothing that is read depends on the statistics, on whether a reconstruction is
\* cached, or on the encodings not tried any more.
LEMMA SummedSame ==
  ASSUME NEW c, NEW d, c.data \in Seq(Int), c.base \in Int, d.data = c.data, d.base = c.base
  PROVE  Summed(d) = Summed(c)
<1> DEFINE n == Len(c.data) + 1
<1>1. n \in Nat \ {0}
  OBVIOUS
<1>2. /\ Summed(c) \in Seq(Int) /\ Len(Summed(c)) = n /\ Summed(c)[1] = c.base
      /\ \A k \in 1 .. Len(c.data) : Summed(c)[k + 1] = Summed(c)[k] + c.data[k]
  BY SummedStep
<1>3. Summed(d) \in Seq(Int) /\ Len(Summed(d)) = n
  BY SummedStep
<1>4. \A k \in 1 .. n : Summed(d)[k] = Summed(c)[k]
  <2>1. 1 .. n - 1 = 1 .. Len(c.data)
    OBVIOUS
  <2>2. Len(d.data) + 1 = n
    OBVIOUS
  <2> HIDE DEF n
  <2>3. n \in 1 .. Len(d.data) + 1 /\ n <= Len(Summed(c)) /\ Summed(c)[1] = d.base
    BY <1>1, <1>2, <2>2
  <2>4. \A k \in 1 .. n - 1 : Summed(c)[k + 1] = Summed(c)[k] + d.data[k]
    BY <1>2, <2>1
  <2> QED
    BY <1>2, <2>3, <2>4, SummedOnly
<1> HIDE DEF n
<1> QED
  BY <1>1, <1>2, <1>3, <1>4

LEMMA FitsStill ==
  ASSUME NEW c, NEW w, Fits(c, w), NEW d, IsRecord(d),
         d.kind = c.kind, d.mode = c.mode, d.nulls \in Seq(BOOLEAN), d.data = c.data, d.values = c.values,
         d.base = c.base, d.last = c.last, d.width = c.width, d.given = c.given,
         d.seen \in Nat, d.lo \in Int, d.hi \in Int,
         d.cache = c.cache \/ (c.mode \in {"delta", "for"} /\ d.cache = Decoded(c))
  PROVE  Fits(d, w)
<1>1. /\ c \in ColumnType /\ w \in Seq(Accepts(c)) /\ Encodable(c) /\ Holds(c, w)
      /\ c.data \in Seq(Int) /\ c.base \in Int /\ DOMAIN c.data = 1 .. Len(c.data)
  BY Fields DEF Fits
<1>2. Summed(d) = Summed(c) /\ Summed(c) \in Seq(Int)
  BY <1>1, SummedSame, SummedStep
<1>3. c.mode \in {"delta", "for"} => Decoded(d) = Decoded(c) /\ Decoded(c) \in Seq(Int)
  <2>1. CASE c.mode = "delta"
    BY <1>2, <2>1 DEF Decoded
  <2>2. CASE c.mode = "for"
    <3> DEFINE values == [i \in DOMAIN c.data |-> ForValue(c, i)]
    <3>1. \A i \in 1 .. Len(c.data) : ForValue(d, i) = ForValue(c, i) /\ ForValue(c, i) \in Int
      <4>1. ASSUME NEW i \in 1 .. Len(c.data)
            PROVE  ForValue(d, i) = ForValue(c, i) /\ ForValue(c, i) \in Int
        <5>1. ForValue(d, i) = ForValue(c, i)
          BY DEF ForValue
        <5>2. i <= Len(c.data) /\ c.data[i] \in Int
          BY <1>1
        <5>3. ForValue(c, i) = c.base + c.data[i]
          BY <5>2 DEF ForValue
        <5> QED
          BY <1>1, <5>1, <5>2, <5>3
      <4> QED
        BY <4>1
    <3>2. Decoded(d) = values /\ Decoded(c) = values
      BY <1>1, <2>2, <3>1 DEF Decoded
    <3>3. values = [i \in 1 .. Len(c.data) |-> values[i]] /\ \A i \in 1 .. Len(c.data) : values[i] \in Int
      BY <1>1, <3>1
    <3> HIDE DEF values
    <3> DEFINE n == Len(c.data)
    <3>4. n \in Nat
      BY <1>1
    <3>5. values = [i \in 1 .. n |-> values[i]] /\ \A i \in 1 .. n : values[i] \in Int
      BY <3>3
    <3> HIDE DEF n
    <3>6. values \in Seq(Int)
      BY <3>4, <3>5, SeqPointwise
    <3> QED
      BY <3>2, <3>6
  <2> QED
    BY <2>1, <2>2
<1>4. d.cache \in {NoCache} \cup Seq(Int)
  BY <1>1, <1>3, Fields
<1>5. d \in ColumnType /\ Accepts(d) = Accepts(c)
  <2>1. d.kind \in Kinds /\ d.mode \in Modes /\ d.data \in Seq(Int) /\ d.values \in Seq(Int)
        /\ d.base \in Int /\ d.last \in Int /\ d.width \in Nat /\ d.given \in SUBSET {"dict", "delta", "for"}
    BY <1>1, Fields
  <2> QED
    BY <1>4, <2>1, IsColumn DEF Accepts
<1>6. Encodable(d)
  BY <1>1 DEF Encodable, Tries
<1>7. Holds(d, w)
  <2>1. BoolHolds(d, w) = BoolHolds(c, w)
    BY DEF BoolHolds
  <2>2. DictHolds(d, w) = DictHolds(c, w)
    BY DEF DictHolds
  <2>3. ASSUME c.mode = "delta" PROVE DeltaHolds(d, w)
    <3>1. DeltaHolds(c, w) /\ Decoded(c) = Summed(c)
      BY <1>1, <2>3 DEF Holds, Decoded
    <3>2. d.cache \in {NoCache, Summed(c)}
      BY <3>1 DEF DeltaHolds
    <3> QED
      BY <1>2, <3>1, <3>2 DEF DeltaHolds
  <2>4. ASSUME c.mode = "for" PROVE ForHolds(d, w)
    <3>1. ForHolds(c, w)
      BY <1>1, <2>4 DEF Holds
    <3>2. d.cache \in {NoCache, Decoded(d)}
      BY <1>3, <2>4, <3>1 DEF ForHolds
    <3> QED
      BY <3>1, <3>2 DEF ForHolds
  <2>5. ASSUME c.mode = "raw" PROVE RawHolds(d, w)
    <3>1. RawHolds(c, w) /\ d.cache = c.cache
      BY <1>1, <2>5 DEF Holds
    <3> QED
      BY <3>1 DEF RawHolds
  <2> QED
    BY <1>1, <2>1, <2>2, <2>3, <2>4, <2>5 DEF Holds
<1> QED
  BY <1>1, <1>5, <1>6, <1>7 DEF Fits

\* Writing a raw column.
LEMMA RawPush ==
  ASSUME NEW c, NEW w, Fits(c, w), c.mode = "raw", NEW v \in Int, NEW x \in Accepts(c) \cap {v, Null}
  PROVE  LET d == Pushed(c, v)
         IN  /\ Fits(d, Append(w, x)) /\ d.mode = "raw" /\ d.nulls = c.nulls /\ d.kind = c.kind
             /\ d.given = c.given /\ d.data = Append(c.data, v)
             /\ d.seen = c.seen /\ d.lo = c.lo /\ d.hi = c.hi
<1> DEFINE d == Pushed(c, v)
           z == Append(w, x)
<1>1. c \in ColumnType /\ w \in Seq(Accepts(c)) /\ RawHolds(c, w) /\ c.data \in Seq(Int)
  BY Fields DEF Fits, Holds
<1>2. IsRecord(d)
  BY <1>1, Record DEF IsRecord, FieldNames, Pushed
<1>3. /\ d.mode = "raw" /\ d.nulls = c.nulls /\ d.kind = c.kind /\ d.data = Append(c.data, v)
      /\ d.cache = c.cache /\ d.given = c.given /\ d.values = c.values /\ d.base = c.base /\ d.last = c.last
      /\ d.width = c.width /\ d.seen = c.seen /\ d.lo = c.lo /\ d.hi = c.hi
  BY <1>1, Record DEF IsRecord, FieldNames, Pushed
<1>4. /\ z \in Seq(Accepts(c)) /\ Len(z) = Len(w) + 1 /\ (\A k \in 1 .. Len(w) : z[k] = w[k]) /\ z[Len(w) + 1] = x
  BY <1>1, SeqPush
<1>5. /\ d.data \in Seq(Int) /\ Len(d.data) = Len(c.data) + 1
      /\ (\A k \in 1 .. Len(c.data) : d.data[k] = c.data[k]) /\ d.data[Len(c.data) + 1] = v
  BY <1>1, <1>3, SeqPush
<1> HIDE DEF d, z
<1>6. d \in ColumnType /\ Accepts(d) = Accepts(c)
  <2>1. d.mode \in Modes
    BY <1>3 DEF Modes
  <2> QED
    BY <1>1, <1>2, <1>3, <1>5, <2>1, Fields, IsColumnStill
<1>7. RawHolds(d, z)
  <2>1. \A i \in 1 .. Len(z) : i \in 1 .. Len(w) \/ i = Len(w) + 1
    BY <1>1, <1>4
  <2> QED
    BY <1>1, <1>3, <1>4, <1>5, <2>1 DEF RawHolds
<1>8. Encodable(d) /\ Holds(d, z)
  BY <1>3, <1>7 DEF Encodable, Holds
<1> QED
  BY <1>3, <1>4, <1>6, <1>8 DEF Fits, d, z

LEMMA RawPut ==
  ASSUME NEW c, NEW w, Fits(c, w), c.mode = "raw", NEW i \in 1 .. Len(w), NEW v \in Int,
         NEW x \in Accepts(c) \cap {v, Null}
  PROVE  LET d == Put(c, i, v)
         IN  Fits(d, [w EXCEPT ![i] = x]) /\ d.nulls = c.nulls /\ d.kind = c.kind
<1> DEFINE d == Put(c, i, v)
           z == [w EXCEPT ![i] = x]
<1>1. c \in ColumnType /\ w \in Seq(Accepts(c)) /\ RawHolds(c, w) /\ c.data \in Seq(Int) /\ i \in 1 .. Len(c.data)
  BY Fields DEF Fits, Holds, RawHolds
<1>2. IsRecord(d)
  BY <1>1, Record DEF IsRecord, FieldNames, Put
<1>3. /\ d.mode = "raw" /\ d.nulls = c.nulls /\ d.kind = c.kind /\ d.data = [c.data EXCEPT ![i] = v]
      /\ d.cache = c.cache /\ d.given = c.given /\ d.values = c.values /\ d.base = c.base /\ d.last = c.last
      /\ d.width = c.width /\ d.seen = c.seen /\ d.lo = c.lo /\ d.hi = c.hi
  BY <1>1, Record DEF IsRecord, FieldNames, Put
<1>4. z \in Seq(Accepts(c)) /\ Len(z) = Len(w) /\ \A k \in 1 .. Len(w) : z[k] = IF k = i THEN x ELSE w[k]
  BY <1>1, SeqPut
<1>5. /\ d.data \in Seq(Int) /\ Len(d.data) = Len(c.data)
      /\ \A k \in 1 .. Len(c.data) : d.data[k] = IF k = i THEN v ELSE c.data[k]
  BY <1>1, <1>3, SeqPut
<1> HIDE DEF d, z
<1>6. d \in ColumnType /\ Accepts(d) = Accepts(c)
  <2>1. d.mode \in Modes
    BY <1>3 DEF Modes
  <2> QED
    BY <1>1, <1>2, <1>3, <1>5, <2>1, Fields, IsColumnStill
<1>7. RawHolds(d, z)
  <2>1. ASSUME NEW k \in 1 .. Len(z), z[k] # Null PROVE z[k] = d.data[k]
    <3>1. k \in 1 .. Len(w) /\ k \in 1 .. Len(c.data)
      BY <1>1, <1>4 DEF RawHolds
    <3>2. CASE k = i
      BY <1>4, <1>5, <2>1, <3>1, <3>2
    <3>3. CASE k # i
      <4>1. z[k] = w[k] /\ d.data[k] = c.data[k] /\ w[k] # Null
        BY <1>4, <1>5, <2>1, <3>1, <3>3
      <4> QED
        BY <1>1, <3>1, <4>1 DEF RawHolds
    <3> QED
      BY <3>2, <3>3
  <2>2. Len(d.data) = Len(z) /\ d.cache = NoCache
    BY <1>1, <1>3, <1>4, <1>5 DEF RawHolds
  <2> QED
    BY <2>1, <2>2 DEF RawHolds
<1>8. Encodable(d) /\ Holds(d, z)
  BY <1>3, <1>7 DEF Encodable, Holds
<1> QED
  BY <1>3, <1>4, <1>6, <1>8 DEF Fits, d, z

\* Setting or clearing a bit, at a row that was written already.
LEMMA BoolPut ==
  ASSUME NEW c, NEW w, Fits(c, w), c.mode = "bool", NEW i \in 1 .. Len(w), NEW v \in {0, 1},
         NEW x \in {v, Null}
  PROVE  LET d == Bit(c, i, v)
         IN  Fits(d, [w EXCEPT ![i] = x]) /\ d.nulls = c.nulls /\ d.kind = c.kind
<1> DEFINE d == Bit(c, i, v)
           z == [w EXCEPT ![i] = x]
           len == Len(c.data)
<1>1. /\ c \in ColumnType /\ w \in Seq(Accepts(c)) /\ BoolHolds(c, w) /\ c.data \in Seq(Int) /\ len \in Nat
      /\ Len(w) \in Nat /\ i \in Nat \ {0} /\ x \in Accepts(c)
  BY Fields DEF Fits, Holds, BoolHolds, Accepts
<1>2. z \in Seq(Accepts(c)) /\ Len(z) = Len(w) /\ \A k \in 1 .. Len(w) : z[k] = IF k = i THEN x ELSE w[k]
  BY <1>1, SeqPut
<1> DEFINE size == IF v = 0 THEN len ELSE IF i > len THEN i ELSE len
           bits == [j \in 1 .. size |-> IF j = i THEN v ELSE IF j <= len THEN c.data[j] ELSE 0]
<1>3. size \in Nat /\ size <= Len(w) /\ (size = len \/ (v = 1 /\ size = i /\ i > len)) /\ (v = 1 => i <= size)
  BY <1>1 DEF BoolHolds
<1>4. /\ IsRecord(d)
      /\ d.mode = "bool" /\ d.nulls = c.nulls /\ d.kind = c.kind
      /\ d.cache = c.cache /\ d.given = c.given /\ d.values = c.values /\ d.base = c.base /\ d.last = c.last
      /\ d.width = c.width /\ d.seen = c.seen /\ d.lo = c.lo /\ d.hi = c.hi
      /\ d.data = bits
  <2>1. CASE v = 0 /\ ~(i <= len)
    <3>1. d = c
      BY <1>1, <2>1 DEF Bit
    <3>2. size = len /\ c.data = [j \in 1 .. len |-> c.data[j]]
      BY <1>1, <2>1
    <3>3. \A j \in 1 .. len : bits[j] = c.data[j]
      BY <1>1, <2>1, <3>2
    <3>4. bits = [j \in 1 .. len |-> bits[j]]
      BY <3>2
    <3>5. bits = c.data
      <4> HIDE DEF bits, size, len
      <4> QED
        BY <3>2, <3>3, <3>4
    <3> HIDE DEF d, bits
    <3> QED
      BY <1>1, <3>1, <3>5, Record
  <2>2. CASE v = 0 /\ i <= len
    <3> DEFINE put == [c.data EXCEPT ![i] = 0]
    <3>1. d = Put(c, i, 0)
      BY <1>1, <2>2 DEF Bit
    <3>2. size = len /\ put = [j \in 1 .. len |-> put[j]] /\ \A j \in 1 .. len : put[j] = IF j = i THEN 0 ELSE c.data[j]
      <4>1. size = len
        BY <2>2
      <4>2. i \in 1 .. Len(c.data) /\ 0 \in Int
        BY <1>1, <2>2
      <4>3. put \in Seq(Int) /\ Len(put) = len /\ \A j \in 1 .. len : put[j] = IF j = i THEN 0 ELSE c.data[j]
        BY <1>1, <4>2, SeqPut
      <4>4. put = [j \in 1 .. Len(put) |-> put[j]]
        <5> HIDE DEF put
        <5> QED
          BY <4>3
      <4> QED
        BY <4>1, <4>3, <4>4
    <3>3. \A j \in 1 .. len : bits[j] = put[j]
      <4>1. \A j \in 1 .. len : bits[j] = IF j = i THEN 0 ELSE c.data[j]
        BY <1>1, <2>2, <3>2
      <4> HIDE DEF bits, put
      <4> QED
        BY <3>2, <4>1
    <3>4. bits = [j \in 1 .. len |-> bits[j]]
      BY <3>2
    <3>5. bits = put
      <4> HIDE DEF bits, size, len, put
      <4> QED
        BY <3>2, <3>3, <3>4
    <3> HIDE DEF d, bits
    <3> QED
      BY <1>1, <3>1, <3>5, Record DEF IsRecord, FieldNames, Put
  <2>3. CASE v # 0
    <3>1. Max({i, len}) = size
      <4>1. size \in {i, len} /\ \A y \in {i, len} : size >= y
        BY <1>1, <2>3
      <4>2. ASSUME NEW y \in {i, len}, \A q \in {i, len} : y >= q PROVE y = size
        BY <1>1, <2>3, <4>2
      <4> HIDE DEF size, len
      <4> QED
        BY <4>1, <4>2 DEF Max
    <3>2. d = [c EXCEPT !.data = [j \in 1 .. size |-> IF j = i THEN 1 ELSE IF j <= len THEN c.data[j] ELSE 0]]
      BY <2>3, <3>1 DEF Bit
    <3>3. v = 1
      BY <2>3
    <3>4. d = [c EXCEPT !.data = bits]
      BY <3>2, <3>3
    <3> HIDE DEF d, bits
    <3> QED
      BY <1>1, <3>4, Record DEF IsRecord, FieldNames
  <2> QED
    BY <2>1, <2>2, <2>3
<1>5. \A k \in 1 .. size : bits[k] = IF k = i THEN v ELSE IF k <= len THEN c.data[k] ELSE 0
  OBVIOUS
<1>6. bits \in Seq(Int) /\ Len(bits) = size
  <2>1. \A k \in 1 .. size : bits[k] \in Int
    BY <1>1, <1>5
  <2>2. bits = [k \in 1 .. size |-> bits[k]]
    OBVIOUS
  <2> HIDE DEF bits, size
  <2> QED
    BY <1>3, <2>1, <2>2, SeqPointwise
<1> HIDE DEF d, z, bits, size
<1>7. d \in ColumnType /\ Accepts(d) = Accepts(c)
  <2>1. d.mode \in Modes
    BY <1>4 DEF Modes
  <2> QED
    BY <1>1, <1>4, <1>6, <2>1, Fields, IsColumnStill
<1>8. BoolHolds(d, z)
  <2>1. ASSUME NEW k \in 1 .. Len(z), z[k] # Null
        PROVE  z[k] = IF k <= Len(d.data) THEN d.data[k] ELSE 0
    <3>1. k \in 1 .. Len(w) /\ Len(d.data) = size
      BY <1>2, <1>4, <1>6
    <3>2. CASE k = i
      <4>1. z[k] = v
        BY <1>2, <2>1, <3>1, <3>2
      <4>2. k <= size => d.data[k] = v
        BY <1>1, <1>3, <1>4, <1>5, <3>1, <3>2
      <4>3. ~(k <= size) => v = 0
        BY <1>3, <3>2
      <4> QED
        BY <3>1, <4>1, <4>2, <4>3
    <3>3. CASE k # i
      <4>1. z[k] = w[k] /\ w[k] = IF k <= len THEN c.data[k] ELSE 0
        BY <1>1, <1>2, <2>1, <3>1, <3>3 DEF BoolHolds
      <4>2. k <= size => d.data[k] = IF k <= len THEN c.data[k] ELSE 0
        BY <1>3, <1>4, <1>5, <3>1, <3>3
      <4>3. ~(k <= size) => ~(k <= len)
        BY <1>1, <1>3, <3>1
      <4> QED
        BY <3>1, <4>1, <4>2, <4>3
    <3> QED
      BY <3>2, <3>3
  <2>2. d.kind = "bool" /\ Len(d.data) <= Len(z)
    BY <1>1, <1>2, <1>3, <1>4, <1>6 DEF BoolHolds
  <2> QED
    BY <2>1, <2>2 DEF BoolHolds
<1>9. Encodable(d) /\ Holds(d, z)
  BY <1>4, <1>8 DEF Encodable, Holds
<1> QED
  BY <1>2, <1>4, <1>7, <1>9 DEF Fits, d, z

-----------------------------------------------------------------------------
(* Dictionary columns.                                                     *)

\* A value has a code once the dictionary learned it, and no row changes.
LEMMA DictLearned ==
  ASSUME NEW c, NEW w, Fits(c, w), c.mode = "dict", NEW v \in Int
  PROVE  LET d == Learned(c, v)
         IN  /\ d \in ColumnType /\ Accepts(d) = Accepts(c) /\ d.mode = "dict" /\ d.nulls = c.nulls /\ d.kind = c.kind
             /\ DictHolds(d, w) /\ Len(d.values) > 0
             /\ ~Overflows(c, v) => Encodable(d)
             /\ Code(d, v) \in Nat /\ Code(d, v) < Len(d.values) /\ d.values[Code(d, v) + 1] = v
<1> DEFINE d == Learned(c, v)
           len == Len(c.values)
<1>1. /\ c \in ColumnType /\ w \in Seq(Accepts(c)) /\ DictHolds(c, w) /\ c.data \in Seq(Int) /\ c.values \in Seq(Int)
      /\ Encodable(c) /\ len \in Nat /\ DOMAIN c.values = 1 .. len
  BY Fields DEF Fits, Holds
<1>2. /\ d \in ColumnType /\ Accepts(d) = Accepts(c) /\ d.mode = "dict" /\ d.nulls = c.nulls /\ d.kind = c.kind
      /\ d.data = c.data /\ d.values = IF HasCode(c, v) THEN c.values ELSE Append(c.values, v)
  <2>1. CASE HasCode(c, v)
    BY <1>1, <2>1 DEF Learned
  <2>2. CASE ~HasCode(c, v)
    <3>1. d = [c EXCEPT !.values = Append(@, v)]
      BY <2>2 DEF Learned
    <3> HIDE DEF d
    <3>2. IsRecord(d)
      BY <1>1, <3>1, Record DEF IsRecord, FieldNames
    <3>3. /\ d.mode = "dict" /\ d.nulls = c.nulls /\ d.kind = c.kind /\ d.data = c.data
          /\ d.cache = c.cache /\ d.given = c.given /\ d.values = Append(c.values, v) /\ d.base = c.base
          /\ d.last = c.last /\ d.width = c.width /\ d.seen = c.seen /\ d.lo = c.lo /\ d.hi = c.hi
      BY <1>1, <3>1, Record DEF IsRecord, FieldNames
    <3>4. d.mode \in Modes /\ d.values \in Seq(Int)
      BY <1>1, <3>3 DEF Modes
    <3>5. d \in ColumnType /\ Accepts(d) = Accepts(c)
      BY <1>1, <3>2, <3>3, <3>4, Fields, IsColumnStill
    <3> QED
      BY <2>2, <3>3, <3>5
  <2> QED
    BY <2>1, <2>2
<1>3. \A k \in 1 .. len : k \in 1 .. Len(d.values) /\ d.values[k] = c.values[k]
  BY <1>1, <1>2
<1>4. Len(d.values) \in Nat /\ len <= Len(d.values) /\ (~HasCode(c, v) => Len(d.values) = len + 1)
  BY <1>1, <1>2
<1>5. \E n \in 1 .. Len(d.values) : d.values[n] = v
  <2>1. CASE HasCode(c, v)
    BY <1>1, <1>2, <2>1 DEF HasCode, Range
  <2>2. CASE ~HasCode(c, v)
    <3>1. d.values[len + 1] = v /\ len + 1 \in 1 .. Len(d.values)
      BY <1>1, <1>2, <1>4, <2>2
    <3> QED
      BY <3>1
  <2> QED
    BY <2>1, <2>2
<1> HIDE DEF d
<1>6. DOMAIN d.values = 1 .. Len(d.values)
  BY <1>2, Fields
<1>7. Code(d, v) + 1 \in 1 .. Len(d.values) /\ d.values[Code(d, v) + 1] = v
  <2> DEFINE n == CHOOSE n \in DOMAIN d.values : d.values[n] = v
  <2>1. n \in 1 .. Len(d.values) /\ d.values[n] = v
    BY <1>5, <1>6
  <2>2. Code(d, v) = n - 1
    BY DEF Code
  <2> HIDE DEF n
  <2>3. Code(d, v) + 1 = n
    BY <2>1, <2>2
  <2> QED
    BY <2>1, <2>3
<1>8. Code(d, v) \in Nat /\ Code(d, v) < Len(d.values)
  <2> DEFINE n == CHOOSE n \in DOMAIN d.values : d.values[n] = v
  <2>1. n \in 1 .. Len(d.values)
    BY <1>5, <1>6
  <2>2. Code(d, v) = n - 1
    BY DEF Code
  <2> HIDE DEF n
  <2> QED
    BY <1>4, <2>1, <2>2
<1>9. DictHolds(d, w)
  <2>1. \A i \in 1 .. Len(w) : d.data[i] \in Nat /\ (d.data[i] = 0 \/ d.data[i] < Len(d.values))
    BY <1>1, <1>2, <1>4 DEF DictHolds
  <2>2. ASSUME NEW i \in 1 .. Len(w), w[i] # Null
        PROVE  d.data[i] < Len(d.values) /\ w[i] = d.values[d.data[i] + 1]
    <3>1. c.data[i] \in Nat /\ c.data[i] < len /\ w[i] = c.values[c.data[i] + 1]
      BY <1>1, <2>2 DEF DictHolds
    <3>2. c.data[i] + 1 \in 1 .. len
      <4> DEFINE x == c.data[i]
      <4>1. x \in Nat /\ x < len /\ len \in Nat
        BY <1>1, <3>1
      <4> HIDE DEF x
      <4>2. x + 1 \in 1 .. len
        BY <4>1
      <4> QED
        BY <4>2 DEF x
    <3> QED
      BY <1>2, <1>3, <1>4, <3>1, <3>2
  <2> QED
    BY <1>1, <1>2, <2>1, <2>2 DEF DictHolds
<1>10. ~Overflows(c, v) => Encodable(d)
  <2>1. Len(c.values) <= DictThreshold /\ c.kind = "dict" /\ DictThreshold \in Nat
    BY <1>1, ColumnAssumption DEF Encodable, ColumnAssumption
  <2>2. ~Overflows(c, v) => Len(d.values) <= DictThreshold
    BY <1>2, <1>4, <2>1 DEF Overflows
  <2> QED
    BY <1>2, <2>1, <2>2 DEF Encodable
<1>11. Len(d.values) > 0
  BY <1>4, <1>8
<1> QED
  BY <1>2, <1>7, <1>8, <1>9, <1>10, <1>11 DEF d

\* What a dictionary column with no code left falls back to.
LEMMA DictFits ==
  ASSUME NEW c \in ColumnType, NEW w \in Seq(Accepts(c)), c.mode = "dict", DictHolds(c, w), Len(c.values) > 0
  PROVE  LET d == DictToRaw(c)
         IN  Fits(d, w) /\ d.mode = "raw" /\ d.nulls = c.nulls /\ d.kind = c.kind
<1> DEFINE values == [i \in DOMAIN c.data |-> c.values[c.data[i] + 1]]
<1>1. c.data \in Seq(Int) /\ c.values \in Seq(Int) /\ Len(c.data) = Len(w) /\ DOMAIN c.data = 1 .. Len(w)
      /\ Len(w) \in Nat /\ Len(c.values) \in Nat
  BY Fields DEF DictHolds
<1>2. ASSUME NEW i \in 1 .. Len(w) PROVE values[i] = c.values[c.data[i] + 1] /\ values[i] \in Int
  <2> DEFINE x == c.data[i]
             len == Len(c.values)
  <2>1. x \in Nat /\ (x = 0 \/ x < len)
    BY DEF DictHolds
  <2>2. len \in Nat /\ len > 0 /\ \A k \in 1 .. len : c.values[k] \in Int
    BY <1>1
  <2>3. values[i] = c.values[x + 1]
    BY <1>1
  <2> HIDE DEF x, len, values
  <2>4. x + 1 \in 1 .. len
    BY <2>1, <2>2
  <2>5. c.values[x + 1] \in Int
    BY <2>2, <2>4
  <2> QED
    BY <2>3, <2>5 DEF x
<1>3. values = [i \in 1 .. Len(w) |-> values[i]]
  BY <1>1
<1>4. DictToRaw(c) = RawWith(c, "dict", values)
  BY DEF DictToRaw
<1> HIDE DEF values
<1>5. values \in Seq(Int) /\ Len(values) = Len(w)
  BY <1>1, <1>2, <1>3, SeqPointwise
<1>6. \A i \in 1 .. Len(w) : w[i] # Null => w[i] = values[i]
  BY <1>2 DEF DictHolds
<1> QED
  BY <1>4, <1>5, <1>6, RawFits

\* A code for a new row, and for one that was written.
LEMMA DictPush ==
  ASSUME NEW c \in ColumnType, NEW w \in Seq(Accepts(c)), c.mode = "dict", DictHolds(c, w), Encodable(c),
         NEW n \in Nat, NEW x \in Accepts(c),
         \/ n = 0 /\ x = Null
         \/ n < Len(c.values) /\ x = c.values[n + 1]
  PROVE  LET d == Pushed(c, n)
         IN  Fits(d, Append(w, x)) /\ d.nulls = c.nulls /\ d.kind = c.kind
<1> DEFINE d == Pushed(c, n)
           z == Append(w, x)
<1>1. c.data \in Seq(Int) /\ Len(c.data) = Len(w) /\ Len(w) \in Nat
  BY Fields DEF DictHolds
<1>2. IsRecord(d)
  BY Record DEF IsRecord, FieldNames, Pushed
<1>3. /\ d.mode = "dict" /\ d.nulls = c.nulls /\ d.kind = c.kind /\ d.data = Append(c.data, n)
      /\ d.cache = c.cache /\ d.given = c.given /\ d.values = c.values /\ d.base = c.base /\ d.last = c.last
      /\ d.width = c.width /\ d.seen = c.seen /\ d.lo = c.lo /\ d.hi = c.hi
  BY Record DEF IsRecord, FieldNames, Pushed
<1>4. /\ z \in Seq(Accepts(c)) /\ Len(z) = Len(w) + 1 /\ (\A k \in 1 .. Len(w) : z[k] = w[k]) /\ z[Len(w) + 1] = x
  BY <1>1, SeqPush
<1>5. /\ d.data \in Seq(Int) /\ Len(d.data) = Len(c.data) + 1
      /\ (\A k \in 1 .. Len(c.data) : d.data[k] = c.data[k]) /\ d.data[Len(c.data) + 1] = n
  <2>1. n \in Int
    OBVIOUS
  <2> QED
    BY <1>1, <1>3, <2>1, SeqPush
<1> HIDE DEF d, z
<1>6. d \in ColumnType /\ Accepts(d) = Accepts(c)
  <2>1. d.mode \in Modes
    BY <1>3 DEF Modes
  <2> QED
    BY <1>2, <1>3, <1>5, <2>1, Fields, IsColumnStill
<1>7. DictHolds(d, z)
  <2>1. ASSUME NEW k \in 1 .. Len(z)
        PROVE  /\ d.data[k] \in Nat /\ (d.data[k] = 0 \/ d.data[k] < Len(d.values))
               /\ z[k] # Null => d.data[k] < Len(d.values) /\ z[k] = d.values[d.data[k] + 1]
    <3>1. k \in 1 .. Len(w) \/ k = Len(w) + 1
      BY <1>1, <1>4
    <3>2. CASE k \in 1 .. Len(w)
      <4>1. z[k] = w[k] /\ d.data[k] = c.data[k] /\ d.values = c.values
        BY <1>1, <1>3, <1>4, <1>5, <3>2
      <4> QED
        BY <3>2, <4>1 DEF DictHolds
    <3>3. CASE k = Len(w) + 1
      <4>1. z[k] = x /\ d.data[k] = n /\ d.values = c.values
        BY <1>1, <1>3, <1>4, <1>5, <3>3
      <4> QED
        BY <4>1
    <3> QED
      BY <3>1, <3>2, <3>3
  <2>2. Len(d.data) = Len(z)
    BY <1>1, <1>4, <1>5
  <2> QED
    BY <2>1, <2>2 DEF DictHolds
<1>8. Encodable(d) /\ Holds(d, z)
  BY <1>3, <1>7 DEF Encodable, Holds
<1> QED
  BY <1>3, <1>4, <1>6, <1>8 DEF Fits, d, z

LEMMA DictPut ==
  ASSUME NEW c \in ColumnType, NEW w \in Seq(Accepts(c)), c.mode = "dict", DictHolds(c, w), Encodable(c),
         NEW i \in 1 .. Len(w), NEW n \in Nat, NEW x \in Accepts(c),
         \/ n = 0 /\ x = Null
         \/ n < Len(c.values) /\ x = c.values[n + 1]
  PROVE  LET d == Put(c, i, n)
         IN  Fits(d, [w EXCEPT ![i] = x]) /\ d.nulls = c.nulls /\ d.kind = c.kind
<1> DEFINE d == Put(c, i, n)
           z == [w EXCEPT ![i] = x]
<1>1. c.data \in Seq(Int) /\ Len(c.data) = Len(w) /\ Len(w) \in Nat /\ i \in 1 .. Len(c.data) /\ n \in Int
  BY Fields DEF DictHolds
<1>2. IsRecord(d)
  BY Record DEF IsRecord, FieldNames, Put
<1>3. /\ d.mode = "dict" /\ d.nulls = c.nulls /\ d.kind = c.kind /\ d.data = [c.data EXCEPT ![i] = n]
      /\ d.cache = c.cache /\ d.given = c.given /\ d.values = c.values /\ d.base = c.base /\ d.last = c.last
      /\ d.width = c.width /\ d.seen = c.seen /\ d.lo = c.lo /\ d.hi = c.hi
  BY Record DEF IsRecord, FieldNames, Put
<1>4. z \in Seq(Accepts(c)) /\ Len(z) = Len(w) /\ \A k \in 1 .. Len(w) : z[k] = IF k = i THEN x ELSE w[k]
  BY <1>1, SeqPut
<1>5. /\ d.data \in Seq(Int) /\ Len(d.data) = Len(c.data)
      /\ \A k \in 1 .. Len(c.data) : d.data[k] = IF k = i THEN n ELSE c.data[k]
  BY <1>1, <1>3, SeqPut
<1> HIDE DEF d, z
<1>6. d \in ColumnType /\ Accepts(d) = Accepts(c)
  <2>1. d.mode \in Modes
    BY <1>3 DEF Modes
  <2> QED
    BY <1>2, <1>3, <1>5, <2>1, Fields, IsColumnStill
<1>7. DictHolds(d, z)
  <2>1. ASSUME NEW k \in 1 .. Len(z)
        PROVE  /\ d.data[k] \in Nat /\ (d.data[k] = 0 \/ d.data[k] < Len(d.values))
               /\ z[k] # Null => d.data[k] < Len(d.values) /\ z[k] = d.values[d.data[k] + 1]
    <3>1. k \in 1 .. Len(w) /\ k \in 1 .. Len(c.data)
      BY <1>1, <1>4
    <3>2. CASE k # i
      <4>1. z[k] = w[k] /\ d.data[k] = c.data[k] /\ d.values = c.values
        BY <1>3, <1>4, <1>5, <3>1, <3>2
      <4> QED
        BY <3>1, <4>1 DEF DictHolds
    <3>3. CASE k = i
      <4>1. z[k] = x /\ d.data[k] = n /\ d.values = c.values
        BY <1>3, <1>4, <1>5, <3>1, <3>3
      <4> QED
        BY <4>1
    <3> QED
      BY <3>2, <3>3
  <2>2. Len(d.data) = Len(z)
    BY <1>1, <1>4, <1>5
  <2> QED
    BY <2>1, <2>2 DEF DictHolds
<1>8. Encodable(d) /\ Holds(d, z)
  BY <1>3, <1>7 DEF Encodable, Holds
<1> QED
  BY <1>3, <1>4, <1>6, <1>8 DEF Fits, d, z

\* Appending to a dictionary column, and writing a row of it.
LEMMA DictAppend ==
  ASSUME NEW c, NEW w, Fits(c, w), c.mode = "dict", NEW v \in Int \cap Accepts(c)
  PROVE  LET d == AppendDict(c, v)
         IN  Fits(d, Append(w, v)) /\ d.nulls = c.nulls /\ d.kind = c.kind
<1> DEFINE l == Learned(c, v)
<1>1. /\ l \in ColumnType /\ Accepts(l) = Accepts(c) /\ l.mode = "dict" /\ l.nulls = c.nulls /\ l.kind = c.kind
      /\ DictHolds(l, w) /\ Len(l.values) > 0 /\ (~Overflows(c, v) => Encodable(l))
      /\ Code(l, v) \in Nat /\ Code(l, v) < Len(l.values) /\ l.values[Code(l, v) + 1] = v
  BY DictLearned
<1>2. w \in Seq(Accepts(l)) /\ v \in Accepts(l)
  BY <1>1 DEF Fits
<1> HIDE DEF l
<1>3. CASE Overflows(c, v)
  <2> DEFINE r == DictToRaw(l)
  <2>1. Fits(r, w) /\ r.mode = "raw" /\ r.nulls = c.nulls /\ r.kind = c.kind
    BY <1>1, <1>2, DictFits
  <2>2. AppendDict(c, v) = Pushed(r, v)
    BY <1>3 DEF AppendDict, l
  <2>3. Accepts(r) = Accepts(c)
    BY <2>1 DEF Accepts
  <2> HIDE DEF r
  <2>4. v \in Int /\ v \in Accepts(r) \cap {v, Null}
    BY <2>3
  <2>5. Fits(Pushed(r, v), Append(w, v)) /\ Pushed(r, v).nulls = r.nulls /\ Pushed(r, v).kind = r.kind
    BY <2>1, <2>4, RawPush
  <2> QED
    BY <2>1, <2>2, <2>5
<1>4. CASE ~Overflows(c, v)
  <2>1. AppendDict(c, v) = Pushed(l, Code(l, v))
    BY <1>4 DEF AppendDict, l
  <2>2. Fits(Pushed(l, Code(l, v)), Append(w, v)) /\ Pushed(l, Code(l, v)).nulls = l.nulls
        /\ Pushed(l, Code(l, v)).kind = l.kind
    BY <1>1, <1>2, <1>4, DictPush
  <2> QED
    BY <1>1, <2>1, <2>2
<1> QED
  BY <1>3, <1>4

LEMMA DictSet ==
  ASSUME NEW c, NEW w, Fits(c, w), c.mode = "dict", NEW i \in 1 .. Len(w), NEW v \in Int \cap Accepts(c)
  PROVE  LET d == SetValue(c, i, v)
         IN  Fits(d, [w EXCEPT ![i] = v]) /\ d.nulls = c.nulls /\ d.kind = c.kind
<1> DEFINE l == Learned(c, v)
<1>1. /\ l \in ColumnType /\ Accepts(l) = Accepts(c) /\ l.mode = "dict" /\ l.nulls = c.nulls /\ l.kind = c.kind
      /\ DictHolds(l, w) /\ Len(l.values) > 0 /\ (~Overflows(c, v) => Encodable(l))
      /\ Code(l, v) \in Nat /\ Code(l, v) < Len(l.values) /\ l.values[Code(l, v) + 1] = v
  BY DictLearned
<1>2. w \in Seq(Accepts(l)) /\ v \in Accepts(l)
  BY <1>1 DEF Fits
<1> HIDE DEF l
<1>3. CASE Overflows(c, v)
  <2> DEFINE r == DictToRaw(l)
  <2>1. Fits(r, w) /\ r.mode = "raw" /\ r.nulls = c.nulls /\ r.kind = c.kind
    BY <1>1, <1>2, DictFits
  <2>2. SetValue(c, i, v) = Put(r, i, v)
    BY <1>3 DEF SetValue, l
  <2>3. Accepts(r) = Accepts(c)
    BY <2>1 DEF Accepts
  <2> HIDE DEF r
  <2>4. v \in Accepts(r) \cap {v, Null}
    BY <2>3
  <2>5. Fits(Put(r, i, v), [w EXCEPT ![i] = v]) /\ Put(r, i, v).nulls = r.nulls /\ Put(r, i, v).kind = r.kind
    BY <2>1, <2>4, RawPut
  <2> QED
    BY <2>1, <2>2, <2>5
<1>4. CASE ~Overflows(c, v)
  <2>1. SetValue(c, i, v) = Put(l, i, Code(l, v))
    BY <1>4 DEF SetValue, l
  <2>2. Fits(Put(l, i, Code(l, v)), [w EXCEPT ![i] = v]) /\ Put(l, i, Code(l, v)).nulls = l.nulls
        /\ Put(l, i, Code(l, v)).kind = l.kind
    BY <1>1, <1>2, <1>4, DictPut
  <2> QED
    BY <1>1, <2>1, <2>2
<1> QED
  BY <1>3, <1>4

-----------------------------------------------------------------------------
(* Delta encoding.                                                         *)

\* Writing the cache does not change what is read.
LEMMA DeltaDecoded ==
  ASSUME NEW c, NEW w, Fits(c, w), c.mode = "delta"
  PROVE  Summed(c) \in Seq(Int) /\ Len(Summed(c)) = Len(w) /\ c.data \in Seq(Int) /\ Len(w) = Len(c.data) + 1
<1>1. c \in ColumnType /\ DeltaHolds(c, w)
  BY DEF Fits, Holds
<1>2. c.data \in Seq(Int) /\ c.base \in Int
  BY <1>1, Fields
<1> QED
  BY <1>1, <1>2, SummedStep DEF DeltaHolds

\* What a column that gives deltas up falls back to.
LEMMA DeltaFits ==
  ASSUME NEW c, NEW w, Fits(c, w), c.mode = "delta"
  PROVE  LET d == DeltaToRaw(c)
         IN  Fits(d, w) /\ d.mode = "raw" /\ d.nulls = c.nulls /\ d.kind = c.kind
<1>1. Summed(c) \in Seq(Int) /\ Len(Summed(c)) = Len(w)
  BY DeltaDecoded
<1>2. c \in ColumnType /\ w \in Seq(Accepts(c)) /\ \A i \in 1 .. Len(w) : w[i] # Null => w[i] = Summed(c)[i]
  BY DEF Fits, Holds, DeltaHolds
<1>3. DeltaToRaw(c) = RawWith(c, "delta", Summed(c))
  BY DEF DeltaToRaw
<1> QED
  BY <1>1, <1>2, <1>3, RawFits

\* One more delta after the others leaves the values before it as they are.
LEMMA SummedPush ==
  ASSUME NEW c, c.data \in Seq(Int), c.base \in Int, NEW e, NEW d \in Int,
         e.data = Append(c.data, d), e.base = c.base
  PROVE  LET n == Len(c.data) + 1
         IN  /\ Summed(e) \in Seq(Int) /\ Len(Summed(e)) = n + 1
             /\ \A k \in 1 .. n : Summed(e)[k] = Summed(c)[k]
             /\ Summed(e)[n + 1] = Summed(c)[n] + d
<1> DEFINE n == Len(c.data) + 1
<1>1. /\ n \in Nat \ {0} /\ e.data \in Seq(Int) /\ Len(e.data) = n /\ e.base \in Int
      /\ (\A k \in 1 .. n - 1 : e.data[k] = c.data[k]) /\ e.data[n] = d
  BY SeqPush
<1>2. /\ Summed(c) \in Seq(Int) /\ Len(Summed(c)) = n /\ Summed(c)[1] = c.base
      /\ \A k \in 1 .. n - 1 : Summed(c)[k + 1] = Summed(c)[k] + c.data[k]
  <2>1. 1 .. n - 1 = 1 .. Len(c.data)
    BY <1>1
  <2> QED
    BY <2>1, SummedStep
<1>3. /\ Summed(e) \in Seq(Int) /\ Len(Summed(e)) = n + 1
      /\ \A k \in 1 .. n : Summed(e)[k + 1] = Summed(e)[k] + e.data[k]
  BY <1>1, SummedStep
<1> HIDE DEF n
<1>4. \A k \in 1 .. n : Summed(e)[k] = Summed(c)[k]
  <2>1. \A k \in 1 .. n - 1 : Summed(c)[k + 1] = Summed(c)[k] + e.data[k]
    BY <1>1, <1>2
  <2>2. n \in 1 .. Len(e.data) + 1 /\ n <= Len(Summed(c)) /\ Summed(c)[1] = e.base
    BY <1>1, <1>2
  <2> QED
    BY <1>1, <1>2, <2>1, <2>2, SummedOnly
<1>5. Summed(e)[n + 1] = Summed(c)[n] + d
  <2>1. n \in 1 .. n
    BY <1>1
  <2> QED
    BY <1>1, <1>3, <1>4, <2>1
<1> QED
  BY <1>3, <1>4, <1>5 DEF n

\* A delta for a new row: the column it gives holds it.
LEMMA DeltaPush ==
  ASSUME NEW c, NEW w, Fits(c, w), c.mode = "delta", NEW d \in Int, NEW width \in Nat,
         FitsDelta(d, width), \A k \in 1 .. Len(c.data) : FitsDelta(c.data[k], width),
         NEW x \in Accepts(c) \cap {c.last + d, Null},
         NEW e, IsRecord(e), e.mode = "delta", e.nulls = c.nulls, e.kind = c.kind, e.given = c.given,
         e.data = Append(c.data, d), e.last = c.last + d, e.base = c.base, e.width = width, e.cache = NoCache,
         e.values = c.values, e.seen = c.seen, e.lo = c.lo, e.hi = c.hi
  PROVE  Fits(e, Append(w, x))
<1> DEFINE z == Append(w, x)
           n == Len(c.data) + 1
<1>1. /\ c \in ColumnType /\ w \in Seq(Accepts(c)) /\ DeltaHolds(c, w) /\ Encodable(c) /\ c.data \in Seq(Int)
      /\ c.base \in Int /\ c.last \in Int /\ Len(w) = n /\ n \in Nat \ {0}
  BY Fields DEF Fits, Holds, DeltaHolds
<1>2. /\ z \in Seq(Accepts(c)) /\ Len(z) = n + 1 /\ (\A k \in 1 .. n : z[k] = w[k]) /\ z[n + 1] = x
  <2> DEFINE S == Accepts(c)
  <2>1. w \in Seq(S) /\ x \in S /\ Len(w) = n
    BY <1>1
  <2> HIDE DEF S, n
  <2>2. /\ Append(w, x) \in Seq(S) /\ Len(Append(w, x)) = n + 1
        /\ (\A k \in 1 .. n : Append(w, x)[k] = w[k]) /\ Append(w, x)[n + 1] = x
    BY <2>1, SeqPush
  <2> QED
    BY <2>2 DEF S
<1>3. /\ e.data \in Seq(Int) /\ Len(e.data) = n
      /\ (\A k \in 1 .. Len(c.data) : e.data[k] = c.data[k]) /\ e.data[n] = d
  BY <1>1, SeqPush
<1>4. /\ Summed(e) \in Seq(Int) /\ Len(Summed(e)) = n + 1
      /\ (\A k \in 1 .. n : Summed(e)[k] = Summed(c)[k]) /\ Summed(e)[n + 1] = Summed(c)[n] + d
  BY <1>1, SummedPush
<1> HIDE DEF n, z
<1>5. e \in ColumnType /\ Accepts(e) = Accepts(c)
  <2>1. e.mode \in Modes /\ e.last \in Int /\ e.cache \in {NoCache} \cup Seq(Int)
    BY <1>1 DEF Modes
  <2> QED
    BY <1>1, <1>3, <2>1, Fields, IsColumnStill
<1>6. DeltaHolds(e, z)
  <2>1. Summed(e)[n + 1] = e.last
    BY <1>1, <1>4 DEF DeltaHolds
  <2>2. ASSUME NEW k \in 1 .. Len(z), z[k] # Null PROVE z[k] = Summed(e)[k]
    <3>1. k \in 1 .. n \/ k = n + 1
      BY <1>1, <1>2
    <3>2. CASE k \in 1 .. n
      BY <1>1, <1>2, <1>4, <2>2, <3>2 DEF DeltaHolds
    <3>3. CASE k = n + 1
      BY <1>2, <2>1, <2>2, <3>3
    <3> QED
      BY <3>1, <3>2, <3>3
  <2>3. Len(z) = Len(e.data) + 1 /\ e.last = Summed(e)[Len(z)] /\ e.cache = NoCache
    BY <1>2, <1>3, <2>1
  <2> QED
    BY <2>2, <2>3 DEF DeltaHolds
<1>7. Encodable(e)
  <2>1. Tries(e, "delta")
    BY <1>1 DEF Encodable, Tries
  <2>2. ASSUME NEW k \in DOMAIN e.data PROVE FitsDelta(e.data[k], e.width)
    <3>1. k \in 1 .. Len(c.data) \/ k = n
      BY <1>1, <1>3 DEF n
    <3> QED
      BY <1>3, <3>1
  <2> QED
    BY <2>1, <2>2 DEF Encodable
<1>8. Holds(e, z)
  BY <1>6 DEF Holds
<1> QED
  BY <1>2, <1>5, <1>7, <1>8 DEF Fits, z

\* What fits the narrow deltas fits the wide ones, and so does no change at all.
LEMMA FitsWider ==
  ASSUME ColumnAssumption, NEW d \in Int, NEW width
  PROVE  (FitsDelta(d, width) => FitsDelta(d, 2)) /\ FitsDelta(0, width)
<1>1. Narrow \in Nat \ {0} /\ Wide \in Nat \ {0} /\ Narrow <= Wide
  BY DEF ColumnAssumption
<1> QED
  BY <1>1 DEF FitsDelta, Half

\* Appending to a column of deltas, and a null to one.
LEMMA DeltaAppend ==
  ASSUME ColumnAssumption, NEW c, NEW w, Fits(c, w), c.mode = "delta", NEW v \in Int \cap Accepts(c)
  PROVE  LET e == AppendDelta(c, v)
         IN  Fits(e, Append(w, v)) /\ e.nulls = c.nulls /\ e.kind = c.kind
<1> DEFINE d == v - c.last
           width == IF FitsDelta(d, c.width) THEN c.width ELSE 2
<1>1. /\ c \in ColumnType /\ c.last \in Int /\ c.width \in Nat /\ d \in Int /\ c.last + d = v /\ c.data \in Seq(Int)
      /\ \A k \in 1 .. Len(c.data) : FitsDelta(c.data[k], c.width) /\ c.data[k] \in Int
  <2>1. c \in ColumnType /\ Encodable(c)
    BY DEF Fits
  <2>2. c.last \in Int /\ c.width \in Nat /\ c.data \in Seq(Int)
    BY <2>1, Fields
  <2>3. DOMAIN c.data = 1 .. Len(c.data) /\ \A k \in 1 .. Len(c.data) : c.data[k] \in Int
    BY <2>2
  <2>4. \A k \in 1 .. Len(c.data) : FitsDelta(c.data[k], c.width)
    BY <2>1, <2>3 DEF Encodable
  <2>5. d \in Int /\ c.last + d = v
    BY <2>2
  <2> QED
    BY <2>1, <2>2, <2>3, <2>4, <2>5
<1>2. CASE FitsDelta(d, 2)
  <2> DEFINE e == [c EXCEPT !.data = Append(@, d), !.last = v, !.width = IF FitsDelta(d, @) THEN @ ELSE 2,
                            !.cache = NoCache]
  <2>1. AppendDelta(c, v) = e
    BY <1>2 DEF AppendDelta
  <2>2. IsRecord(e)
    BY <1>1, Record DEF IsRecord, FieldNames
  <2>3. /\ e.mode = "delta" /\ e.nulls = c.nulls /\ e.kind = c.kind /\ e.given = c.given
        /\ e.data = Append(c.data, d) /\ e.last = v /\ e.base = c.base /\ e.cache = NoCache
        /\ e.values = c.values /\ e.seen = c.seen /\ e.lo = c.lo /\ e.hi = c.hi
    BY <1>1, Record DEF IsRecord, FieldNames
  <2>4. e.width = width
    BY <1>1, Record DEF IsRecord, FieldNames
  <2>5. width \in Nat /\ FitsDelta(d, width) /\ \A k \in 1 .. Len(c.data) : FitsDelta(c.data[k], width)
    BY <1>1, <1>2, FitsWider
  <2> HIDE DEF e, d, width
  <2>6. v \in Accepts(c) \cap {c.last + d, Null}
    BY <1>1
  <2>7. Fits(e, Append(w, v))
    BY <1>1, <2>2, <2>3, <2>4, <2>5, <2>6, DeltaPush
  <2> QED
    BY <2>1, <2>3, <2>7
<1>3. CASE ~FitsDelta(d, 2)
  <2> DEFINE r == DeltaToRaw(c)
  <2>1. Fits(r, w) /\ r.mode = "raw" /\ r.nulls = c.nulls /\ r.kind = c.kind
    BY DeltaFits
  <2>2. AppendDelta(c, v) = Pushed(r, v)
    BY <1>3 DEF AppendDelta
  <2>3. Accepts(r) = Accepts(c)
    BY <2>1 DEF Accepts
  <2> HIDE DEF r
  <2>4. v \in Accepts(r) \cap {v, Null}
    BY <2>3
  <2>5. Fits(Pushed(r, v), Append(w, v)) /\ Pushed(r, v).nulls = r.nulls /\ Pushed(r, v).kind = r.kind
    BY <2>1, <2>4, RawPush
  <2> QED
    BY <2>1, <2>2, <2>5
<1> QED
  BY <1>2, <1>3

LEMMA DeltaNull ==
  ASSUME ColumnAssumption, NEW c, NEW w, Fits(c, w), c.mode = "delta"
  PROVE  LET e == [Pushed(c, 0) EXCEPT !.cache = NoCache]
         IN  Fits(e, Append(w, Null)) /\ e.nulls = c.nulls /\ e.kind = c.kind
<1> DEFINE e == [Pushed(c, 0) EXCEPT !.cache = NoCache]
<1>1. /\ c \in ColumnType /\ c.last \in Int /\ c.width \in Nat /\ c.data \in Seq(Int) /\ c.last = c.last + 0
      /\ \A k \in 1 .. Len(c.data) : FitsDelta(c.data[k], c.width)
  BY Fields DEF Fits, Encodable
<1>2. IsRecord(e)
  BY <1>1, Record DEF IsRecord, FieldNames, Pushed
<1>3. /\ e.mode = "delta" /\ e.nulls = c.nulls /\ e.kind = c.kind /\ e.given = c.given
      /\ e.data = Append(c.data, 0) /\ e.last = c.last /\ e.base = c.base /\ e.cache = NoCache
      /\ e.width = c.width /\ e.values = c.values /\ e.seen = c.seen /\ e.lo = c.lo /\ e.hi = c.hi
  BY <1>1, Record DEF IsRecord, FieldNames, Pushed
<1>4. FitsDelta(0, c.width) /\ 0 \in Int /\ Null \in Accepts(c) \cap {c.last + 0, Null}
  BY FitsWider DEF Accepts
<1> HIDE DEF e
<1>5. e.last = c.last + 0
  BY <1>1, <1>3
<1>6. Fits(e, Append(w, Null))
  BY <1>1, <1>2, <1>3, <1>4, <1>5, DeltaPush
<1> QED
  BY <1>3, <1>6 DEF e

\* Encoding the samples as deltas.
LEMMA DeltaStart ==
  ASSUME ColumnAssumption, NEW c, NEW w, Fits(c, w), c.mode = "raw", c.data # <<>>, Tries(c, "delta")
  PROVE  LET e == StartDelta(c)
         IN  Fits(e, w) /\ e.nulls = c.nulls /\ e.kind = c.kind
<1> DEFINE n == Len(c.data)
           deltas == [k \in 1 .. n - 1 |-> c.data[k + 1] - c.data[k]]
           AllFit(width) == \A k \in DOMAIN deltas : FitsDelta(deltas[k], width)
           first == c.data[1]
           final == c.data[n]
           width == IF AllFit(1) THEN 1 ELSE 2
           e == [c EXCEPT !.mode = "delta", !.base = first, !.last = final, !.width = width, !.data = deltas]
<1>1. /\ c \in ColumnType /\ w \in Seq(Accepts(c)) /\ RawHolds(c, w) /\ c.data \in Seq(Int) /\ Len(w) = n
      /\ n \in Nat \ {0} /\ \A k \in 1 .. n : c.data[k] \in Int
  BY Fields DEF Fits, Holds, RawHolds
<1>2. CASE AllFit(2)
  <2>1. StartDelta(c) = e
    BY <1>2 DEF StartDelta
  <2>2. width \in {1, 2} /\ first \in Int /\ final \in Int
    BY <1>1
  <2>3. \A k \in DOMAIN deltas : FitsDelta(deltas[k], width)
    BY <1>2
  <2>4. /\ deltas \in Seq(Int) /\ Len(deltas) = n - 1
        /\ \A k \in 1 .. n - 1 : deltas[k] = c.data[k + 1] - c.data[k]
    <3>1. \A k \in 1 .. n - 1 : deltas[k] = c.data[k + 1] - c.data[k]
      OBVIOUS
    <3>2. \A k \in 1 .. n - 1 : k \in 1 .. n /\ k + 1 \in 1 .. n
      BY <1>1
    <3>3. deltas = [k \in 1 .. n - 1 |-> deltas[k]] /\ n - 1 \in Nat
      BY <1>1
    <3> HIDE DEF deltas, n
    <3>4. ASSUME NEW k \in 1 .. n - 1 PROVE deltas[k] \in Int
      <4>1. c.data[k + 1] \in Int /\ c.data[k] \in Int
        BY <1>1, <3>2
      <4> QED
        BY <3>1, <4>1
    <3> QED
      BY <3>1, <3>3, <3>4, SeqPointwise
  <2> HIDE DEF deltas, n, width
  <2>5. \A k \in 1 .. n - 1 : c.data[k + 1] = c.data[k] + deltas[k]
    <3>1. ASSUME NEW k \in 1 .. n - 1 PROVE c.data[k + 1] = c.data[k] + deltas[k]
      <4>1. c.data[k + 1] \in Int /\ c.data[k] \in Int
        BY <1>1
      <4>2. deltas[k] = c.data[k + 1] - c.data[k]
        BY <2>4
      <4> QED
        BY <4>1, <4>2
    <3> QED
      BY <3>1
  <2>6. first = c.data[1] /\ final = c.data[n]
    OBVIOUS
  <2> HIDE DEF first, final
  <2>7. IsRecord(e)
    BY <1>1, Record DEF IsRecord, FieldNames
  <2>8. /\ e.mode = "delta" /\ e.nulls = c.nulls /\ e.kind = c.kind /\ e.given = c.given
        /\ e.data = deltas /\ e.last = final /\ e.base = first /\ e.cache = c.cache /\ e.width = width
        /\ e.values = c.values /\ e.seen = c.seen /\ e.lo = c.lo /\ e.hi = c.hi
    BY <1>1, Record DEF IsRecord, FieldNames
  <2> HIDE DEF e
  <2>9. e \in ColumnType /\ Accepts(e) = Accepts(c)
    <3>1. e.mode \in Modes /\ e.width \in Nat /\ e.last \in Int /\ e.base \in Int /\ e.data \in Seq(Int)
      BY <2>2, <2>4, <2>8 DEF Modes
    <3> QED
      BY <1>1, <2>7, <2>8, <3>1, Fields, IsColumnStill
  <2>10. \A k \in 1 .. n : Summed(e)[k] = c.data[k]
    <3>1. \A k \in 1 .. n - 1 : c.data[k + 1] = c.data[k] + e.data[k]
      BY <2>5, <2>8
    <3>2. e.data \in Seq(Int) /\ e.base \in Int /\ c.data[1] = e.base
      BY <2>2, <2>4, <2>6, <2>8
    <3>3. Len(e.data) = n - 1 /\ n \in Nat \ {0}
      BY <1>1, <2>4, <2>8
    <3>4. n \in 1 .. Len(e.data) + 1
      BY <3>3
    <3>5. n = Len(c.data)
      BY DEF n
    <3>6. n <= Len(c.data)
      BY <3>3, <3>5
    <3> QED
      BY <1>1, <3>1, <3>2, <3>4, <3>6, SummedOnly
  <2>11. DeltaHolds(e, w)
    <3>1. Len(w) = Len(e.data) + 1 /\ e.last = Summed(e)[Len(w)] /\ e.cache = NoCache
      BY <1>1, <2>4, <2>6, <2>8, <2>10 DEF RawHolds
    <3>2. \A i \in 1 .. Len(w) : w[i] # Null => w[i] = Summed(e)[i]
      BY <1>1, <2>10 DEF RawHolds
    <3> QED
      BY <3>1, <3>2 DEF DeltaHolds
  <2>12. Encodable(e) /\ Holds(e, w)
    BY <2>3, <2>8, <2>11 DEF Encodable, Holds, Tries
  <2> QED
    BY <1>1, <2>1, <2>8, <2>9, <2>12 DEF Fits
<1>3. CASE ~AllFit(2)
  <2>1. StartDelta(c) = RawWith(c, "delta", c.data)
    BY <1>3 DEF StartDelta
  <2> HIDE DEF n
  <2>2. Len(c.data) = Len(w) /\ \A i \in 1 .. Len(w) : w[i] # Null => w[i] = c.data[i]
    BY <1>1 DEF RawHolds
  <2>3. LET d == RawWith(c, "delta", c.data) IN Fits(d, w) /\ d.nulls = c.nulls /\ d.kind = c.kind
    BY <1>1, <2>2, RawFits
  <2> QED
    BY <2>1, <2>3
<1> QED
  BY <1>2, <1>3

\* A flag of what was tried changes nothing else.
LEMMA RawGivesUp ==
  ASSUME NEW c, NEW w, Fits(c, w), c.mode = "raw", NEW encoding \in {"delta", "for"}
  PROVE  LET d == [c EXCEPT !.given = @ \cup {encoding}]
         IN  Fits(d, w) /\ d.nulls = c.nulls /\ d.kind = c.kind
<1> DEFINE d == [c EXCEPT !.given = @ \cup {encoding}]
<1>1. c \in ColumnType /\ w \in Seq(Accepts(c)) /\ RawHolds(c, w)
  BY DEF Fits, Holds
<1>2. IsRecord(d)
  BY <1>1, Record DEF IsRecord, FieldNames
<1>3. /\ d.mode = "raw" /\ d.nulls = c.nulls /\ d.kind = c.kind /\ d.data = c.data
      /\ d.cache = c.cache /\ d.given = c.given \cup {encoding} /\ d.values = c.values /\ d.base = c.base
      /\ d.last = c.last /\ d.width = c.width /\ d.seen = c.seen /\ d.lo = c.lo /\ d.hi = c.hi
  BY <1>1, Record DEF IsRecord, FieldNames
<1> HIDE DEF d
<1>4. d \in ColumnType /\ Accepts(d) = Accepts(c)
  <2>1. d.given \in SUBSET {"dict", "delta", "for"} /\ d.mode \in Modes
    BY <1>1, <1>3, Fields DEF Modes
  <2> QED
    BY <1>1, <1>2, <1>3, <2>1, Fields, IsColumnStill
<1>5. Encodable(d) /\ Holds(d, w)
  BY <1>1, <1>3 DEF Encodable, Holds, RawHolds
<1> QED
  BY <1>1, <1>3, <1>4, <1>5 DEF Fits, d

\* Appending to a column that is still tried for deltas.
LEMMA DeltaSample ==
  ASSUME ColumnAssumption, NEW c, NEW w, Fits(c, w), c.mode = "raw", Tries(c, "delta"), NEW v \in Int \cap Accepts(c)
  PROVE  LET e == SampleDelta(c, v)
         IN  Fits(e, Append(w, v)) /\ e.nulls = c.nulls /\ e.kind = c.kind
<1> DEFINE d == Pushed(c, v)
           z == Append(w, v)
<1>1. v \in Accepts(c) \cap {v, Null}
  OBVIOUS
<1>2. Fits(d, z) /\ d.mode = "raw" /\ d.nulls = c.nulls /\ d.kind = c.kind /\ d.given = c.given
      /\ d.data = Append(c.data, v)
  BY <1>1, RawPush
<1>3. d.data # <<>> /\ Tries(d, "delta")
  <2>1. c.data \in Seq(Int)
    BY Fields DEF Fits
  <2>2. Append(c.data, v) # <<>>
    BY <2>1
  <2> QED
    BY <1>2, <2>2 DEF Tries
<1>4. SampleDelta(c, v) = IF Len(d.data) < DeltaSamples THEN d
                          ELSE IF Ascends(d.data) THEN StartDelta(d)
                          ELSE [d EXCEPT !.given = @ \cup {"delta"}]
  BY DEF SampleDelta
<1> HIDE DEF d, z
<1>5. Fits(StartDelta(d), z) /\ StartDelta(d).nulls = d.nulls /\ StartDelta(d).kind = d.kind
  BY <1>2, <1>3, DeltaStart
<1>6. LET e == [d EXCEPT !.given = @ \cup {"delta"}] IN Fits(e, z) /\ e.nulls = d.nulls /\ e.kind = d.kind
  BY <1>2, RawGivesUp
<1>7. CASE Len(d.data) < DeltaSamples
  BY <1>2, <1>4, <1>7 DEF z
<1>8. CASE ~(Len(d.data) < DeltaSamples) /\ Ascends(d.data)
  <2>1. SampleDelta(c, v) = StartDelta(d)
    BY <1>4, <1>8
  <2> QED
    BY <1>2, <1>5, <2>1 DEF z
<1>9. CASE ~(Len(d.data) < DeltaSamples) /\ ~Ascends(d.data)
  <2>1. SampleDelta(c, v) = [d EXCEPT !.given = @ \cup {"delta"}]
    BY <1>4, <1>9
  <2> QED
    BY <1>2, <1>6, <2>1 DEF z
<1> QED
  BY <1>7, <1>8, <1>9

-----------------------------------------------------------------------------
(* Frame-of-reference encoding.                                            *)

\* Windows that are wide enough give the values back.
LEMMA Windowed ==
  ASSUME ColumnAssumption, NEW width \in 1 .. MaxBits, NEW d \in Nat, d < Power[width]
  PROVE  d % Power[width] = d /\ d \in 0 .. Power[width] - 1
<1>1. Power[width] \in Nat \ {0}
  BY Powers
<1>2. d = 0 * Power[width] + d /\ d \in 0 .. Power[width] - 1
  BY <1>1
<1>3. d % Power[width] = d
  BY <1>1, <1>2, DivUnique
<1> QED
  BY <1>2, <1>3

\* What a column that gives windows up falls back to.
LEMMA ForFits ==
  ASSUME NEW c, NEW w, Fits(c, w), c.mode = "for"
  PROVE  LET d == ForToRaw(c)
         IN  Fits(d, w) /\ d.mode = "raw" /\ d.nulls = c.nulls /\ d.kind = c.kind
<1> DEFINE values == [i \in DOMAIN c.data |-> ForValue(c, i)]
<1>1. /\ c \in ColumnType /\ w \in Seq(Accepts(c)) /\ ForHolds(c, w) /\ c.data \in Seq(Int) /\ c.base \in Int
      /\ Len(c.data) = Len(w) /\ DOMAIN c.data = 1 .. Len(w) /\ Len(w) \in Nat
  BY Fields DEF Fits, Holds, ForHolds
<1>2. ASSUME NEW i \in 1 .. Len(w) PROVE values[i] = c.base + c.data[i] /\ values[i] \in Int
  BY <1>1 DEF ForValue
<1>3. values = [i \in 1 .. Len(w) |-> values[i]]
  BY <1>1
<1>4. ForToRaw(c) = RawWith(c, "for", values)
  BY DEF ForToRaw
<1> HIDE DEF values
<1>5. values \in Seq(Int) /\ Len(values) = Len(w)
  BY <1>1, <1>2, <1>3, SeqPointwise
<1>6. \A i \in 1 .. Len(w) : w[i] # Null => w[i] = values[i]
  BY <1>1, <1>2 DEF ForHolds
<1>7. LET d == RawWith(c, "for", values)
      IN  Fits(d, w) /\ d.mode = "raw" /\ d.nulls = c.nulls /\ d.kind = c.kind
  BY <1>1, <1>5, <1>6, RawFits
<1> QED
  BY <1>4, <1>7

\* Values whose distance from the base the width holds, in windows.
Shows(values, w) == \A i \in 1 .. Len(w) : w[i] # Null => w[i] = values[i]
InWindows(values, base, width) ==
  \A i \in 1 .. Len(values) : base <= values[i] /\ values[i] - base < Power[width]
LEMMA PackedFits ==
  ASSUME ColumnAssumption, NEW c \in ColumnType, Tries(c, "for"), NEW w \in Seq(Accepts(c)),
         NEW values \in Seq(Int), Len(values) = Len(w), Shows(values, w), NEW base \in Int,
         NEW width \in 1 .. MaxBits, InWindows(values, base, width),
         NEW d, d = Packed(c, values, base, width)
  PROVE  /\ Fits(d, w) /\ d.mode = "for" /\ d.nulls = c.nulls /\ d.kind = c.kind
         /\ d.base = base /\ d.width = width
<1> DEFINE windows == [k \in DOMAIN values |-> (values[k] - base) % Power[width]]
<1>1. DOMAIN values = 1 .. Len(w) /\ Len(w) \in Nat /\ Len(values) \in Nat
  OBVIOUS
<1>2. ASSUME NEW k \in 1 .. Len(w)
      PROVE  windows[k] = values[k] - base /\ windows[k] \in 0 .. Power[width] - 1 /\ windows[k] \in Int
             /\ values[k] = base + windows[k]
  <2>1. values[k] \in Int /\ values[k] - base \in Nat /\ values[k] - base < Power[width]
    BY <1>1 DEF InWindows
  <2>2. windows[k] = (values[k] - base) % Power[width]
    BY <1>1
  <2>3. (values[k] - base) % Power[width] = values[k] - base /\ values[k] - base \in 0 .. Power[width] - 1
    BY <2>1, Windowed
  <2> HIDE DEF windows
  <2> QED
    BY <2>1, <2>2, <2>3
<1>3. d = [c EXCEPT !.mode = "for", !.base = base, !.width = width, !.cache = NoCache, !.data = windows]
  BY DEF Packed
<1>4. windows = [k \in 1 .. Len(w) |-> windows[k]]
  BY <1>1
<1> HIDE DEF windows
<1>5. windows \in Seq(Int) /\ Len(windows) = Len(w) /\ DOMAIN windows = 1 .. Len(w)
  BY <1>1, <1>2, <1>4, SeqPointwise
<1>6. IsRecord(d)
  BY <1>3, Record DEF IsRecord, FieldNames
<1>7. /\ d.mode = "for" /\ d.nulls = c.nulls /\ d.kind = c.kind /\ d.data = windows
      /\ d.cache = NoCache /\ d.given = c.given /\ d.values = c.values /\ d.base = base
      /\ d.last = c.last /\ d.width = width /\ d.seen = c.seen /\ d.lo = c.lo /\ d.hi = c.hi
  BY <1>3, Record DEF IsRecord, FieldNames
<1>8. d \in ColumnType /\ Accepts(d) = Accepts(c)
  <2>1. d.mode \in Modes /\ d.width \in Nat /\ d.cache \in {NoCache} \cup Seq(Int)
    BY <1>7 DEF Modes
  <2> QED
    BY <1>5, <1>6, <1>7, <2>1, Fields, IsColumnStill
<1>9. ForHolds(d, w)
  <2>1. \A i \in 1 .. Len(w) : w[i] # Null => w[i] = d.base + d.data[i]
    BY <1>2, <1>7 DEF Shows
  <2> QED
    BY <1>5, <1>7, <2>1 DEF ForHolds
<1>10. Encodable(d)
  <2>1. Tries(d, "for")
    BY <1>7 DEF Tries
  <2>2. d.width <= MaxBits
    BY <1>7, Powers
  <2>3. \A i \in DOMAIN d.data : d.data[i] \in 0 .. Power[d.width] - 1
    BY <1>2, <1>5, <1>7
  <2> QED
    BY <1>7, <2>1, <2>2, <2>3 DEF Encodable
<1>11. Holds(d, w)
  BY <1>7, <1>9 DEF Holds
<1> QED
  BY <1>7, <1>8, <1>10, <1>11 DEF Fits

\* A window for a new row.
LEMMA ForPush ==
  ASSUME ColumnAssumption, NEW c, NEW w, Fits(c, w), c.mode = "for",
         NEW v \in Int, c.base <= v, v - c.base < Power[c.width], NEW x \in Accepts(c) \cap {v, Null}
  PROVE  LET d == AppendFor(c, v)
         IN  Fits(d, Append(w, x)) /\ d.nulls = c.nulls /\ d.kind = c.kind
<1> DEFINE d == AppendFor(c, v)
           z == Append(w, x)
           window == (v - c.base) % Power[c.width]
<1>1. /\ c \in ColumnType /\ w \in Seq(Accepts(c)) /\ ForHolds(c, w) /\ Encodable(c) /\ c.data \in Seq(Int)
      /\ c.base \in Int /\ c.width \in 1 .. MaxBits /\ Len(c.data) = Len(w) /\ Len(w) \in Nat
      /\ DOMAIN c.data = 1 .. Len(w)
  BY Fields DEF Fits, Holds, ForHolds
<1>2. window = v - c.base /\ window \in 0 .. Power[c.width] - 1 /\ window \in Int /\ v = c.base + window
  <2>1. v - c.base \in Nat
    BY <1>1
  <2>2. (v - c.base) % Power[c.width] = v - c.base /\ v - c.base \in 0 .. Power[c.width] - 1
    BY <1>1, <2>1, Windowed
  <2> QED
    BY <1>1, <2>1, <2>2
<1>3. d = [c EXCEPT !.data = Append(@, window), !.cache = NoCache]
  BY DEF AppendFor
<1> HIDE DEF d, z, window
<1>4. IsRecord(d)
  BY <1>1, <1>3, Record DEF IsRecord, FieldNames
<1>5. /\ d.mode = "for" /\ d.nulls = c.nulls /\ d.kind = c.kind /\ d.data = Append(c.data, window)
      /\ d.cache = NoCache /\ d.given = c.given /\ d.values = c.values /\ d.base = c.base
      /\ d.last = c.last /\ d.width = c.width /\ d.seen = c.seen /\ d.lo = c.lo /\ d.hi = c.hi
  BY <1>1, <1>3, Record DEF IsRecord, FieldNames
<1>6. /\ z \in Seq(Accepts(c)) /\ Len(z) = Len(w) + 1 /\ (\A k \in 1 .. Len(w) : z[k] = w[k]) /\ z[Len(w) + 1] = x
  BY <1>1, SeqPush DEF z
<1>7. /\ d.data \in Seq(Int) /\ Len(d.data) = Len(w) + 1
      /\ (\A k \in 1 .. Len(w) : d.data[k] = c.data[k]) /\ d.data[Len(w) + 1] = window
      /\ DOMAIN d.data = 1 .. Len(w) + 1
  <2> DEFINE s == c.data
  <2>1. s \in Seq(Int) /\ Len(s) = Len(w) /\ window \in Int /\ d.data = Append(s, window)
    BY <1>1, <1>2, <1>5
  <2> HIDE DEF s
  <2>2. /\ Append(s, window) \in Seq(Int) /\ Len(Append(s, window)) = Len(s) + 1
        /\ (\A k \in 1 .. Len(s) : Append(s, window)[k] = s[k]) /\ Append(s, window)[Len(s) + 1] = window
    BY <2>1, SeqPush
  <2>3. /\ d.data \in Seq(Int) /\ Len(d.data) = Len(w) + 1
        /\ (\A k \in 1 .. Len(w) : d.data[k] = s[k]) /\ d.data[Len(w) + 1] = window
    BY <2>1, <2>2
  <2>4. DOMAIN d.data = 1 .. Len(w) + 1
    BY <2>3
  <2> QED
    BY <2>3, <2>4 DEF s
<1>8. d \in ColumnType /\ Accepts(d) = Accepts(c)
  <2>1. d.mode \in Modes /\ d.cache \in {NoCache} \cup Seq(Int)
    BY <1>5 DEF Modes
  <2> QED
    BY <1>1, <1>4, <1>5, <1>7, <2>1, Fields, IsColumnStill
<1>9. ForHolds(d, z)
  <2>1. ASSUME NEW k \in 1 .. Len(z), z[k] # Null PROVE z[k] = d.base + d.data[k]
    <3>1. k \in 1 .. Len(w) \/ k = Len(w) + 1
      BY <1>1, <1>6
    <3>2. CASE k \in 1 .. Len(w)
      <4>1. z[k] = w[k] /\ w[k] # Null /\ d.data[k] = c.data[k] /\ d.base = c.base
        BY <1>5, <1>6, <1>7, <2>1, <3>2
      <4> QED
        BY <1>1, <3>2, <4>1 DEF ForHolds
    <3>3. CASE k = Len(w) + 1
      BY <1>2, <1>5, <1>6, <1>7, <2>1, <3>3
    <3> QED
      BY <3>1, <3>2, <3>3
  <2> QED
    BY <1>1, <1>5, <1>6, <1>7, <2>1 DEF ForHolds
<1>10. Encodable(d)
  <2>1. Tries(d, "for") /\ d.width <= MaxBits
    BY <1>1, <1>5 DEF Tries, Encodable
  <2>2. ASSUME NEW k \in DOMAIN d.data PROVE d.data[k] \in 0 .. Power[d.width] - 1
    <3>1. k \in 1 .. Len(w) \/ k = Len(w) + 1
      BY <1>1, <1>7
    <3>2. CASE k \in 1 .. Len(w)
      BY <1>1, <1>5, <1>7, <3>2 DEF Encodable
    <3>3. CASE k = Len(w) + 1
      BY <1>2, <1>5, <1>7, <3>3
    <3> QED
      BY <3>1, <3>2, <3>3
  <2> QED
    BY <1>5, <2>1, <2>2 DEF Encodable
<1>11. Holds(d, z)
  BY <1>5, <1>9 DEF Holds
<1> QED
  BY <1>5, <1>6, <1>8, <1>10, <1>11 DEF Fits, d, z

\* A null takes the window of the base.
LEMMA ForNull ==
  ASSUME ColumnAssumption, NEW c, NEW w, Fits(c, w), c.mode = "for"
  PROVE  LET d == AppendFor(c, c.base)
         IN  Fits(d, Append(w, Null)) /\ d.nulls = c.nulls /\ d.kind = c.kind
<1>1. c.base \in Int /\ c.width \in 1 .. MaxBits
  BY Fields DEF Fits, Holds, ForHolds
<1>2. Power[c.width] \in Nat \ {0}
  BY <1>1, Powers
<1>3. c.base <= c.base /\ c.base - c.base < Power[c.width]
  BY <1>1, <1>2
<1>4. Null \in Accepts(c) \cap {c.base, Null}
  BY DEF Accepts
<1> QED
  BY <1>1, <1>3, <1>4, ForPush

\* Widening keeps the values.
LEMMA ForWiden ==
  ASSUME ColumnAssumption, NEW c, NEW w, Fits(c, w), c.mode = "for",
         NEW delta \in Nat, ~TooWide(delta), delta >= Power[c.width]
  PROVE  LET d == Widen(c, delta)
         IN  /\ Fits(d, w) /\ d.mode = "for" /\ d.nulls = c.nulls /\ d.kind = c.kind
             /\ d.base = c.base /\ delta < Power[d.width]
<1> DEFINE values == [i \in DOMAIN c.data |-> ForValue(c, i)]
           width == Bits(delta)
<1>1. /\ c \in ColumnType /\ w \in Seq(Accepts(c)) /\ ForHolds(c, w) /\ Encodable(c) /\ Tries(c, "for")
      /\ c.data \in Seq(Int) /\ c.base \in Int /\ c.width \in 1 .. MaxBits
      /\ Len(c.data) = Len(w) /\ DOMAIN c.data = 1 .. Len(w) /\ Len(w) \in Nat
  BY Fields DEF Fits, Holds, ForHolds, Encodable
<1>2. width \in 1 .. MaxBits /\ delta < Power[width] /\ Power[width] \in Nat /\ Power[c.width] \in Nat
  BY <1>1, BitsHold, Powers
<1>3. ASSUME NEW i \in 1 .. Len(w)
      PROVE  /\ values[i] = c.base + c.data[i] /\ values[i] \in Int
             /\ c.base <= values[i] /\ values[i] - c.base < Power[width]
  <2>1. values[i] = c.base + c.data[i]
    BY <1>1 DEF ForValue
  <2>2. c.data[i] \in 0 .. Power[c.width] - 1
    BY <1>1 DEF Encodable
  <2> DEFINE p == Power[c.width]
             q == Power[width]
  <2>3. p \in Nat /\ q \in Nat /\ p <= delta /\ delta < q /\ c.data[i] \in 0 .. p - 1
    BY <1>2, <2>2
  <2> HIDE DEF values, width, p, q
  <2> DEFINE x == c.data[i]
             b == c.base
             y == values[i]
  <2>4. x \in 0 .. p - 1 /\ b \in Int /\ y = b + x
    BY <1>1, <2>1, <2>3
  <2> HIDE DEF x, b, y
  <2>5. x \in Nat /\ x < q
    <3>1. x \in Nat /\ x < p
      BY <2>3, <2>4
    <3> QED
      BY <2>3, <3>1
  <2>6. b <= y /\ y - b < q /\ y \in Int
    BY <2>4, <2>5
  <2> QED
    BY <2>1, <2>6 DEF q, b, y
<1>4. values = [i \in 1 .. Len(w) |-> values[i]]
  BY <1>1
<1>5. Widen(c, delta) = Packed(c, values, c.base, width)
  BY DEF Widen
<1> HIDE DEF values, width
<1>6. values \in Seq(Int) /\ Len(values) = Len(w)
  BY <1>1, <1>3, <1>4, SeqPointwise
<1>7. Shows(values, w)
  BY <1>1, <1>3 DEF ForHolds, Shows
<1>8. InWindows(values, c.base, width)
  BY <1>3, <1>6 DEF InWindows
<1> DEFINE d == Widen(c, delta)
<1> HIDE DEF d
<1>9. d = Packed(c, values, c.base, width)
  BY <1>5 DEF d
<1>10. /\ Fits(d, w) /\ d.mode = "for" /\ d.nulls = c.nulls /\ d.kind = c.kind
       /\ d.base = c.base /\ d.width = width
  BY <1>1, <1>2, <1>6, <1>7, <1>8, <1>9, PackedFits
<1> QED
  BY <1>2, <1>10 DEF d

\* Appending to a column of windows.
LEMMA ForAppend ==
  ASSUME ColumnAssumption, NEW c, NEW w, Fits(c, w), c.mode = "for", NEW v \in Int \cap Accepts(c)
  PROVE  LET d == PackFor(c, v)
         IN  Fits(d, Append(w, v)) /\ d.nulls = c.nulls /\ d.kind = c.kind
<1> DEFINE delta == v - c.base
<1>1. /\ c.base \in Int /\ c.width \in 1 .. MaxBits /\ delta \in Int /\ c.base + delta = v
      /\ v \in Accepts(c) \cap {v, Null}
  <2>1. c \in ColumnType /\ ForHolds(c, w)
    BY DEF Fits, Holds
  <2>2. c.base \in Int
    BY <2>1, Fields
  <2>3. c.width \in 1 .. MaxBits
    BY <2>1 DEF ForHolds
  <2>4. delta \in Int /\ c.base + delta = v
    BY <2>2
  <2> QED
    BY <2>2, <2>3, <2>4
<1>2. Power[c.width] \in Nat
  BY <1>1, Powers
<1>3. CASE delta < 0 \/ TooWide(delta)
  <2> DEFINE r == ForToRaw(c)
  <2>1. Fits(r, w) /\ r.mode = "raw" /\ r.nulls = c.nulls /\ r.kind = c.kind
    BY ForFits
  <2>2. PackFor(c, v) = Pushed(r, v)
    BY <1>3 DEF PackFor
  <2>3. Accepts(r) = Accepts(c)
    BY <2>1 DEF Accepts
  <2> HIDE DEF r
  <2>4. Fits(Pushed(r, v), Append(w, v)) /\ Pushed(r, v).nulls = r.nulls /\ Pushed(r, v).kind = r.kind
    BY <1>1, <2>1, <2>3, RawPush
  <2> QED
    BY <2>1, <2>2, <2>4
<1>4. CASE ~(delta < 0 \/ TooWide(delta)) /\ delta >= Power[c.width]
  <2> DEFINE r == Widen(c, delta)
  <2>1. delta \in Nat
    BY <1>1, <1>4
  <2>2. /\ Fits(r, w) /\ r.mode = "for" /\ r.nulls = c.nulls /\ r.kind = c.kind
        /\ r.base = c.base /\ delta < Power[r.width]
    BY <1>4, <2>1, ForWiden
  <2>3. PackFor(c, v) = AppendFor(r, v)
    BY <1>4 DEF PackFor
  <2>4. Accepts(r) = Accepts(c)
    BY <2>2 DEF Accepts
  <2> HIDE DEF r
  <2>5. r.base <= v /\ v - r.base < Power[r.width] /\ v \in Accepts(r) \cap {v, Null}
    BY <1>1, <2>1, <2>2, <2>4
  <2>6. Fits(AppendFor(r, v), Append(w, v)) /\ AppendFor(r, v).nulls = r.nulls /\ AppendFor(r, v).kind = r.kind
    BY <2>2, <2>5, ForPush
  <2> QED
    BY <2>2, <2>3, <2>6
<1>5. CASE ~(delta < 0 \/ TooWide(delta)) /\ ~(delta >= Power[c.width])
  <2>1. PackFor(c, v) = AppendFor(c, v)
    BY <1>5 DEF PackFor
  <2>2. c.base <= v /\ v - c.base < Power[c.width]
    BY <1>1, <1>2, <1>5
  <2>3. Fits(AppendFor(c, v), Append(w, v)) /\ AppendFor(c, v).nulls = c.nulls /\ AppendFor(c, v).kind = c.kind
    BY <1>1, <2>2, ForPush
  <2> QED
    BY <2>1, <2>3
<1> QED
  BY <1>3, <1>4, <1>5

\* Packing the values of a column.
LEMMA ForStart ==
  ASSUME ColumnAssumption, NEW c, NEW w, Fits(c, w), c.mode = "raw", c.data # <<>>, Tries(c, "for")
  PROVE  LET d == StartFor(c)
         IN  Fits(d, w) /\ d.nulls = c.nulls /\ d.kind = c.kind
<1> DEFINE low == Min(Range(c.data))
           range == Max(Range(c.data)) - low
<1>1. /\ c \in ColumnType /\ w \in Seq(Accepts(c)) /\ RawHolds(c, w) /\ c.data \in Seq(Int)
      /\ Len(c.data) = Len(w) /\ DOMAIN c.data = 1 .. Len(w) /\ \A i \in 1 .. Len(w) : c.data[i] \in Int
  BY Fields DEF Fits, Holds, RawHolds
<1>2. /\ low \in Int /\ range \in Nat
      /\ \A i \in 1 .. Len(w) : low <= c.data[i] /\ c.data[i] - low <= range
  <2> DEFINE s == c.data
  <2>1. PICK a, z \in DOMAIN s : /\ Min(Range(s)) = s[a] /\ Max(Range(s)) = s[z]
                                 /\ \A k \in DOMAIN s : s[a] <= s[k] /\ s[k] <= s[z]
    BY <1>1, RangeBounds
  <2>2. s[a] \in Int /\ s[z] \in Int /\ \A k \in 1 .. Len(w) : s[k] \in Int /\ s[a] <= s[k] /\ s[k] <= s[z]
    BY <1>1, <2>1
  <2>3. low = s[a] /\ range = s[z] - s[a]
    BY <2>1
  <2> HIDE DEF low, range
  <2>4. s[a] <= s[z]
    BY <2>1
  <2>5. ASSUME NEW i \in 1 .. Len(w) PROVE low <= s[i] /\ s[i] - low <= range
    <3>1. s[a] <= s[i] /\ s[i] <= s[z] /\ s[i] \in Int
      BY <2>2
    <3> QED
      BY <2>2, <2>3, <3>1
  <2> QED
    BY <2>2, <2>3, <2>4, <2>5
<1>3. StartFor(c) = IF TooWide(range) THEN [c EXCEPT !.given = @ \cup {"for"}]
                    ELSE Packed(c, c.data, low, Bits(range))
  BY DEF StartFor
<1> HIDE DEF low, range
<1>4. CASE TooWide(range)
  <2>1. LET d == [c EXCEPT !.given = @ \cup {"for"}] IN Fits(d, w) /\ d.nulls = c.nulls /\ d.kind = c.kind
    BY RawGivesUp
  <2> QED
    BY <1>3, <1>4, <2>1
<1>5. CASE ~TooWide(range)
  <2>1. Bits(range) \in 1 .. MaxBits /\ range < Power[Bits(range)] /\ Power[Bits(range)] \in Nat
    BY <1>2, <1>5, BitsHold, Powers
  <2>2. \A i \in 1 .. Len(w) : low <= c.data[i] /\ c.data[i] - low < Power[Bits(range)]
    <3>1. ASSUME NEW i \in 1 .. Len(w) PROVE low <= c.data[i] /\ c.data[i] - low < Power[Bits(range)]
      <4> DEFINE x == c.data[i]
                 p == Power[Bits(range)]
      <4>1. x \in Int /\ low \in Int /\ low <= x /\ x - low <= range /\ range \in Nat /\ p \in Nat /\ range < p
        BY <1>1, <1>2, <2>1
      <4> HIDE DEF x, p
      <4>2. x - low < p
        BY <4>1
      <4> QED
        BY <4>1, <4>2 DEF x, p
    <3> QED
      BY <3>1
  <2>3. \A i \in 1 .. Len(w) : w[i] # Null => w[i] = c.data[i]
    BY <1>1 DEF RawHolds
  <2> DEFINE d == StartFor(c)
             width == Bits(range)
             values == c.data
  <2>4. d = Packed(c, values, low, width)
    BY <1>3, <1>5
  <2>5. values \in Seq(Int) /\ Len(values) = Len(w) /\ width \in 1 .. MaxBits
        /\ InWindows(values, low, width) /\ Shows(values, w)
    BY <1>1, <2>1, <2>2, <2>3 DEF InWindows, Shows
  <2> HIDE DEF d, values, width
  <2>6. Fits(d, w) /\ d.nulls = c.nulls /\ d.kind = c.kind
    BY <1>1, <1>2, <2>4, <2>5, PackedFits
  <2> QED
    BY <2>6 DEF d
<1> QED
  BY <1>4, <1>5

\* Appending to a column that is still tried for windows: the statistics decide,
\* and change nothing that is read.
LEMMA ForSample ==
  ASSUME ColumnAssumption, NEW c, NEW w, Fits(c, w), c.mode = "raw", Tries(c, "for"), NEW v \in Int \cap Accepts(c)
  PROVE  LET e == SampleFor(c, v)
         IN  Fits(e, Append(w, v)) /\ e.nulls = c.nulls /\ e.kind = c.kind
<1> DEFINE p == Pushed(c, v)
           seen == c.seen + 1
           lo == IF c.seen = 0 \/ v < c.lo THEN v ELSE c.lo
           hi == IF c.seen = 0 \/ v > c.hi THEN v ELSE c.hi
           d == [p EXCEPT !.seen = seen, !.lo = lo, !.hi = hi]
           z == Append(w, v)
<1>1. v \in Accepts(c) \cap {v, Null} /\ c \in ColumnType /\ c.data \in Seq(Int)
  BY Fields DEF Fits
<1>2. /\ Fits(p, z) /\ p.mode = "raw" /\ p.nulls = c.nulls /\ p.kind = c.kind /\ p.given = c.given
      /\ p.data = Append(c.data, v) /\ p.seen = c.seen /\ p.lo = c.lo /\ p.hi = c.hi
  BY <1>1, RawPush
<1>3. seen \in Nat /\ lo \in Int /\ hi \in Int
  BY <1>1, Fields
<1>4. [Pushed(c, v) EXCEPT !.seen = @ + 1,
                           !.lo = IF c.seen = 0 \/ v < @ THEN v ELSE @,
                           !.hi = IF c.seen = 0 \/ v > @ THEN v ELSE @] = d
  <2> HIDE DEF p
  <2>1. [p EXCEPT !.seen = @ + 1,
                  !.lo = IF c.seen = 0 \/ v < @ THEN v ELSE @,
                  !.hi = IF c.seen = 0 \/ v > @ THEN v ELSE @] = d
    BY <1>2
  <2> QED
    BY <2>1 DEF p
<1>5. SampleFor(c, v) = IF d.seen < ForThreshold THEN d
                        ELSE IF TooWide(d.hi - d.lo) THEN [d EXCEPT !.given = @ \cup {"for"}]
                        ELSE StartFor(d)
  <2> HIDE DEF d
  <2> QED
    BY <1>4 DEF SampleFor
<1> HIDE DEF p, seen, lo, hi
<1>6. /\ Fits(d, z) /\ d.mode = "raw" /\ d.nulls = p.nulls /\ d.kind = p.kind
      /\ d.given = p.given /\ d.data = p.data
  <2>1. p \in ColumnType
    BY <1>2 DEF Fits
  <2>2. /\ IsRecord(d) /\ d.mode = p.mode /\ d.nulls = p.nulls /\ d.kind = p.kind /\ d.data = p.data
        /\ d.cache = p.cache /\ d.given = p.given /\ d.values = p.values /\ d.base = p.base
        /\ d.last = p.last /\ d.width = p.width /\ d.seen = seen /\ d.lo = lo /\ d.hi = hi
    BY <2>1, Record DEF IsRecord, FieldNames
  <2> HIDE DEF d, z
  <2>3. p.nulls \in Seq(BOOLEAN)
    BY <2>1, Fields
  <2>4. Fits(d, z)
    BY <1>2, <1>3, <2>2, <2>3, FitsStill
  <2> QED
    BY <1>2, <2>2, <2>4
<1>7. d.data # <<>> /\ Tries(d, "for")
  <2>1. Append(c.data, v) # <<>>
    BY <1>1
  <2> HIDE DEF d
  <2> QED
    BY <1>2, <1>6, <2>1 DEF Tries
<1> HIDE DEF d, z
<1>8. Fits(StartFor(d), z) /\ StartFor(d).nulls = d.nulls /\ StartFor(d).kind = d.kind
  BY <1>6, <1>7, ForStart
<1>9. LET e == [d EXCEPT !.given = @ \cup {"for"}] IN Fits(e, z) /\ e.nulls = d.nulls /\ e.kind = d.kind
  BY <1>6, RawGivesUp
<1>10. SampleFor(c, v) \in {d, [d EXCEPT !.given = @ \cup {"for"}], StartFor(d)}
  BY <1>5
<1> QED
  BY <1>2, <1>6, <1>8, <1>9, <1>10 DEF z


-----------------------------------------------------------------------------
(* Every call on a column.                                                 *)

\* A column starts with nothing written.
LEMMA NewGood ==
  ASSUME NEW kind \in Kinds
  PROVE  Good(NewColumn(kind), <<>>) /\ NewColumn(kind).kind = kind
<1> DEFINE c == NewColumn(kind)
<1>1. /\ c.kind = kind /\ c.mode = (IF kind \in {"bool", "dict"} THEN kind ELSE "raw") /\ c.nulls = <<>>
      /\ c.data = <<>> /\ c.values = <<>> /\ c.base = 0 /\ c.last = 0 /\ c.width = 0 /\ c.cache = NoCache
      /\ c.given = {} /\ c.seen = 0 /\ c.lo = 0 /\ c.hi = 0 /\ IsRecord(c)
  BY DEF NewColumn, IsRecord, FieldNames
<1> HIDE DEF c
<1>2. c.mode \in {"raw", "bool", "dict"} /\ (c.mode = "bool" => kind = "bool") /\ (c.mode = "dict" => kind = "dict")
  BY <1>1
<1>3. c \in ColumnType
  <2>1. c.mode \in Modes /\ c.nulls \in Seq(BOOLEAN) /\ c.data \in Seq(Int) /\ c.values \in Seq(Int)
    BY <1>1, <1>2 DEF Modes
  <2>2. c.cache \in {NoCache} \cup Seq(Int) /\ c.given \in SUBSET {"dict", "delta", "for"} /\ c.width \in Nat
        /\ c.base \in Int /\ c.last \in Int /\ c.seen \in Nat /\ c.lo \in Int /\ c.hi \in Int /\ c.kind \in Kinds
    BY <1>1
  <2> QED
    BY <1>1, <2>1, <2>2, IsColumn
<1>4. Encodable(c)
  <2>1. Len(c.values) = 0 /\ DictThreshold \in Nat
    BY <1>1, ColumnAssumption DEF ColumnAssumption
  <2> QED
    BY <1>1, <1>2, <2>1 DEF Encodable
<1>5. Holds(c, <<>>)
  <2>1. Len(c.data) = 0 /\ Len(<<>>) = 0
    BY <1>1
  <2> QED
    BY <1>1, <1>2, <2>1 DEF Holds, BoolHolds, DictHolds, RawHolds
<1>6. Len(c.nulls) = Len(<<>>) /\ \A i \in 1 .. Len(<<>>) : c.nulls[i] = (<<>>[i] = Null)
  BY <1>1
<1> QED
  BY <1>1, <1>3, <1>4, <1>5, <1>6 DEF Good, Fits, c

\* A null fits whatever is there.
LEMMA BoolNull ==
  ASSUME NEW c, NEW w, Fits(c, w), c.mode = "bool"
  PROVE  Fits(c, Append(w, Null))
<1> DEFINE z == Append(w, Null)
<1>1. c \in ColumnType /\ w \in Seq(Accepts(c)) /\ Encodable(c) /\ BoolHolds(c, w) /\ Len(w) \in Nat
      /\ Null \in Accepts(c) /\ Len(c.data) \in Nat
  BY Fields DEF Fits, Holds, Accepts
<1>2. /\ z \in Seq(Accepts(c)) /\ Len(z) = Len(w) + 1 /\ (\A k \in 1 .. Len(w) : z[k] = w[k]) /\ z[Len(w) + 1] = Null
  BY <1>1, SeqPush
<1> HIDE DEF z
<1>3. \A i \in 1 .. Len(z) : i \in 1 .. Len(w) \/ i = Len(w) + 1
  BY <1>1, <1>2
<1>4. BoolHolds(c, z)
  BY <1>1, <1>2, <1>3 DEF BoolHolds
<1> QED
  BY <1>1, <1>2, <1>4 DEF Fits, Holds, z

LEMMA NullFits ==
  ASSUME NEW c, NEW w, Fits(c, w), NEW i \in 1 .. Len(w)
  PROVE  Fits(c, [w EXCEPT ![i] = Null])
<1> DEFINE z == [w EXCEPT ![i] = Null]
<1>1. c \in ColumnType /\ w \in Seq(Accepts(c)) /\ Encodable(c) /\ Holds(c, w) /\ Null \in Accepts(c)
  BY DEF Fits, Accepts
<1>2. z \in Seq(Accepts(c)) /\ Len(z) = Len(w) /\ \A k \in 1 .. Len(w) : z[k] = IF k = i THEN Null ELSE w[k]
  BY <1>1, SeqPut
<1> HIDE DEF z
<1>3. \A k \in 1 .. Len(z) : k \in 1 .. Len(w) /\ (z[k] # Null => w[k] # Null /\ z[k] = w[k])
  BY <1>2
<1>4. BoolHolds(c, w) => BoolHolds(c, z)
  BY <1>2, <1>3 DEF BoolHolds
<1>5. DictHolds(c, w) => DictHolds(c, z)
  BY <1>2, <1>3 DEF DictHolds
<1>6. DeltaHolds(c, w) => DeltaHolds(c, z)
  BY <1>2, <1>3 DEF DeltaHolds
<1>7. ForHolds(c, w) => ForHolds(c, z)
  BY <1>2, <1>3 DEF ForHolds
<1>8. RawHolds(c, w) => RawHolds(c, z)
  BY <1>2, <1>3 DEF RawHolds
<1>9. Holds(c, z)
  BY <1>1, <1>4, <1>5, <1>6, <1>7, <1>8 DEF Holds
<1> QED
  BY <1>1, <1>2, <1>9 DEF Fits, z

\* Appending, but for the null mask.
LEMMA NullAppended ==
  ASSUME ColumnAssumption, NEW c, NEW w, Fits(c, w)
  PROVE  LET e == AppendNull(c) IN Fits(e, Append(w, Null)) /\ e.nulls = c.nulls /\ e.kind = c.kind
<1> DEFINE e == AppendNull(c)
<1>1. /\ c \in ColumnType /\ c.mode \in Modes /\ w \in Seq(Accepts(c)) /\ Null \in Accepts(c)
      /\ Encodable(c) /\ Holds(c, w)
  BY Fields DEF Fits, Accepts
<1>2. CASE c.mode = "bool"
  <2>1. e = c
    BY <1>2 DEF AppendNull
  <2> HIDE DEF e
  <2> QED
    BY <1>2, <2>1, BoolNull DEF e
<1>3. CASE c.mode = "delta"
  <2>1. e = [Pushed(c, 0) EXCEPT !.cache = NoCache]
    BY <1>3 DEF AppendNull
  <2> QED
    BY <1>3, <2>1, DeltaNull
<1>4. CASE c.mode = "for"
  <2>1. e = AppendFor(c, c.base)
    BY <1>4 DEF AppendNull
  <2> QED
    BY <1>4, <2>1, ForNull
<1>5. CASE c.mode = "dict"
  <2>1. e = Pushed(c, 0)
    BY <1>5 DEF AppendNull
  <2>2. DictHolds(c, w)
    BY <1>1, <1>5 DEF Holds
  <2>3. Fits(Pushed(c, 0), Append(w, Null)) /\ Pushed(c, 0).nulls = c.nulls /\ Pushed(c, 0).kind = c.kind
    BY <1>1, <1>5, <2>2, DictPush
  <2> QED
    BY <2>1, <2>3
<1>6. CASE c.mode = "raw"
  <2>1. e = Pushed(c, 0)
    BY <1>6 DEF AppendNull
  <2>2. Null \in Accepts(c) \cap {0, Null} /\ 0 \in Int
    BY <1>1
  <2>3. Fits(Pushed(c, 0), Append(w, Null)) /\ Pushed(c, 0).nulls = c.nulls /\ Pushed(c, 0).kind = c.kind
    BY <1>6, <2>2, RawPush
  <2> QED
    BY <2>1, <2>3
<1> QED
  BY <1>1, <1>2, <1>3, <1>4, <1>5, <1>6 DEF Modes

LEMMA ValueAppended ==
  ASSUME ColumnAssumption, NEW c, NEW w, Fits(c, w), Rows(c) = Len(w) + 1, NEW v \in Accepts(c), v # Null
  PROVE  LET e == AppendValue(c, v) IN Fits(e, Append(w, v)) /\ e.nulls = c.nulls /\ e.kind = c.kind
<1> DEFINE e == AppendValue(c, v)
<1>1. /\ c \in ColumnType /\ c.mode \in Modes /\ w \in Seq(Accepts(c)) /\ v \in Int \cap Accepts(c)
      /\ Null \in Accepts(c) /\ Len(w) \in Nat
  BY Fields DEF Fits, Accepts
<1>2. CASE c.mode = "bool"
  <2> DEFINE y == Append(w, Null)
             i == Len(w) + 1
  <2>1. e = Bit(c, i, v)
    BY <1>2 DEF AppendValue
  <2>2. c.kind = "bool"
    BY <1>2 DEF Fits, Holds, BoolHolds
  <2>3. v \in {0, 1} /\ v \in {v, Null}
    BY <2>2 DEF Accepts
  <2>4. /\ y \in Seq(Accepts(c)) /\ Len(y) = i /\ i \in 1 .. i /\ (\A k \in 1 .. Len(w) : y[k] = w[k])
    BY <1>1, SeqPush
  <2>5. /\ Append(w, v) \in Seq(Accepts(c)) /\ Len(Append(w, v)) = i
        /\ (\A k \in 1 .. Len(w) : Append(w, v)[k] = w[k]) /\ Append(w, v)[i] = v
    BY <1>1, SeqPush
  <2>6. Fits(c, y)
    BY <1>2, BoolNull
  <2> HIDE DEF y, e
  <2>7. Fits(Bit(c, i, v), [y EXCEPT ![i] = v]) /\ Bit(c, i, v).nulls = c.nulls /\ Bit(c, i, v).kind = c.kind
    <3> HIDE DEF i
    <3>1. i \in 1 .. Len(y)
      BY <2>4
    <3> QED
      BY <1>2, <2>3, <2>6, <3>1, BoolPut
  <2>8. [y EXCEPT ![i] = v] = Append(w, v)
    <3> DEFINE p == [y EXCEPT ![i] = v]
               q == Append(w, v)
    <3>1. p \in Seq(Accepts(c)) /\ Len(p) = i /\ \A k \in 1 .. i : p[k] = IF k = i THEN v ELSE y[k]
      BY <1>1, <2>4, SeqPut
    <3>2. \A k \in 1 .. i : p[k] = q[k]
      <4>1. ASSUME NEW k \in 1 .. i PROVE p[k] = q[k]
        <5>1. k \in 1 .. Len(w) \/ k = i
          BY <1>1
        <5> HIDE DEF p, q
        <5> QED
          BY <2>4, <2>5, <3>1, <5>1 DEF q
      <4> QED
        BY <4>1
    <3>3. q \in Seq(Accepts(c)) /\ Len(q) = i
      BY <2>5
    <3> HIDE DEF p, q
    <3>4. p = q
      BY <3>1, <3>2, <3>3
    <3> QED
      BY <3>4 DEF p, q
  <2> QED
    BY <2>1, <2>7, <2>8 DEF e
<1>3. CASE c.mode = "dict"
  <2>1. e = AppendDict(c, v)
    BY <1>3 DEF AppendValue
  <2> QED
    BY <1>1, <1>3, <2>1, DictAppend
<1>4. CASE c.mode = "delta"
  <2>1. e = AppendDelta(c, v)
    BY <1>4 DEF AppendValue
  <2> QED
    BY <1>1, <1>4, <2>1, DeltaAppend
<1>5. CASE c.mode = "for"
  <2>1. e = PackFor(c, v)
    BY <1>5 DEF AppendValue
  <2> QED
    BY <1>1, <1>5, <2>1, ForAppend
<1>6. CASE c.mode = "raw" /\ Tries(c, "delta")
  <2>1. e = SampleDelta(c, v)
    BY <1>6 DEF AppendValue
  <2> QED
    BY <1>1, <1>6, <2>1, DeltaSample
<1>7. CASE c.mode = "raw" /\ ~Tries(c, "delta") /\ Tries(c, "for")
  <2>1. e = SampleFor(c, v)
    BY <1>7 DEF AppendValue
  <2> QED
    BY <1>1, <1>7, <2>1, ForSample
<1>8. CASE c.mode = "raw" /\ ~Tries(c, "delta") /\ ~Tries(c, "for")
  <2>1. e = Pushed(c, v)
    BY <1>8 DEF AppendValue
  <2>2. v \in Accepts(c) \cap {v, Null}
    BY <1>1
  <2>3. Fits(Pushed(c, v), Append(w, v)) /\ Pushed(c, v).nulls = c.nulls /\ Pushed(c, v).kind = c.kind
    BY <1>1, <1>8, <2>2, RawPush
  <2> QED
    BY <2>1, <2>3
<1> QED
  BY <1>1, <1>2, <1>3, <1>4, <1>5, <1>6, <1>7, <1>8 DEF Modes

\* append: the column holds one more value.
LEMMA AppendGood ==
  ASSUME ColumnAssumption, NEW c, NEW w, Good(c, w), NEW v \in Accepts(c)
  PROVE  Good(AppendTo(c, v), Append(w, v)) /\ AppendTo(c, v).kind = c.kind
<1> DEFINE n == (v = Null)
           d == [c EXCEPT !.nulls = Append(@, v = Null)]
           e == IF v = Null THEN AppendNull(d) ELSE AppendValue(d, v)
           z == Append(w, v)
<1>1. c \in ColumnType /\ Fits(c, w) /\ c.nulls \in Seq(BOOLEAN) /\ Len(c.nulls) = Len(w) /\ w \in Seq(Accepts(c))
      /\ Len(w) \in Nat
  BY Fields DEF Good, Fits
<1>2. n \in BOOLEAN
  OBVIOUS
<1>3. /\ IsRecord(d) /\ d.mode = c.mode /\ d.nulls = Append(c.nulls, n) /\ d.kind = c.kind /\ d.data = c.data
      /\ d.cache = c.cache /\ d.given = c.given /\ d.values = c.values /\ d.base = c.base
      /\ d.last = c.last /\ d.width = c.width /\ d.seen = c.seen /\ d.lo = c.lo /\ d.hi = c.hi
  BY <1>1, Record DEF IsRecord, FieldNames
<1>4. AppendTo(c, v) = e
  BY DEF AppendTo
<1> HIDE DEF d
<1>5. /\ d.nulls \in Seq(BOOLEAN) /\ Len(d.nulls) = Len(w) + 1
      /\ (\A k \in 1 .. Len(w) : d.nulls[k] = c.nulls[k]) /\ d.nulls[Len(w) + 1] = n
  <2> HIDE DEF n
  <2> QED
    BY <1>1, <1>2, <1>3, SeqPush
<1>6. Fits(d, w)
  <2> HIDE DEF n
  <2> QED
    BY <1>1, <1>3, <1>5, Fields, FitsStill
<1>7. Rows(d) = Len(w) + 1 /\ v \in Accepts(d)
  BY <1>3, <1>5 DEF Rows, Accepts
<1>8. Fits(e, z) /\ e.nulls = d.nulls /\ e.kind = d.kind
  <2>1. CASE v = Null
    BY <1>6, <2>1, NullAppended
  <2>2. CASE v # Null
    BY <1>6, <1>7, <2>2, ValueAppended
  <2> QED
    BY <2>1, <2>2
<1>9. Len(z) = Len(w) + 1 /\ (\A k \in 1 .. Len(w) : z[k] = w[k]) /\ z[Len(w) + 1] = v
  BY <1>1, SeqPush
<1> HIDE DEF e, z
<1>10. ASSUME NEW k \in 1 .. Len(z) PROVE e.nulls[k] = (z[k] = Null)
  <2>1. k \in 1 .. Len(w) \/ k = Len(w) + 1
    BY <1>1, <1>9
  <2>2. CASE k \in 1 .. Len(w)
    BY <1>5, <1>8, <1>9, <2>2 DEF Good
  <2>3. CASE k = Len(w) + 1
    BY <1>5, <1>8, <1>9, <2>3
  <2> QED
    BY <2>1, <2>2, <2>3
<1>11. Good(e, z)
  BY <1>5, <1>8, <1>9, <1>10 DEF Good
<1> QED
  BY <1>3, <1>4, <1>8, <1>11 DEF z


\* Reading all rows caches what was reconstructed.
LEMMA CachedGood ==
  ASSUME NEW c, NEW w, Good(c, w), NEW modes \in SUBSET {"delta", "for"}
  PROVE  LET d == Cached(c, modes)
         IN  /\ Good(d, w) /\ d.kind = c.kind /\ d.nulls = c.nulls /\ d.mode = c.mode
             /\ c.mode \in modes => d.cache = Decoded(c)
<1> DEFINE d == Cached(c, modes)
<1>1. /\ c \in ColumnType /\ Fits(c, w) /\ c.nulls \in Seq(BOOLEAN)
      /\ c.mode \in {"delta", "for"} => c.cache \in {NoCache, Decoded(c)}
  BY Fields DEF Good, Fits, Holds, DeltaHolds, ForHolds, Decoded
<1>2. CASE c.mode \in modes /\ c.cache = NoCache
  <2>1. d = [c EXCEPT !.cache = Decoded(c)]
    BY <1>2 DEF Cached
  <2> HIDE DEF d
  <2>2. /\ IsRecord(d) /\ d.mode = c.mode /\ d.nulls = c.nulls /\ d.kind = c.kind /\ d.data = c.data
        /\ d.cache = Decoded(c) /\ d.given = c.given /\ d.values = c.values /\ d.base = c.base
        /\ d.last = c.last /\ d.width = c.width /\ d.seen = c.seen /\ d.lo = c.lo /\ d.hi = c.hi
    BY <1>1, <2>1, Record DEF IsRecord, FieldNames
  <2>3. c.seen \in Nat /\ c.lo \in Int /\ c.hi \in Int /\ c.mode \in {"delta", "for"}
    BY <1>1, <1>2, Fields
  <2>4. Fits(d, w)
    BY <1>1, <2>2, <2>3, FitsStill
  <2>5. Good(d, w)
    BY <2>2, <2>4 DEF Good
  <2> QED
    BY <2>2, <2>5 DEF d
<1>3. CASE ~(c.mode \in modes /\ c.cache = NoCache)
  <2>1. d = c
    BY <1>3 DEF Cached
  <2> HIDE DEF d
  <2>2. c.mode \in modes => d.cache = Decoded(c)
    BY <1>1, <1>3, <2>1
  <2> QED
    BY <2>1, <2>2 DEF d
<1> QED
  BY <1>2, <1>3

\* Writing a row, but for the null mask.
LEMMA NullSet ==
  ASSUME NEW c, NEW w, Fits(c, w), NEW i \in 1 .. Len(w)
  PROVE  LET e == SetNull(c, i) IN Fits(e, [w EXCEPT ![i] = Null]) /\ e.nulls = c.nulls /\ e.kind = c.kind
<1> DEFINE e == SetNull(c, i)
           z == [w EXCEPT ![i] = Null]
<1>1. /\ c \in ColumnType /\ c.mode \in Modes /\ w \in Seq(Accepts(c)) /\ Null \in Accepts(c)
      /\ Encodable(c) /\ Holds(c, w)
  BY Fields DEF Fits, Accepts
<1>2. CASE c.mode = "bool"
  <2>1. e = Bit(c, i, 0)
    BY <1>2 DEF SetNull
  <2>2. Null \in {0, Null} /\ 0 \in {0, 1}
    OBVIOUS
  <2>3. Fits(Bit(c, i, 0), z) /\ Bit(c, i, 0).nulls = c.nulls /\ Bit(c, i, 0).kind = c.kind
    BY <1>2, <2>2, BoolPut
  <2> QED
    BY <2>1, <2>3
<1>3. CASE c.mode \in {"delta", "for"}
  <2>1. e = c
    BY <1>3 DEF SetNull
  <2> HIDE DEF e
  <2> QED
    BY <2>1, NullFits DEF e
<1>4. CASE c.mode = "dict"
  <2>1. e = Put(c, i, 0)
    BY <1>4 DEF SetNull
  <2>2. DictHolds(c, w)
    BY <1>1, <1>4 DEF Holds
  <2>3. Fits(Put(c, i, 0), z) /\ Put(c, i, 0).nulls = c.nulls /\ Put(c, i, 0).kind = c.kind
    BY <1>1, <1>4, <2>2, DictPut
  <2> QED
    BY <2>1, <2>3
<1>5. CASE c.mode = "raw"
  <2>1. e = Put(c, i, 0)
    BY <1>5 DEF SetNull
  <2>2. Null \in Accepts(c) \cap {0, Null} /\ 0 \in Int
    BY <1>1
  <2>3. Fits(Put(c, i, 0), z) /\ Put(c, i, 0).nulls = c.nulls /\ Put(c, i, 0).kind = c.kind
    BY <1>5, <2>2, RawPut
  <2> QED
    BY <2>1, <2>3
<1> QED
  BY <1>1, <1>2, <1>3, <1>4, <1>5 DEF Modes

LEMMA ValueSet ==
  ASSUME NEW c, NEW w, Fits(c, w), NEW i \in 1 .. Len(w), NEW v \in Accepts(c), v # Null
  PROVE  LET e == SetValue(c, i, v) IN Fits(e, [w EXCEPT ![i] = v]) /\ e.nulls = c.nulls /\ e.kind = c.kind
<1> DEFINE e == SetValue(c, i, v)
           z == [w EXCEPT ![i] = v]
<1>1. /\ c \in ColumnType /\ c.mode \in Modes /\ w \in Seq(Accepts(c)) /\ v \in Int \cap Accepts(c)
  BY Fields DEF Fits, Accepts
<1>2. CASE c.mode = "bool"
  <2>1. e = Bit(c, i, v)
    BY <1>2 DEF SetValue
  <2>2. c.kind = "bool"
    BY <1>2 DEF Fits, Holds, BoolHolds
  <2>3. v \in {0, 1} /\ v \in {v, Null}
    BY <2>2 DEF Accepts
  <2>4. Fits(Bit(c, i, v), z) /\ Bit(c, i, v).nulls = c.nulls /\ Bit(c, i, v).kind = c.kind
    BY <1>2, <2>3, BoolPut
  <2> QED
    BY <2>1, <2>4
<1>3. CASE c.mode = "dict"
  BY <1>1, <1>3, DictSet
<1>4. CASE c.mode \in {"delta", "for"}
  <2> DEFINE r == Unpacked(c)
  <2>1. e = Put(r, i, v)
    BY <1>4 DEF SetValue
  <2>2. Fits(r, w) /\ r.mode = "raw" /\ r.nulls = c.nulls /\ r.kind = c.kind
    <3>1. CASE c.mode = "delta"
      <4>1. r = DeltaToRaw(c)
        BY <3>1 DEF Unpacked
      <4> QED
        BY <3>1, <4>1, DeltaFits
    <3>2. CASE c.mode = "for"
      <4>1. r = ForToRaw(c)
        BY <3>2 DEF Unpacked
      <4> QED
        BY <3>2, <4>1, ForFits
    <3> QED
      BY <1>4, <3>1, <3>2
  <2> HIDE DEF r
  <2>3. v \in Accepts(r) \cap {v, Null}
    BY <1>1, <2>2 DEF Accepts
  <2>4. Fits(Put(r, i, v), z) /\ Put(r, i, v).nulls = r.nulls /\ Put(r, i, v).kind = r.kind
    BY <1>1, <2>2, <2>3, RawPut
  <2> QED
    BY <2>1, <2>2, <2>4
<1>5. CASE c.mode = "raw"
  <2>1. e = Put(c, i, v)
    BY <1>5 DEF SetValue
  <2>2. v \in Accepts(c) \cap {v, Null}
    BY <1>1
  <2>3. Fits(Put(c, i, v), z) /\ Put(c, i, v).nulls = c.nulls /\ Put(c, i, v).kind = c.kind
    BY <1>1, <1>5, <2>2, RawPut
  <2> QED
    BY <2>1, <2>3
<1> QED
  BY <1>1, <1>2, <1>3, <1>4, <1>5 DEF Modes

\* __setitem__: the row holds the value, and the others what they held.
LEMMA SetGood ==
  ASSUME NEW c, NEW w, Good(c, w), NEW i \in 1 .. Len(w), NEW v \in Accepts(c)
  PROVE  Good(SetAt(c, i, v), [w EXCEPT ![i] = v]) /\ SetAt(c, i, v).kind = c.kind
<1> DEFINE n == (v = Null)
           d == [c EXCEPT !.nulls[i] = (v = Null)]
           e == IF v = Null THEN SetNull(d, i) ELSE SetValue(d, i, v)
           z == [w EXCEPT ![i] = v]
<1>1. c \in ColumnType /\ Fits(c, w) /\ c.nulls \in Seq(BOOLEAN) /\ Len(c.nulls) = Len(w) /\ w \in Seq(Accepts(c))
      /\ Len(w) \in Nat /\ i \in 1 .. Len(c.nulls)
  BY Fields DEF Good, Fits
<1>2. n \in BOOLEAN
  OBVIOUS
<1>3. /\ IsRecord(d) /\ d.mode = c.mode /\ d.nulls = [c.nulls EXCEPT ![i] = n] /\ d.kind = c.kind /\ d.data = c.data
      /\ d.cache = c.cache /\ d.given = c.given /\ d.values = c.values /\ d.base = c.base
      /\ d.last = c.last /\ d.width = c.width /\ d.seen = c.seen /\ d.lo = c.lo /\ d.hi = c.hi
  BY <1>1, Record DEF IsRecord, FieldNames
<1>4. SetAt(c, i, v) = e
  BY DEF SetAt
<1> HIDE DEF d
<1>5. /\ d.nulls \in Seq(BOOLEAN) /\ Len(d.nulls) = Len(w)
      /\ \A k \in 1 .. Len(w) : d.nulls[k] = IF k = i THEN n ELSE c.nulls[k]
  <2> HIDE DEF n
  <2> QED
    BY <1>1, <1>2, <1>3, SeqPut
<1>6. Fits(d, w)
  <2> HIDE DEF n
  <2> QED
    BY <1>1, <1>3, <1>5, Fields, FitsStill
<1>7. v \in Accepts(d)
  BY <1>3 DEF Accepts
<1>8. Fits(e, z) /\ e.nulls = d.nulls /\ e.kind = d.kind
  <2>1. CASE v = Null
    <3>1. e = SetNull(d, i) /\ z = [w EXCEPT ![i] = Null]
      BY <2>1
    <3>2. Fits(SetNull(d, i), [w EXCEPT ![i] = Null]) /\ SetNull(d, i).nulls = d.nulls /\ SetNull(d, i).kind = d.kind
      BY <1>6, NullSet
    <3> HIDE DEF e, z
    <3> QED
      BY <3>1, <3>2
  <2>2. CASE v # Null
    <3>1. e = SetValue(d, i, v)
      BY <2>2
    <3>2. Fits(SetValue(d, i, v), z) /\ SetValue(d, i, v).nulls = d.nulls /\ SetValue(d, i, v).kind = d.kind
      BY <1>6, <1>7, <2>2, ValueSet
    <3> HIDE DEF e, z
    <3> QED
      BY <3>1, <3>2
  <2> QED
    BY <2>1, <2>2
<1>9. Len(z) = Len(w) /\ \A k \in 1 .. Len(w) : z[k] = IF k = i THEN v ELSE w[k]
  BY <1>1, SeqPut
<1> HIDE DEF e, z
<1>10. ASSUME NEW k \in 1 .. Len(z) PROVE e.nulls[k] = (z[k] = Null)
  BY <1>5, <1>8, <1>9 DEF Good
<1>11. Good(e, z)
  BY <1>5, <1>8, <1>9, <1>10 DEF Good
<1> QED
  BY <1>3, <1>4, <1>8, <1>11 DEF z

\* A row reads as what was written to it,
LEMMA GoodGets ==
  ASSUME NEW c, NEW w, Good(c, w), NEW i \in 1 .. Len(w)
  PROVE  Get(c, i) = w[i]
<1>1. /\ c \in ColumnType /\ Holds(c, w) /\ c.mode \in Modes /\ c.nulls[i] = (w[i] = Null)
      /\ c.data \in Seq(Int) /\ c.values \in Seq(Int) /\ i \in Nat /\ Len(w) \in Nat /\ w \in Seq(Accepts(c))
  BY Fields DEF Good, Fits
<1>2. CASE w[i] = Null
  BY <1>1, <1>2 DEF Get
<1>3. CASE w[i] # Null /\ c.mode = "bool"
  BY <1>1, <1>3 DEF Get, Holds, BoolHolds
<1>4. CASE w[i] # Null /\ c.mode = "dict"
  <2>1. Get(c, i) = IF i \in DOMAIN c.data THEN At(c.values, c.data[i] + 1) ELSE Raises
    BY <1>1, <1>4 DEF Get
  <2>2. /\ i \in DOMAIN c.data /\ c.data[i] \in Nat /\ c.data[i] < Len(c.values)
        /\ w[i] = c.values[c.data[i] + 1]
    BY <1>1, <1>4 DEF Holds, DictHolds
  <2>3. c.data[i] + 1 \in DOMAIN c.values
    BY <1>1, <2>2
  <2> QED
    BY <2>1, <2>2, <2>3 DEF At
<1>5. CASE w[i] # Null /\ c.mode = "delta"
  <2>1. Get(c, i) = At(RowsCached(c).cache, i)
    BY <1>1, <1>5 DEF Get
  <2>2. RowsCached(c).cache = Summed(c)
    BY <1>5, CachedGood DEF RowsCached, Decoded
  <2>3. Summed(c) \in Seq(Int) /\ Len(Summed(c)) = Len(w)
    BY <1>5, DeltaDecoded DEF Good
  <2>4. w[i] = Summed(c)[i]
    BY <1>1, <1>5 DEF Holds, DeltaHolds
  <2>5. i \in DOMAIN Summed(c)
    BY <2>3
  <2> QED
    BY <2>1, <2>2, <2>4, <2>5 DEF At
<1>6. CASE w[i] # Null /\ c.mode = "for"
  <2>1. Get(c, i) = ForValue(c, i)
    BY <1>1, <1>6 DEF Get
  <2>2. i <= Len(c.data) /\ w[i] = c.base + c.data[i]
    BY <1>1, <1>6 DEF Holds, ForHolds
  <2> QED
    BY <2>1, <2>2 DEF ForValue
<1>7. CASE w[i] # Null /\ c.mode = "raw"
  <2>1. Get(c, i) = At(c.data, i)
    BY <1>1, <1>7 DEF Get
  <2>2. i \in DOMAIN c.data /\ w[i] = c.data[i]
    BY <1>1, <1>7 DEF Holds, RawHolds
  <2> QED
    BY <2>1, <2>2 DEF At
<1> QED
  BY <1>1, <1>2, <1>3, <1>4, <1>5, <1>6, <1>7 DEF Modes

\* in an aggregate too.
LEMMA GoodAggregates ==
  ASSUME NEW c, NEW w, Good(c, w), Null \notin Range(w)
  PROVE  Aggregated(c) = w
<1>1. /\ c \in ColumnType /\ Holds(c, w) /\ c.mode \in Modes /\ Rows(c) = Len(w)
      /\ c.data \in Seq(Int) /\ c.base \in Int /\ Len(w) \in Nat /\ w \in Seq(Accepts(c))
  BY Fields DEF Good, Fits, Rows
<1>2. \A i \in 1 .. Len(w) : w[i] # Null
  BY <1>1 DEF Range
<1>3. w = [i \in 1 .. Len(w) |-> w[i]]
  BY <1>1
<1>4. CASE c.mode = "raw"
  <2>1. Aggregated(c) = c.data
    BY <1>4 DEF Aggregated
  <2>2. Len(c.data) = Len(w) /\ \A i \in 1 .. Len(w) : w[i] = c.data[i]
    BY <1>1, <1>2, <1>4 DEF Holds, RawHolds
  <2> QED
    BY <1>1, <2>1, <2>2
<1>5. CASE c.mode \in {"delta", "for"}
  <2>1. Aggregated(c) = AllCached(c).cache
    BY <1>5 DEF Aggregated
  <2>2. AllCached(c).cache = Decoded(c)
    BY <1>5, CachedGood DEF AllCached
  <2>3. Decoded(c) \in Seq(Int) /\ Len(Decoded(c)) = Len(w) /\ \A i \in 1 .. Len(w) : w[i] = Decoded(c)[i]
    <3>1. CASE c.mode = "delta"
      <4>1. Decoded(c) = Summed(c) /\ Fits(c, w)
        BY <3>1 DEF Decoded, Good
      <4>2. Summed(c) \in Seq(Int) /\ Len(Summed(c)) = Len(w)
        BY <3>1, <4>1, DeltaDecoded
      <4>3. \A i \in 1 .. Len(w) : w[i] = Summed(c)[i]
        BY <1>1, <1>2, <3>1 DEF Holds, DeltaHolds
      <4> QED
        BY <4>1, <4>2, <4>3
    <3>2. CASE c.mode = "for"
      <4> DEFINE values == [i \in DOMAIN c.data |-> ForValue(c, i)]
      <4>1. DOMAIN c.data = 1 .. Len(w) /\ \A i \in 1 .. Len(w) : w[i] = c.base + c.data[i]
        BY <1>1, <1>2, <3>2 DEF Holds, ForHolds
      <4>2. \A i \in 1 .. Len(w) : i <= Len(c.data) /\ c.data[i] \in Int
        BY <1>1, <4>1
      <4>3. \A i \in 1 .. Len(w) : ForValue(c, i) = w[i] /\ ForValue(c, i) \in Int
        BY <1>1, <4>1, <4>2 DEF ForValue
      <4>4. Decoded(c) = values /\ values = [i \in 1 .. Len(w) |-> values[i]]
            /\ \A i \in 1 .. Len(w) : values[i] = w[i] /\ values[i] \in Int
        BY <3>2, <4>1, <4>3 DEF Decoded
      <4> HIDE DEF values
      <4>5. values \in Seq(Int) /\ Len(values) = Len(w)
        BY <1>1, <4>4, SeqPointwise
      <4> QED
        BY <4>4, <4>5
    <3> QED
      BY <1>5, <3>1, <3>2
  <2> DEFINE s == Decoded(c)
  <2> HIDE DEF s
  <2>4. s \in Seq(Int) /\ Len(s) = Len(w) /\ \A i \in 1 .. Len(w) : w[i] = s[i]
    BY <2>3 DEF s
  <2>5. s = w
    BY <1>1, <2>4
  <2> QED
    BY <2>1, <2>2, <2>5 DEF s
<1>6. CASE c.mode \in {"bool", "dict"}
  <2>1. Aggregated(c) = [i \in 1 .. Len(w) |-> Get(c, i)]
    BY <1>1, <1>6 DEF Aggregated
  <2>2. \A i \in 1 .. Len(w) : Get(c, i) = w[i]
    BY GoodGets
  <2> QED
    BY <1>3, <2>1, <2>2
<1> QED
  BY <1>1, <1>4, <1>5, <1>6 DEF Modes


\* The columns after each of several writes.
AfterWrites(f, n, c, places, v) == f = [m \in 0 .. n |-> IF m = 0 THEN c ELSE SetAt(f[m - 1], places[m], v)]

LEMMA SetAllExists ==
  ASSUME NEW size \in Nat, NEW c, NEW places, NEW v
  PROVE  \A n \in 0 .. size : \E f : AfterWrites(f, n, c, places, v)
<1> DEFINE Q(f, n) == f = [m \in 0 .. n |-> IF m = 0 THEN c ELSE SetAt(f[m - 1], places[m], v)]
           P == {n \in 0 .. size : \E f : Q(f, n)}
<1>1. 0 \in P
  <2> DEFINE g == [m \in 0 .. 0 |-> c]
  <2>1. Q(g, 0)
    <3>1. \A m \in 0 .. 0 : m = 0 /\ g[m] = IF m = 0 THEN c ELSE SetAt(g[m - 1], places[m], v)
      OBVIOUS
    <3>2. g = [m \in 0 .. 0 |-> g[m]]
      OBVIOUS
    <3> HIDE DEF g
    <3> QED
      BY <3>1, <3>2
  <2> HIDE DEF Q
  <2> QED
    BY <2>1
<1>2. ASSUME NEW n \in 0 .. size - 1, n \in P
      PROVE  n + 1 \in P
  <2>1. PICK f : Q(f, n)
    BY <1>2
  <2> DEFINE g == [m \in 0 .. n + 1 |-> IF m <= n THEN f[m] ELSE SetAt(f[m - 1], places[m], v)]
  <2>2. \A m \in 0 .. n : f[m] = IF m = 0 THEN c ELSE SetAt(f[m - 1], places[m], v)
    BY <2>1
  <2>3. \A m \in 0 .. n + 1 : g[m] = IF m = 0 THEN c ELSE SetAt(g[m - 1], places[m], v)
    <3>1. ASSUME NEW m \in 0 .. n + 1 PROVE g[m] = IF m = 0 THEN c ELSE SetAt(g[m - 1], places[m], v)
      <4>1. m # 0 => m - 1 \in 0 .. n /\ g[m - 1] = f[m - 1]
        OBVIOUS
      <4>2. CASE m <= n
        BY <2>2, <4>1, <4>2
      <4>3. CASE ~(m <= n)
        BY <4>1, <4>3
      <4> QED
        BY <4>2, <4>3
    <3> QED
      BY <3>1
  <2>4. g = [m \in 0 .. n + 1 |-> g[m]]
    OBVIOUS
  <2> HIDE DEF g
  <2>5. Q(g, n + 1)
    BY <2>3, <2>4
  <2> HIDE DEF Q
  <2> QED
    BY <2>5
<1>3. \A n \in 0 .. size : n \in P
  <2> HIDE DEF P
  <2> QED
    BY <1>1, <1>2, NatUpTo
<1> QED
  BY <1>3 DEF AfterWrites

\* batch_update of one column.
LEMMA SetAllGood ==
  ASSUME NEW c, NEW w, Good(c, w), NEW places \in Seq(1 .. Len(w)), NEW v \in Accepts(c)
  PROVE  LET z == [i \in DOMAIN w |-> IF i \in Range(places) THEN v ELSE w[i]]
         IN  Good(SetAll(c, places, v), z) /\ SetAll(c, places, v).kind = c.kind
<1> DEFINE size == Len(places)
           Q(f) == f = [n \in 0 .. size |-> IF n = 0 THEN c ELSE SetAt(f[n - 1], places[n], v)]
           after == CHOOSE f : Q(f)
           Marked(n) == [i \in 1 .. Len(w) |-> IF \E k \in 1 .. n : places[k] = i THEN v ELSE w[i]]
           P == {n \in 0 .. size : Good(after[n], Marked(n)) /\ after[n].kind = c.kind}
<1>1. size \in Nat /\ (\A n \in 1 .. size : places[n] \in 1 .. Len(w)) /\ w \in Seq(Accepts(c)) /\ Len(w) \in Nat
      /\ DOMAIN w = 1 .. Len(w) /\ DOMAIN places = 1 .. size
  BY DEF Good, Fits
<1>2. SetAll(c, places, v) = after[size]
  BY DEF SetAll
<1> HIDE DEF size
<1>3. Q(after)
  <2>1. size \in 0 .. size
    BY <1>1
  <2>2. \E f : AfterWrites(f, size, c, places, v)
    BY <1>1, <2>1, SetAllExists
  <2>3. \E f : Q(f)
    BY <2>2 DEF AfterWrites
  <2> HIDE DEF Q
  <2> QED
    BY <2>3
<1> HIDE DEF after
<1>4. \A n \in 0 .. size : after[n] = IF n = 0 THEN c ELSE SetAt(after[n - 1], places[n], v)
  BY <1>3
<1>5. 0 \in P
  <2>1. after[0] = c
    BY <1>1, <1>4
  <2>2. Marked(0) = w
    BY <1>1
  <2>3. 0 \in 0 .. size
    BY <1>1
  <2> HIDE DEF Marked
  <2> QED
    BY <2>1, <2>2, <2>3
<1>6. ASSUME NEW n \in 0 .. size - 1, n \in P PROVE n + 1 \in P
  <2> DEFINE y == Marked(n)
             z == Marked(n + 1)
             p == places[n + 1]
             a == after[n]
  <2>1. n + 1 \in 1 .. size /\ (n + 1) - 1 = n /\ n + 1 \in 0 .. size /\ n + 1 # 0
    BY <1>1
  <2>2. p \in 1 .. Len(w) /\ after[n + 1] = SetAt(a, p, v)
    BY <1>1, <1>4, <2>1
  <2>3. Good(a, y) /\ a.kind = c.kind
    BY <1>6
  <2>4. y \in Seq(Accepts(c)) /\ Len(y) = Len(w) /\ \A i \in 1 .. Len(w) : y[i] = IF \E k \in 1 .. n : places[k] = i THEN v ELSE w[i]
    <3>1. \A i \in 1 .. Len(w) : y[i] = IF \E k \in 1 .. n : places[k] = i THEN v ELSE w[i]
      OBVIOUS
    <3>2. y = [i \in 1 .. Len(w) |-> y[i]]
      OBVIOUS
    <3> HIDE DEF y
    <3>3. \A i \in 1 .. Len(w) : y[i] \in Accepts(c)
      BY <1>1, <3>1
    <3> QED
      BY <1>1, <3>1, <3>2, <3>3, SeqPointwise
  <2>5. z = [i \in 1 .. Len(w) |-> z[i]]
        /\ \A i \in 1 .. Len(w) : z[i] = IF \E k \in 1 .. n + 1 : places[k] = i THEN v ELSE w[i]
    OBVIOUS
  <2> HIDE DEF y, z, a, p, Marked
  <2>6. p \in 1 .. Len(y) /\ v \in Accepts(a)
    BY <2>2, <2>3, <2>4 DEF Accepts
  <2>7. Good(SetAt(a, p, v), [y EXCEPT ![p] = v]) /\ SetAt(a, p, v).kind = a.kind
    BY <2>3, <2>6, SetGood
  <2>8. [y EXCEPT ![p] = v] = z
    <3> DEFINE x == [y EXCEPT ![p] = v]
    <3>1. x \in Seq(Accepts(c)) /\ Len(x) = Len(w) /\ \A i \in 1 .. Len(w) : x[i] = IF i = p THEN v ELSE y[i]
      BY <2>4, <2>6, SeqPut
    <3> HIDE DEF x
    <3>2. ASSUME NEW i \in 1 .. Len(w) PROVE x[i] = z[i]
      <4>1. (\E k \in 1 .. n + 1 : places[k] = i) <=> i = p \/ \E k \in 1 .. n : places[k] = i
        <5>1. \A k : k \in 1 .. n + 1 <=> k \in 1 .. n \/ k = n + 1
          BY <1>1
        <5> QED
          BY <5>1 DEF p
      <4>2. CASE i = p
        BY <2>5, <3>1, <4>1, <4>2
      <4>3. CASE i # p
        BY <2>4, <2>5, <3>1, <4>1, <4>3
      <4> QED
        BY <4>2, <4>3
    <3>3. x = [i \in 1 .. Len(w) |-> x[i]]
      BY <3>1
    <3> QED
      BY <2>5, <3>2, <3>3 DEF x
  <2> QED
    BY <2>1, <2>2, <2>3, <2>7, <2>8 DEF z
<1>7. \A n \in 0 .. size : n \in P
  <2> HIDE DEF P
  <2> QED
    BY <1>1, <1>5, <1>6, NatUpTo
<1>8. [i \in DOMAIN w |-> IF i \in Range(places) THEN v ELSE w[i]] = Marked(size)
  <2>1. \A i : i \in Range(places) <=> \E k \in 1 .. size : places[k] = i
    BY <1>1 DEF Range
  <2> QED
    BY <1>1, <2>1
<1>9. size \in P
  <2>1. size \in 0 .. size
    BY <1>1
  <2> HIDE DEF P
  <2> QED
    BY <1>7, <2>1
<1> QED
  <2> HIDE DEF Marked
  <2> QED
    BY <1>2, <1>8, <1>9

\* The columns after each of several appends.
AfterAppends(f, n, c, values) == f = [m \in 0 .. n |-> IF m = 0 THEN c ELSE AppendTo(f[m - 1], values[m])]

LEMMA FilledExists ==
  ASSUME NEW size \in Nat, NEW c, NEW values
  PROVE  \A n \in 0 .. size : \E f : AfterAppends(f, n, c, values)
<1> DEFINE Q(f, n) == f = [m \in 0 .. n |-> IF m = 0 THEN c ELSE AppendTo(f[m - 1], values[m])]
           P == {n \in 0 .. size : \E f : Q(f, n)}
<1>1. 0 \in P
  <2> DEFINE g == [m \in 0 .. 0 |-> c]
  <2>1. Q(g, 0)
    <3>1. \A m \in 0 .. 0 : m = 0 /\ g[m] = IF m = 0 THEN c ELSE AppendTo(g[m - 1], values[m])
      OBVIOUS
    <3>2. g = [m \in 0 .. 0 |-> g[m]]
      OBVIOUS
    <3> HIDE DEF g
    <3> QED
      BY <3>1, <3>2
  <2> HIDE DEF Q
  <2> QED
    BY <2>1
<1>2. ASSUME NEW n \in 0 .. size - 1, n \in P
      PROVE  n + 1 \in P
  <2>1. PICK f : Q(f, n)
    BY <1>2
  <2> DEFINE g == [m \in 0 .. n + 1 |-> IF m <= n THEN f[m] ELSE AppendTo(f[m - 1], values[m])]
  <2>2. \A m \in 0 .. n : f[m] = IF m = 0 THEN c ELSE AppendTo(f[m - 1], values[m])
    BY <2>1
  <2>3. \A m \in 0 .. n + 1 : g[m] = IF m = 0 THEN c ELSE AppendTo(g[m - 1], values[m])
    <3>1. ASSUME NEW m \in 0 .. n + 1 PROVE g[m] = IF m = 0 THEN c ELSE AppendTo(g[m - 1], values[m])
      <4>1. m # 0 => m - 1 \in 0 .. n /\ g[m - 1] = f[m - 1]
        OBVIOUS
      <4>2. CASE m <= n
        BY <2>2, <4>1, <4>2
      <4>3. CASE ~(m <= n)
        BY <4>1, <4>3
      <4> QED
        BY <4>2, <4>3
    <3> QED
      BY <3>1
  <2>4. g = [m \in 0 .. n + 1 |-> g[m]]
    OBVIOUS
  <2> HIDE DEF g
  <2>5. Q(g, n + 1)
    BY <2>3, <2>4
  <2> HIDE DEF Q
  <2> QED
    BY <2>5
<1>3. \A n \in 0 .. size : n \in P
  <2> HIDE DEF P
  <2> QED
    BY <1>1, <1>2, NatUpTo
<1> QED
  BY <1>3 DEF AfterAppends

\* A column that is loaded again.
LEMMA FilledGood ==
  ASSUME ColumnAssumption, NEW kind \in Kinds, NEW values \in Seq(Accepts(NewColumn(kind)))
  PROVE  Good(Filled(kind, values), values) /\ Filled(kind, values).kind = kind
<1> DEFINE size == Len(values)
           c == NewColumn(kind)
           S == Accepts(c)
           Q(f) == f = [n \in 0 .. size |-> IF n = 0 THEN c ELSE AppendTo(f[n - 1], values[n])]
           after == CHOOSE f : Q(f)
           First(n) == SubSeq(values, 1, n)
           P == {n \in 0 .. size : Good(after[n], First(n)) /\ after[n].kind = kind}
<1>1. size \in Nat /\ (\A n \in 1 .. size : values[n] \in S) /\ values \in Seq(S)
  OBVIOUS
<1>2. Filled(kind, values) = after[size]
  BY DEF Filled
<1> HIDE DEF size
<1>3. Q(after)
  <2>1. size \in 0 .. size
    BY <1>1
  <2> HIDE DEF c
  <2>2. \E f : AfterAppends(f, size, c, values)
    BY <1>1, <2>1, FilledExists
  <2>3. \E f : Q(f)
    BY <2>2 DEF AfterAppends
  <2> HIDE DEF Q
  <2> QED
    BY <2>3
<1> HIDE DEF after
<1>4. Good(c, <<>>) /\ c.kind = kind
  BY NewGood
<1> HIDE DEF S, c
<1>5. \A n \in 0 .. size : after[n] = IF n = 0 THEN c ELSE AppendTo(after[n - 1], values[n])
  BY <1>3
<1>6. 0 \in P
  <2>1. after[0] = c
    BY <1>1, <1>5
  <2>2. First(0) = <<>>
    BY <1>1
  <2>3. 0 \in 0 .. size
    BY <1>1
  <2> HIDE DEF First
  <2> QED
    BY <1>4, <2>1, <2>2, <2>3
<1>7. ASSUME NEW n \in 0 .. size - 1, n \in P PROVE n + 1 \in P
  <2> DEFINE a == after[n]
             v == values[n + 1]
  <2>1. n + 1 \in 1 .. size /\ (n + 1) - 1 = n /\ n + 1 \in 0 .. size /\ n + 1 # 0
    BY <1>1
  <2>2. v \in S /\ after[n + 1] = AppendTo(a, v)
    BY <1>1, <1>5, <2>1
  <2>3. Good(a, First(n)) /\ a.kind = kind
    BY <1>7
  <2>4. v \in Accepts(a)
    BY <1>4, <2>2, <2>3 DEF Accepts, S
  <2>5. First(n + 1) = Append(First(n), v)
    BY <1>1, <2>1 DEF size
  <2> HIDE DEF First, a, v
  <2>6. Good(AppendTo(a, v), Append(First(n), v)) /\ AppendTo(a, v).kind = a.kind
    BY <2>3, <2>4, AppendGood
  <2> QED
    BY <2>1, <2>2, <2>3, <2>5, <2>6
<1>8. \A n \in 0 .. size : n \in P
  <2> HIDE DEF P
  <2> QED
    BY <1>1, <1>6, <1>7, NatUpTo
<1>9. size \in P
  <2>1. size \in 0 .. size
    BY <1>1
  <2> HIDE DEF P
  <2> QED
    BY <1>8, <2>1
<1>10. First(size) = values
  BY <1>1 DEF size
<1> QED
  <2> HIDE DEF First
  <2> QED
    BY <1>2, <1>9, <1>10


-----------------------------------------------------------------------------
(* Compaction.                                                             *)

\* The rows of a set, in order.
LEMMA InOrderSorts ==
  ASSUME NEW S \in SUBSET Int, IsFiniteSet(S)
  PROVE  /\ InOrder(S) \in Seq(S) /\ Len(InOrder(S)) = Cardinality(S)
         /\ \A e \in S : \E n \in 1..Len(InOrder(S)) : InOrder(S)[n] = e
         /\ \A m, n \in 1..Len(InOrder(S)) : m < n => InOrder(S)[m] < InOrder(S)[n]
<1>1. InOrder(S) = ByRank(S)
  BY Zenon DEF InOrder, ByRank
<1> QED
  BY <1>1, ByRankSorts

\* What is left of a sequence.
LEMMA KeptRows ==
  ASSUME NEW S, NEW s \in Seq(S), NEW r \in Seq(1 .. Len(s))
  PROVE  /\ Kept(s, r) \in Seq(S) /\ Len(Kept(s, r)) = Len(r) /\ DOMAIN Kept(s, r) = 1 .. Len(r)
         /\ \A k \in 1 .. Len(r) : Kept(s, r)[k] = s[r[k]] /\ r[k] \in 1 .. Len(s)
<1> DEFINE z == Kept(s, r)
<1>1. DOMAIN r = 1 .. Len(r) /\ Len(r) \in Nat /\ DOMAIN s = 1 .. Len(s)
      /\ (\A k \in 1 .. Len(r) : r[k] \in 1 .. Len(s)) /\ \A k \in 1 .. Len(s) : s[k] \in S
  OBVIOUS
<1>2. z = [k \in 1 .. Len(r) |-> z[k]] /\ \A k \in 1 .. Len(r) : z[k] = s[r[k]] /\ z[k] \in S
  <2>1. \A k \in 1 .. Len(r) : At(s, r[k]) = s[r[k]] /\ s[r[k]] \in S
    BY <1>1 DEF At
  <2> QED
    BY <1>1, <2>1 DEF Kept
<1> HIDE DEF z
<1>3. z \in Seq(S) /\ Len(z) = Len(r)
  BY <1>1, <1>2, SeqPointwise
<1> QED
  BY <1>1, <1>2, <1>3 DEF z

LEMMA NullsRebuilt ==
  ASSUME NEW S, NEW r \in Seq(S)
  PROVE  NoNulls(r) \in Seq(BOOLEAN) /\ Len(NoNulls(r)) = Len(r) /\ \A k \in 1 .. Len(r) : NoNulls(r)[k] = FALSE
<1> DEFINE z == NoNulls(r)
<1>1. Len(r) \in Nat /\ z = [k \in 1 .. Len(r) |-> z[k]] /\ \A k \in 1 .. Len(r) : z[k] = FALSE
  BY DEF NoNulls
<1> HIDE DEF z
<1>2. \A k \in 1 .. Len(r) : z[k] \in BOOLEAN
  BY <1>1
<1>3. z \in Seq(BOOLEAN) /\ Len(z) = Len(r)
  BY <1>1, <1>2, SeqPointwise
<1> QED
  BY <1>1, <1>3 DEF z

\* A rebuilt column still is one.
LEMMA BoolRebuilt ==
  ASSUME NEW c, NEW w, Fits(c, w), c.mode = "bool", NEW r \in Seq(1 .. Len(w)), NEW d, d = Rebuilt(c, r)
  PROVE  /\ d \in ColumnType /\ Encodable(d) /\ d.mode = "bool" /\ d.kind = c.kind /\ d.nulls = NoNulls(r)
         /\ Len(d.data) = Len(r)
         /\ \A k \in 1 .. Len(r) : d.data[k] = IF r[k] <= Len(c.data) THEN c.data[r[k]] ELSE 0
<1> DEFINE bits == [k \in DOMAIN r |-> IF r[k] <= Len(c.data) THEN c.data[r[k]] ELSE 0]
<1>1. /\ c \in ColumnType /\ c.data \in Seq(Int) /\ DOMAIN r = 1 .. Len(r) /\ Len(r) \in Nat
      /\ \A k \in 1 .. Len(r) : r[k] \in Nat \ {0}
  BY Fields DEF Fits
<1>2. bits = [k \in 1 .. Len(r) |-> bits[k]]
      /\ \A k \in 1 .. Len(r) : bits[k] = (IF r[k] <= Len(c.data) THEN c.data[r[k]] ELSE 0) /\ bits[k] \in Int
  <2>1. \A k \in 1 .. Len(r) : r[k] <= Len(c.data) => c.data[r[k]] \in Int
    BY <1>1
  <2> QED
    BY <1>1, <2>1
<1>3. d = [c EXCEPT !.data = bits, !.nulls = NoNulls(r)]
  BY DEF Rebuilt
<1> HIDE DEF bits
<1>4. bits \in Seq(Int) /\ Len(bits) = Len(r)
  BY <1>1, <1>2, SeqPointwise
<1>5. IsRecord(d)
  BY <1>1, <1>3, Record DEF IsRecord, FieldNames
<1>6. /\ d.mode = "bool" /\ d.nulls = NoNulls(r) /\ d.kind = c.kind /\ d.data = bits
      /\ d.cache = c.cache /\ d.given = c.given /\ d.values = c.values /\ d.base = c.base
      /\ d.last = c.last /\ d.width = c.width /\ d.seen = c.seen /\ d.lo = c.lo /\ d.hi = c.hi
  BY <1>1, <1>3, Record DEF IsRecord, FieldNames
<1>7. NoNulls(r) \in Seq(BOOLEAN)
  BY NullsRebuilt
<1>8. d \in ColumnType
  BY <1>1, <1>4, <1>5, <1>6, <1>7, Fields, IsColumn DEF Modes
<1> QED
  BY <1>2, <1>4, <1>6, <1>8 DEF Encodable

LEMMA RawRebuilt ==
  ASSUME NEW c, NEW w, Fits(c, w), c.mode = "raw", NEW r \in Seq(1 .. Len(w)), NEW d, d = Rebuilt(c, r)
  PROVE  /\ d \in ColumnType /\ Encodable(d) /\ d.mode = "raw" /\ d.kind = c.kind /\ d.nulls = NoNulls(r)
         /\ Len(d.data) = Len(r) /\ d.cache = NoCache
         /\ Truncated(c, c.data) = c.data => \A k \in 1 .. Len(r) : d.data[k] = c.data[r[k]]
<1> DEFINE kept == Kept(c.data, r)
           values == Truncated(c, kept)
<1>1. /\ c \in ColumnType /\ c.data \in Seq(Int) /\ RawHolds(c, w) /\ Len(c.data) = Len(w) /\ Len(r) \in Nat
  BY Fields DEF Fits, Holds, RawHolds
<1>2. /\ kept \in Seq(Int) /\ Len(kept) = Len(r) /\ DOMAIN kept = 1 .. Len(r)
      /\ \A k \in 1 .. Len(r) : kept[k] = c.data[r[k]] /\ r[k] \in 1 .. Len(c.data)
  BY <1>1, KeptRows
<1>3. d = [c EXCEPT !.data = values, !.nulls = NoNulls(r)]
  BY DEF Rebuilt
<1> HIDE DEF kept
<1>4. values = [k \in 1 .. Len(r) |-> values[k]] /\ \A k \in 1 .. Len(r) : values[k] \in Int
  <2>1. \A k \in 1 .. Len(r) : kept[k] \in Int /\ kept[k] + (kept[k] % 2) \in Int /\ kept[k] - (kept[k] % 2) \in Int
    BY <1>2
  <2> QED
    BY <1>2, <2>1 DEF Truncated
<1>5. Truncated(c, c.data) = c.data => \A k \in 1 .. Len(r) : values[k] = c.data[r[k]]
  <2>1. ASSUME Truncated(c, c.data) = c.data, NEW k \in 1 .. Len(r) PROVE values[k] = kept[k]
    <3> DEFINE s == c.data
               i == r[k]
               Cut(x) == IF c.kind # "float" THEN x ELSE IF x < 0 THEN x + (x % 2) ELSE x - (x % 2)
    <3>1. values[k] = Cut(kept[k])
      BY <1>2 DEF Truncated
    <3>2. i \in DOMAIN s /\ kept[k] = s[i]
      BY <1>1, <1>2
    <3>3. Truncated(c, s)[i] = Cut(s[i])
      BY <3>2 DEF Truncated
    <3>4. Truncated(c, s)[i] = s[i]
      BY <2>1
    <3> HIDE DEF values, s, i, Cut
    <3> QED
      BY <3>1, <3>2, <3>3, <3>4
  <2> HIDE DEF values
  <2> QED
    BY <1>2, <2>1
<1> HIDE DEF values
<1>6. values \in Seq(Int) /\ Len(values) = Len(r)
  BY <1>1, <1>4, SeqPointwise
<1>7. IsRecord(d)
  BY <1>1, <1>3, Record DEF IsRecord, FieldNames
<1>8. /\ d.mode = "raw" /\ d.nulls = NoNulls(r) /\ d.kind = c.kind /\ d.data = values
      /\ d.cache = c.cache /\ d.given = c.given /\ d.values = c.values /\ d.base = c.base
      /\ d.last = c.last /\ d.width = c.width /\ d.seen = c.seen /\ d.lo = c.lo /\ d.hi = c.hi
  BY <1>1, <1>3, Record DEF IsRecord, FieldNames
<1>9. NoNulls(r) \in Seq(BOOLEAN)
  BY NullsRebuilt
<1>10. d \in ColumnType
  BY <1>1, <1>6, <1>7, <1>8, <1>9, Fields, IsColumn DEF Modes
<1> QED
  BY <1>1, <1>5, <1>6, <1>8, <1>10 DEF Encodable, RawHolds

\* The deltas that are not in the way of a compact fit.
LEMMA DeltaRebuilt ==
  ASSUME NEW c, NEW w, Fits(c, w), c.mode = "delta", NEW r \in Seq(1 .. Len(w)), ~RebuildRaises(c, r),
         NEW d, d = Rebuilt(c, r)
  PROVE  d \in ColumnType /\ Encodable(d)
<1> DEFINE s == Decoded(c)
           kept == Kept(s, r)
           deltas == DeltasOf(c, r)
<1>1. /\ c \in ColumnType /\ c.base \in Int /\ Encodable(c) /\ DOMAIN r = 1 .. Len(r) /\ Len(r) \in Nat
      /\ s \in Seq(Int) /\ Len(s) = Len(w)
  BY Fields, DeltaDecoded DEF Fits, Decoded
<1> HIDE DEF s
<1>2. /\ kept \in Seq(Int) /\ Len(kept) = Len(r) /\ \A k \in 1 .. Len(r) : kept[k] \in Int
  BY <1>1, KeptRows
<1>3. deltas = [k \in DOMAIN r |-> kept[k] - (IF k = 1 THEN c.base ELSE kept[k - 1])]
  BY DEF DeltasOf, s
<1> HIDE DEF kept, deltas
<1>4. deltas = [k \in 1 .. Len(r) |-> deltas[k]] /\ \A k \in 1 .. Len(r) : deltas[k] \in Int
  <2>1. ASSUME NEW k \in 1 .. Len(r) PROVE kept[k] - (IF k = 1 THEN c.base ELSE kept[k - 1]) \in Int
    <3> DEFINE x == IF k = 1 THEN c.base ELSE kept[k - 1]
    <3>1. k # 1 => k - 1 \in 1 .. Len(r)
      BY <1>1
    <3>2. kept[k] \in Int /\ x \in Int
      BY <1>1, <1>2, <3>1
    <3> HIDE DEF x
    <3>3. kept[k] - x \in Int
      BY <3>2
    <3> QED
      BY <3>3 DEF x
  <2> QED
    BY <1>1, <1>3, <2>1
<1>5. deltas \in Seq(Int) /\ Len(deltas) = Len(r) /\ DOMAIN deltas = 1 .. Len(r)
  BY <1>1, <1>4, SeqPointwise
<1>6. \A k \in 1 .. Len(r) : FitsDelta(deltas[k], c.width)
  BY <1>1 DEF RebuildRaises, deltas
<1>7. d = [c EXCEPT !.data = deltas, !.cache = NoCache, !.nulls = NoNulls(r)]
  BY DEF Rebuilt, RebuiltDelta, deltas
<1>8. IsRecord(d)
  BY <1>1, <1>7, Record DEF IsRecord, FieldNames
<1>9. /\ d.mode = "delta" /\ d.nulls = NoNulls(r) /\ d.kind = c.kind /\ d.data = deltas
      /\ d.cache = NoCache /\ d.given = c.given /\ d.values = c.values /\ d.base = c.base
      /\ d.last = c.last /\ d.width = c.width /\ d.seen = c.seen /\ d.lo = c.lo /\ d.hi = c.hi
  BY <1>1, <1>7, Record DEF IsRecord, FieldNames
<1>10. NoNulls(r) \in Seq(BOOLEAN)
  BY NullsRebuilt
<1>11. d \in ColumnType
  BY <1>1, <1>5, <1>8, <1>9, <1>10, Fields, IsColumn DEF Modes
<1>12. Encodable(d)
  BY <1>1, <1>5, <1>6, <1>9 DEF Encodable, Tries
<1> QED
  BY <1>11, <1>12

\* Where the values of a column of windows lie.
LEMMA WindowBounds ==
  ASSUME NEW p \in Int, NEW base \in Int, NEW x \in 0 .. p - 1, NEW v, v = base + x
  PROVE  v \in Int /\ base <= v /\ v - base < p
OBVIOUS

LEMMA SpanBounds ==
  ASSUME NEW p \in Int, NEW q \in Int, NEW base \in Int, NEW low \in Int, NEW high \in Int,
         base <= low, low <= high, high - base < p, p <= q
  PROVE  high - low \in Nat /\ high - low < q
OBVIOUS

\* The windows of a compact are all zero, and of a width that there is.
LEMMA ForRebuilt ==
  ASSUME ColumnAssumption, NEW c, NEW w, Fits(c, w), c.mode = "for", NEW r \in Seq(1 .. Len(w)),
         NEW d, d = Rebuilt(c, r)
  PROVE  d \in ColumnType /\ Encodable(d)
<1>1. /\ c \in ColumnType /\ c.base \in Int /\ c.data \in Seq(Int) /\ Encodable(c) /\ ForHolds(c, w)
      /\ DOMAIN r = 1 .. Len(r) /\ Len(r) \in Nat
      /\ Len(c.data) = Len(w) /\ DOMAIN c.data = 1 .. Len(w) /\ c.width \in 1 .. MaxBits /\ Tries(c, "for")
  BY Fields DEF Fits, Holds, ForHolds, Encodable
<1>2. d = RebuiltFor(c, r)
  BY DEF Rebuilt
<1>3. CASE r = <<>>
  <2>1. d = [c EXCEPT !.nulls = <<>>]
    BY <1>2, <1>3 DEF RebuiltFor
  <2>2. IsRecord(d)
    BY <1>1, <2>1, Record DEF IsRecord, FieldNames
  <2>3. /\ d.mode = "for" /\ d.nulls = <<>> /\ d.kind = c.kind /\ d.data = c.data
        /\ d.cache = c.cache /\ d.given = c.given /\ d.values = c.values /\ d.base = c.base
        /\ d.last = c.last /\ d.width = c.width /\ d.seen = c.seen /\ d.lo = c.lo /\ d.hi = c.hi
    BY <1>1, <2>1, Record DEF IsRecord, FieldNames
  <2>4. d.nulls \in Seq(BOOLEAN)
    BY <2>3
  <2>5. d \in ColumnType
    BY <1>1, <2>2, <2>3, <2>4, Fields, IsColumn DEF Modes
  <2>6. Encodable(d)
    BY <1>1, <2>3 DEF Encodable, Tries
  <2> QED
    BY <2>5, <2>6
<1>4. CASE r # <<>>
  <2> DEFINE s == [k \in DOMAIN r |-> ForValue(c, r[k])]
             low == Min(Range(s))
             high == Max(Range(s))
             width == Bits(high - low)
             windows == [k \in DOMAIN r |-> 0]
  <2>1. s = [k \in 1 .. Len(r) |-> s[k]]
        /\ \A k \in 1 .. Len(r) : s[k] \in Int /\ c.base <= s[k] /\ s[k] - c.base < Power[c.width]
    <3>1. ASSUME NEW k \in 1 .. Len(r)
          PROVE  s[k] \in Int /\ c.base <= s[k] /\ s[k] - c.base < Power[c.width]
      <4> DEFINE x == c.data[r[k]]
      <4>1. r[k] \in 1 .. Len(w)
        OBVIOUS
      <4>2. s[k] = c.base + x
        BY <1>1, <4>1 DEF ForValue
      <4>3. x \in 0 .. Power[c.width] - 1 /\ Power[c.width] \in Nat
        <5>1. r[k] \in DOMAIN c.data
          BY <1>1, <4>1
        <5>2. x \in 0 .. Power[c.width] - 1
          BY <1>1, <5>1 DEF Encodable
        <5>3. c.width \in 0 .. MaxBits
          <6>1. \A n \in 1 .. MaxBits : n \in 0 .. MaxBits
            OBVIOUS
          <6> QED
            BY <1>1, <6>1, Zenon
        <5>4. Power[c.width] \in Nat
          BY <5>3, Powers
        <5> QED
          BY <5>2, <5>4
      <4> HIDE DEF s, x
      <4> DEFINE p == Power[c.width]
      <4>4. x \in 0 .. p - 1 /\ p \in Int /\ c.base \in Int /\ s[k] = c.base + x
        BY <1>1, <4>2, <4>3
      <4> HIDE DEF p
      <4> QED
        BY <4>4, WindowBounds DEF p
    <3>2. s = [k \in 1 .. Len(r) |-> s[k]]
      BY <1>1
    <3> HIDE DEF s
    <3> QED
      BY <3>1, <3>2
  <2>2. d = [c EXCEPT !.base = low, !.width = width, !.data = windows, !.cache = NoCache, !.nulls = NoNulls(r)]
    BY <1>2, <1>4 DEF RebuiltFor
  <2>3. windows \in Seq(Int) /\ DOMAIN windows = 1 .. Len(r) /\ \A k \in 1 .. Len(r) : windows[k] = 0
    <3>1. windows = [k \in 1 .. Len(r) |-> windows[k]] /\ \A k \in 1 .. Len(r) : windows[k] = 0 /\ windows[k] \in Int
      BY <1>1
    <3> HIDE DEF windows
    <3> QED
      BY <1>1, <3>1, SeqPointwise
  <2> HIDE DEF s, windows
  <2>4. s \in Seq(Int) /\ Len(s) = Len(r) /\ s # <<>> /\ DOMAIN s = 1 .. Len(r)
    <3>1. s \in Seq(Int) /\ Len(s) = Len(r)
      BY <1>1, <2>1, SeqPointwise
    <3> QED
      BY <1>1, <1>4, <3>1
  <2>5. low \in Int /\ high - low \in Nat /\ ~TooWide(high - low)
    <3>1. PICK a, z \in DOMAIN s : /\ Min(Range(s)) = s[a] /\ Max(Range(s)) = s[z]
                                   /\ \A k \in DOMAIN s : s[a] <= s[k] /\ s[k] <= s[z]
      BY <2>4, RangeBounds
    <3>2. low = s[a] /\ high = s[z] /\ s[a] <= s[z]
      BY <3>1
    <3>3. /\ s[a] \in Int /\ s[z] \in Int /\ c.base <= s[a] /\ s[z] - c.base < Power[c.width]
      BY <2>1, <2>4, <3>1
    <3>4. Power[c.width] <= Power[MaxBits] /\ Power[c.width] \in Nat /\ Power[MaxBits] \in Nat
      <4>1. MaxBits \in 0 .. MaxBits /\ c.width \in 0 .. MaxBits
        BY <1>1, Powers
      <4> QED
        BY <4>1, Powers
    <3> HIDE DEF low, high
    <3>5. high - low < Power[MaxBits] /\ high - low \in Nat
      <4> DEFINE p == Power[c.width]
                 q == Power[MaxBits]
      <4>1. p \in Int /\ q \in Int /\ low \in Int /\ high \in Int /\ c.base \in Int
            /\ c.base <= low /\ low <= high /\ high - c.base < p /\ p <= q
        BY <1>1, <3>2, <3>3, <3>4
      <4> HIDE DEF p, q
      <4> QED
        BY <4>1, SpanBounds DEF q
    <3> QED
      BY <3>2, <3>3, <3>4, <3>5 DEF TooWide
  <2> HIDE DEF low, high
  <2>6. width \in 1 .. MaxBits /\ Power[width] \in Nat \ {0}
    BY <2>5, BitsHold, Powers
  <2> HIDE DEF width
  <2>7. IsRecord(d)
    BY <1>1, <2>2, Record DEF IsRecord, FieldNames
  <2>8. /\ d.mode = "for" /\ d.nulls = NoNulls(r) /\ d.kind = c.kind /\ d.data = windows
        /\ d.cache = NoCache /\ d.given = c.given /\ d.values = c.values /\ d.base = low
        /\ d.last = c.last /\ d.width = width /\ d.seen = c.seen /\ d.lo = c.lo /\ d.hi = c.hi
    BY <1>1, <2>2, Record DEF IsRecord, FieldNames
  <2>9. NoNulls(r) \in Seq(BOOLEAN)
    BY NullsRebuilt
  <2>10. d.width \in Nat /\ d.width <= MaxBits
    BY <2>6, <2>8, Powers
  <2>11. d \in ColumnType
    BY <1>1, <2>3, <2>5, <2>7, <2>8, <2>9, <2>10, Fields, IsColumn DEF Modes
  <2>12. Encodable(d)
    <3>1. Tries(d, "for")
      BY <1>1, <2>8 DEF Tries
    <3>2. 0 \in 0 .. Power[width] - 1
      BY <2>6
    <3>3. \A k \in DOMAIN d.data : d.data[k] \in 0 .. Power[d.width] - 1
      BY <2>3, <2>8, <3>2
    <3> QED
      BY <2>8, <2>10, <3>1, <3>3 DEF Encodable
  <2> QED
    BY <2>11, <2>12
<1> QED
  BY <1>3, <1>4


\* A row's new code stands for the value that its old code stood for.
Recoded(c, d, r) ==
  \A k \in 1 .. Len(r) : /\ d.data[k] \in Nat /\ d.data[k] < Len(d.values)
                         /\ d.values[d.data[k] + 1] = c.values[c.data[r[k]] + 1]


\* A dictionary given again has a code for each value that is left, and no more
\* codes than before.
LEMMA DictRebuilt ==
  ASSUME ColumnAssumption, NEW c, NEW w, Fits(c, w), c.mode = "dict", NEW r \in Seq(1 .. Len(w)),
         ~RebuildRaises(c, r), NEW d, d = Rebuilt(c, r)
  PROVE  /\ d \in ColumnType /\ Encodable(d) /\ d.mode = "dict" /\ d.kind = c.kind /\ d.nulls = NoNulls(r)
         /\ Len(d.data) = Len(r) /\ Recoded(c, d, r)
<1> DEFINE codes == Kept(c.data, r)
           F == {k \in DOMAIN codes : \A j \in 1 .. k - 1 : codes[j] # codes[k]}
           firsts == InOrder(F)
           values == [n \in DOMAIN firsts |-> c.values[codes[firsts[n]] + 1]]
           data == [k \in DOMAIN codes |-> (CHOOSE n \in DOMAIN firsts : codes[firsts[n]] = codes[k]) - 1]
           L == Len(firsts)
           R == Len(r)
           V == Len(c.values)
<1>1. /\ c \in ColumnType /\ c.data \in Seq(Int) /\ c.values \in Seq(Int) /\ DictHolds(c, w) /\ Len(c.data) = Len(w)
      /\ Encodable(c) /\ R \in Nat /\ V \in Nat /\ DOMAIN r = 1 .. R /\ DOMAIN c.values = 1 .. V
  BY Fields DEF Fits, Holds, DictHolds
<1>2. d = [c EXCEPT !.values = values, !.data = data, !.nulls = NoNulls(r)]
  BY DEF Rebuilt, RebuiltDict
<1>3. /\ codes \in Seq(Int) /\ Len(codes) = R /\ DOMAIN codes = 1 .. R
      /\ \A k \in 1 .. R : codes[k] = c.data[r[k]] /\ r[k] \in 1 .. Len(w)
  <2> DEFINE s == c.data
  <2>1. s \in Seq(Int) /\ r \in Seq(1 .. Len(s)) /\ Len(s) = Len(w)
    BY <1>1
  <2> HIDE DEF s
  <2>2. /\ Kept(s, r) \in Seq(Int) /\ Len(Kept(s, r)) = Len(r) /\ DOMAIN Kept(s, r) = 1 .. Len(r)
        /\ \A k \in 1 .. Len(r) : Kept(s, r)[k] = s[r[k]] /\ r[k] \in 1 .. Len(s)
    BY <2>1, KeptRows
  <2> QED
    BY <2>1, <2>2 DEF s
<1> HIDE DEF codes, R, V
<1>4. ASSUME NEW k \in 1 .. R
      PROVE  codes[k] \in Nat /\ codes[k] < V /\ codes[k] + 1 \in 1 .. V /\ c.values[codes[k] + 1] \in Int
  <2> DEFINE x == codes[k]
  <2>1. x = c.data[r[k]] /\ r[k] \in 1 .. Len(w)
    BY <1>3
  <2>2. x \in Nat
    BY <1>1, <2>1 DEF DictHolds
  <2>3. c.data[r[k]] + 1 \in DOMAIN c.values
    BY <1>1 DEF RebuildRaises
  <2> HIDE DEF x
  <2>4. x + 1 \in 1 .. V
    BY <1>1, <2>1, <2>3
  <2>5. x < V
    BY <1>1, <2>2, <2>4
  <2>6. c.values[x + 1] \in Int
    <3> DEFINE s == c.values
               i == x + 1
    <3>1. s \in Seq(Int) /\ i \in 1 .. Len(s)
      BY <1>1, <2>4 DEF V
    <3> HIDE DEF s, i
    <3>2. s[i] \in Int
      BY <3>1
    <3> QED
      BY <3>2 DEF s, i
  <2> QED
    BY <2>2, <2>4, <2>5, <2>6 DEF x
<1>5. F \in SUBSET (1 .. R) /\ \A k \in F : \A j \in 1 .. k - 1 : codes[j] # codes[k]
  BY <1>3
<1>6. ASSUME NEW k \in 1 .. R PROVE \E j \in F : codes[j] = codes[k]
  <2> DEFINE T == {j \in 1 .. R : codes[j] = codes[k]}
  <2>1. T \in SUBSET Nat /\ k \in T
    BY <1>1
  <2>2. PICK j \in T : \A i \in T : j <= i
    <3> HIDE DEF T
    <3> QED
      BY <2>1, NatLeast
  <2>3. ASSUME NEW i \in 1 .. j - 1 PROVE codes[i] # codes[j]
    <3>1. i \in 1 .. R /\ ~(j <= i)
      BY <1>1, <2>2
    <3> QED
      BY <2>2, <3>1
  <2>4. j \in F
    BY <1>3, <2>2, <2>3
  <2> QED
    BY <2>2, <2>4
<1> HIDE DEF F
<1>7. F \in SUBSET Int /\ IsFiniteSet(F)
  <2>1. IsFiniteSet(1 .. R)
    BY <1>1, FS_Interval
  <2>2. F \in SUBSET Int
    BY <1>1, <1>5
  <2> QED
    BY <1>5, <2>1, <2>2, FS_Subset
<1>8. /\ firsts \in Seq(F) /\ L \in Nat /\ DOMAIN firsts = 1 .. L /\ (\A n \in 1 .. L : firsts[n] \in F)
      /\ (\A e \in F : \E n \in 1 .. L : firsts[n] = e)
      /\ \A m, n \in 1 .. L : m < n => firsts[m] < firsts[n]
  <2>1. /\ firsts \in Seq(F)
        /\ (\A e \in F : \E n \in 1 .. L : firsts[n] = e)
        /\ \A m, n \in 1 .. L : m < n => firsts[m] < firsts[n]
    BY <1>7, InOrderSorts
  <2> HIDE DEF firsts
  <2>2. L \in Nat /\ DOMAIN firsts = 1 .. L /\ \A n \in 1 .. L : firsts[n] \in F
    BY <2>1
  <2> QED
    BY <2>1, <2>2
<1> HIDE DEF firsts, L
<1>9. values = [n \in 1 .. L |-> values[n]]
      /\ \A n \in 1 .. L : values[n] = c.values[codes[firsts[n]] + 1] /\ values[n] \in Int
  <2>1. \A n \in 1 .. L : firsts[n] \in 1 .. R
    BY <1>5, <1>8
  <2>2. \A n \in 1 .. L : c.values[codes[firsts[n]] + 1] \in Int
    BY <1>4, <2>1
  <2>3. \A n \in 1 .. L : values[n] = c.values[codes[firsts[n]] + 1]
    BY <1>8
  <2>4. values = [n \in 1 .. L |-> values[n]]
    BY <1>8
  <2> HIDE DEF values
  <2>5. \A n \in 1 .. L : values[n] \in Int
    BY <2>2, <2>3
  <2> QED
    BY <2>3, <2>4, <2>5
<1>10. ASSUME NEW k \in 1 .. R
       PROVE  data[k] \in Nat /\ data[k] < L /\ data[k] + 1 \in 1 .. L /\ codes[firsts[data[k] + 1]] = codes[k]
  <2> DEFINE m == CHOOSE n \in DOMAIN firsts : codes[firsts[n]] = codes[k]
  <2>1. \E n \in DOMAIN firsts : codes[firsts[n]] = codes[k]
    <3>1. PICK j \in F : codes[j] = codes[k]
      BY <1>6
    <3>2. PICK n \in 1 .. L : firsts[n] = j
      BY <1>8
    <3>3. n \in DOMAIN firsts
      BY <1>8
    <3> QED
      BY <3>1, <3>2, <3>3
  <2>2. m \in DOMAIN firsts /\ codes[firsts[m]] = codes[k]
    BY <2>1
  <2>3. data[k] = m - 1
    BY <1>3
  <2> HIDE DEF m, data
  <2>4. m \in 1 .. L /\ data[k] \in Nat /\ data[k] < L /\ data[k] + 1 = m
    BY <1>8, <2>2, <2>3
  <2> QED
    BY <2>2, <2>4
<1>11. data = [k \in 1 .. R |-> data[k]] /\ \A k \in 1 .. R : data[k] \in Int
  BY <1>3, <1>10
<1> HIDE DEF values, data
<1>12. values \in Seq(Int) /\ Len(values) = L
  BY <1>8, <1>9, SeqPointwise
<1>13. data \in Seq(Int) /\ Len(data) = R
  BY <1>1, <1>11, SeqPointwise
<1>14. L <= V
  <2> SUFFICES ASSUME ~(L <= V) PROVE FALSE
    OBVIOUS
  <2> DEFINE A == 1 .. L
             B == 0 .. V - 1
             f == [n \in A |-> codes[firsts[n]]]
  <2>1. IsFiniteSet(A) /\ Cardinality(A) = L
    <3>1. 1 \in Int /\ L \in Int
      BY <1>8
    <3>2. IsFiniteSet(1 .. L) /\ Cardinality(1 .. L) = IF 1 > L THEN 0 ELSE L - 1 + 1
      BY <3>1, FS_Interval
    <3>3. (IF 1 > L THEN 0 ELSE L - 1 + 1) = L
      BY <1>8
    <3> QED
      BY <3>2, <3>3
  <2>2. IsFiniteSet(B) /\ Cardinality(B) = V
    <3>1. 0 \in Int /\ V - 1 \in Int
      BY <1>1
    <3>2. IsFiniteSet(0 .. V - 1) /\ Cardinality(0 .. V - 1) = IF 0 > V - 1 THEN 0 ELSE V - 1 - 0 + 1
      BY <3>1, FS_Interval
    <3>3. (IF 0 > V - 1 THEN 0 ELSE V - 1 - 0 + 1) = V
      BY <1>1
    <3> QED
      BY <3>2, <3>3
  <2>3. \A n \in A : f[n] = codes[firsts[n]] /\ f[n] \in B
    <3>1. ASSUME NEW n \in 1 .. L PROVE codes[firsts[n]] \in 0 .. V - 1
      <4> DEFINE x == codes[firsts[n]]
      <4>1. firsts[n] \in 1 .. R
        BY <1>5, <1>8
      <4>2. x \in Nat /\ x < V
        BY <1>4, <4>1
      <4> HIDE DEF x
      <4>3. x \in 0 .. V - 1
        BY <1>1, <4>2
      <4> QED
        BY <4>3 DEF x
    <3> QED
      BY <3>1
  <2>4. f \in [A -> B]
    BY <2>3
  <2> HIDE DEF A, B, f
  <2>5. Cardinality(B) < Cardinality(A)
    BY <1>1, <1>8, <2>1, <2>2
  <2>6. PICK x, y \in A : x # y /\ f[x] = f[y]
    BY <2>1, <2>2, <2>4, <2>5, FS_PigeonHole
  <2>7. ASSUME NEW m \in 1 .. L, NEW n \in 1 .. L, m < n PROVE codes[firsts[m]] # codes[firsts[n]]
    <3>1. firsts[m] \in 1 .. R /\ firsts[n] \in F /\ firsts[n] \in 1 .. R /\ firsts[m] < firsts[n]
      BY <1>5, <1>8, <2>7
    <3>2. firsts[m] \in 1 .. firsts[n] - 1
      <4> DEFINE p == firsts[m]
                 q == firsts[n]
      <4>1. p \in 1 .. R /\ q \in 1 .. R /\ p < q
        BY <3>1
      <4> HIDE DEF p, q
      <4>2. p \in 1 .. q - 1
        BY <1>1, <4>1
      <4> QED
        BY <4>2 DEF p, q
    <3> QED
      BY <1>5, <3>1, <3>2
  <2>8. x \in 1 .. L /\ y \in 1 .. L /\ (x < y \/ y < x)
    BY <1>8, <2>6 DEF A
  <2> QED
    BY <2>3, <2>6, <2>7, <2>8
<1>15. IsRecord(d)
  BY <1>1, <1>2, Record DEF IsRecord, FieldNames
<1>16. /\ d.mode = "dict" /\ d.nulls = NoNulls(r) /\ d.kind = c.kind /\ d.data = data
       /\ d.cache = c.cache /\ d.given = c.given /\ d.values = values /\ d.base = c.base
       /\ d.last = c.last /\ d.width = c.width /\ d.seen = c.seen /\ d.lo = c.lo /\ d.hi = c.hi
  BY <1>1, <1>2, Record DEF IsRecord, FieldNames
<1>17. NoNulls(r) \in Seq(BOOLEAN)
  BY NullsRebuilt
<1>18. d \in ColumnType
  BY <1>1, <1>12, <1>13, <1>15, <1>16, <1>17, Fields, IsColumn DEF Modes
<1>19. Encodable(d)
  <2>1. V <= DictThreshold /\ c.kind = "dict" /\ DictThreshold \in Nat
    BY <1>1, ColumnAssumption DEF Encodable, ColumnAssumption, V
  <2>2. Len(d.values) <= DictThreshold
    BY <1>1, <1>8, <1>12, <1>14, <1>16, <2>1
  <2> QED
    BY <1>16, <2>1, <2>2 DEF Encodable
<1>20. ASSUME NEW k \in 1 .. R
       PROVE  /\ d.data[k] \in Nat /\ d.data[k] < Len(d.values)
              /\ d.values[d.data[k] + 1] = c.values[c.data[r[k]] + 1]
  <2> DEFINE n == data[k] + 1
  <2>1. n \in 1 .. L /\ codes[firsts[n]] = codes[k] /\ codes[k] = c.data[r[k]]
    BY <1>3, <1>10
  <2>2. data[k] \in Nat /\ data[k] < L
    BY <1>10
  <2> HIDE DEF n
  <2>3. values[n] = c.values[codes[firsts[n]] + 1]
    BY <1>9, <2>1
  <2>4. d.values[n] = c.values[c.data[r[k]] + 1]
    BY <1>16, <2>1, <2>3
  <2> QED
    BY <1>12, <1>16, <2>2, <2>4 DEF n
<1> QED
  BY <1>13, <1>16, <1>18, <1>19, <1>20 DEF R, Recoded

\* A column that compact rebuilds,
LEMMA RebuiltTyped ==
  ASSUME ColumnAssumption, NEW c, NEW w, Fits(c, w), NEW r \in Seq(1 .. Len(w)), ~RebuildRaises(c, r)
  PROVE  Rebuilt(c, r) \in ColumnType /\ Encodable(Rebuilt(c, r))
<1>1. c.mode \in Modes
  BY Fields DEF Fits
<1>2. CASE c.mode = "bool"
  BY <1>2, BoolRebuilt
<1>3. CASE c.mode = "dict"
  BY <1>3, DictRebuilt
<1>4. CASE c.mode = "delta"
  BY <1>4, DeltaRebuilt
<1>5. CASE c.mode = "for"
  BY <1>5, ForRebuilt
<1>6. CASE c.mode = "raw"
  BY <1>6, RawRebuilt
<1> QED
  BY <1>1, <1>2, <1>3, <1>4, <1>5, <1>6 DEF Modes

\* and that it does not break.
LEMMA RebuiltGood ==
  ASSUME ColumnAssumption, NEW c, NEW w, Good(c, w), NEW r \in Seq(1 .. Len(w)), ~RebuildRaises(c, r),
         c.mode \notin {"delta", "for"}, \A k \in DOMAIN r : ~c.nulls[r[k]],
         c.mode = "raw" => Truncated(c, c.data) = c.data
  PROVE  Good(Rebuilt(c, r), Kept(w, r)) /\ Rebuilt(c, r).kind = c.kind
<1> DEFINE d == Rebuilt(c, r)
           z == Kept(w, r)
           R == Len(r)
<1>1. /\ c \in ColumnType /\ Fits(c, w) /\ Holds(c, w) /\ w \in Seq(Accepts(c)) /\ c.mode \in {"raw", "bool", "dict"}
      /\ DOMAIN r = 1 .. R /\ R \in Nat
  BY Fields DEF Good, Fits, Modes
<1>2. /\ z \in Seq(Accepts(c)) /\ Len(z) = R /\ \A k \in 1 .. R : z[k] = w[r[k]] /\ r[k] \in 1 .. Len(w)
  BY <1>1, KeptRows
<1>3. \A k \in 1 .. R : w[r[k]] # Null
  BY <1>1, <1>2 DEF Good
<1>4. d \in ColumnType /\ Encodable(d)
  BY <1>1, RebuiltTyped
<1>5. /\ NoNulls(r) \in Seq(BOOLEAN) /\ Len(NoNulls(r)) = R /\ \A k \in 1 .. R : NoNulls(r)[k] = FALSE
  BY NullsRebuilt
<1> HIDE DEF z
<1>6. d = Rebuilt(c, r) /\ Fits(c, w)
  BY <1>1
<1> HIDE DEF d
<1>7. d.kind = c.kind /\ d.nulls = NoNulls(r) /\ Holds(d, z)
  <2>1. CASE c.mode = "bool"
    <3>1. /\ d.mode = "bool" /\ d.kind = c.kind /\ d.nulls = NoNulls(r) /\ Len(d.data) = R
          /\ \A k \in 1 .. R : d.data[k] = IF r[k] <= Len(c.data) THEN c.data[r[k]] ELSE 0
      BY <1>6, <2>1, BoolRebuilt
    <3> HIDE DEF R
    <3>2. BoolHolds(c, w)
      BY <1>1, <2>1 DEF Holds
    <3>3. ASSUME NEW k \in 1 .. R PROVE z[k] = IF k <= Len(d.data) THEN d.data[k] ELSE 0
      <4>1. k <= Len(d.data)
        BY <1>1, <3>1
      <4>2. w[r[k]] = IF r[k] <= Len(c.data) THEN c.data[r[k]] ELSE 0
        BY <1>2, <1>3, <3>2 DEF BoolHolds
      <4> QED
        BY <1>2, <3>1, <4>1, <4>2
    <3>4. Len(d.data) <= Len(z) /\ d.kind = "bool"
      BY <1>1, <1>2, <3>1, <3>2 DEF BoolHolds
    <3>5. BoolHolds(d, z)
      BY <1>2, <3>3, <3>4 DEF BoolHolds
    <3> QED
      BY <3>1, <3>5 DEF Holds
  <2>2. CASE c.mode = "dict"
    <3>0. /\ d.mode = "dict" /\ d.kind = c.kind /\ d.nulls = NoNulls(r) /\ Len(d.data) = R
          /\ Recoded(c, d, r)
      BY <1>6, <2>2, DictRebuilt
    <3>1. /\ d.mode = "dict" /\ d.kind = c.kind /\ d.nulls = NoNulls(r) /\ Len(d.data) = R
          /\ \A k \in 1 .. R : /\ d.data[k] \in Nat /\ d.data[k] < Len(d.values)
                               /\ d.values[d.data[k] + 1] = c.values[c.data[r[k]] + 1]
      BY <3>0 DEF Recoded
    <3> HIDE DEF R
    <3>2. DictHolds(c, w)
      BY <1>1, <2>2 DEF Holds
    <3>3. ASSUME NEW k \in 1 .. R PROVE z[k] = d.values[d.data[k] + 1]
      <4>1. z[k] = w[r[k]] /\ r[k] \in 1 .. Len(w) /\ w[r[k]] # Null
        BY <1>2, <1>3
      <4>2. w[r[k]] = c.values[c.data[r[k]] + 1]
        BY <3>2, <4>1 DEF DictHolds
      <4> QED
        BY <3>1, <4>1, <4>2
    <3>4. DictHolds(d, z)
      BY <1>2, <3>1, <3>3 DEF DictHolds
    <3> QED
      BY <3>1, <3>4 DEF Holds
  <2>3. CASE c.mode = "raw"
    <3>1. /\ d.mode = "raw" /\ d.kind = c.kind /\ d.nulls = NoNulls(r) /\ Len(d.data) = R /\ d.cache = NoCache
          /\ \A k \in 1 .. R : d.data[k] = c.data[r[k]]
      BY <1>6, <2>3, RawRebuilt
    <3> HIDE DEF R
    <3>2. RawHolds(c, w)
      BY <1>1, <2>3 DEF Holds
    <3>3. \A k \in 1 .. R : z[k] = d.data[k]
      BY <1>2, <1>3, <3>1, <3>2 DEF RawHolds
    <3>4. RawHolds(d, z)
      BY <1>2, <3>1, <3>3 DEF RawHolds
    <3> QED
      BY <3>1, <3>4 DEF Holds
  <2> QED
    BY <1>1, <2>1, <2>2, <2>3
<1> HIDE DEF R
<1>8. Accepts(d) = Accepts(c)
  BY <1>7 DEF Accepts
<1>9. Fits(d, z)
  BY <1>2, <1>4, <1>7, <1>8 DEF Fits
<1>10. ASSUME NEW k \in 1 .. Len(z) PROVE d.nulls[k] = (z[k] = Null)
  <2>1. k \in 1 .. R
    BY <1>2
  <2>2. z[k] # Null
    BY <1>2, <1>3, <2>1
  <2>3. d.nulls[k] = FALSE
    BY <1>5, <1>7, <2>1
  <2> QED
    BY <2>2, <2>3
<1> QED
  BY <1>2, <1>5, <1>7, <1>9, <1>10 DEF Good, d, z


-----------------------------------------------------------------------------
(* The table.                                                              *)

\* Every column that a compact left alone holds what was written to it, and all
\* columns have a value, or a null, for each row.
IInv ==
  /\ TypeOK
  /\ want \in [Cols -> Seq(Int \cup {Null})] /\ \A c \in Cols : Len(want[c]) = rows
  /\ \A c \in Cols \ broken : Good(columns[c], want[c])

\* Columns that hold what was written are columns, and what was written are values.
LEMMA GoodTyped ==
  ASSUME NEW cols, cols = [c \in Cols |-> cols[c]], NEW w, w = [c \in Cols |-> w[c]],
         \A c \in Cols : Good(cols[c], w[c])
  PROVE  /\ cols \in [Cols -> ColumnType] /\ \A c \in Cols : Encodable(cols[c])
         /\ w \in [Cols -> Seq(Int \cup {Null})]
<1>1. ASSUME NEW c \in Cols
      PROVE  cols[c] \in ColumnType /\ Encodable(cols[c]) /\ w[c] \in Seq(Int \cup {Null})
  <2>1. cols[c] \in ColumnType /\ Encodable(cols[c]) /\ w[c] \in Seq(Accepts(cols[c]))
    BY DEF Good, Fits
  <2>2. \A x \in Accepts(cols[c]) : x \in Int \cup {Null}
    BY DEF Accepts
  <2> HIDE DEF Cols
  <2> DEFINE s == w[c]
  <2>3. s = [k \in 1 .. Len(s) |-> s[k]] /\ Len(s) \in Nat /\ \A k \in 1 .. Len(s) : s[k] \in Accepts(cols[c])
    <3> DEFINE S == Accepts(cols[c])
    <3> HIDE DEF s, S
    <3>1. s \in Seq(S)
      BY <2>1 DEF s, S
    <3> QED
      BY <3>1 DEF S
  <2> HIDE DEF s
  <2>4. \A k \in 1 .. Len(s) : s[k] \in Int \cup {Null}
    BY <2>2, <2>3
  <2>5. s \in Seq(Int \cup {Null})
    <3> DEFINE S == Int \cup {Null}
    <3> HIDE DEF S
    <3>1. \A k \in 1 .. Len(s) : s[k] \in S
      BY <2>4 DEF S
    <3>2. s \in Seq(S)
      BY <2>3, <3>1, SeqPointwise
    <3> QED
      BY <3>2 DEF S
  <2> QED
    BY <2>1, <2>5 DEF s
<1> HIDE DEF Cols
<1> QED
  BY <1>1

\* So the invariant is kept by an action whose columns hold what it wrote.
LEMMA GoodKept ==
  ASSUME NEW cols, cols = [c \in Cols |-> cols[c]], NEW w, w = [c \in Cols |-> w[c]],
         \A c \in Cols : Good(cols[c], w[c]) /\ Len(w[c]) = rows',
         rows' \in 0 .. MaxRows, ofSnapDB' \in BOOLEAN, broken' \in SUBSET Cols,
         columns' = cols, want' = w
  PROVE  IInv'
<1>1. /\ cols \in [Cols -> ColumnType] /\ \A c \in Cols : Encodable(cols[c])
      /\ w \in [Cols -> Seq(Int \cup {Null})]
  BY GoodTyped
<1>2. TypeOK'
  BY <1>1 DEF TypeOK
<1> QED
  BY <1>1, <1>2 DEF IInv

\* What callers write is what the columns accept.
LEMMA ValuesAccepted ==
  ASSUME TypeOK, NEW c \in Cols, NEW v \in Values(c)
  PROVE  v \in Accepts(columns[c])
<1>1. ValuesOf[c] \in SUBSET (Int \cup {Null})
  BY TableAssumption DEF TableAssumption
<1> QED
  BY <1>1 DEF Values, Accepts

LEMMA PatchAccepted ==
  ASSUME TypeOK, NEW patch \in Patch, NEW c \in Cols, c \in DOMAIN patch
  PROVE  patch[c] \in Accepts(columns[c])
<1>1. PICK given \in Patched : patch \in Written(given)
  BY DEF Patch
<1>2. DOMAIN patch = given /\ \A d \in given : patch[d] \in Values(d)
  BY <1>1 DEF Written
<1> QED
  BY <1>2, ValuesAccepted

\* Before a step no column is broken.
LEMMA ReadyGood ==
  ASSUME IInv, Ready, NEW c \in Cols
  PROVE  /\ Good(columns[c], want[c]) /\ Len(want[c]) = rows /\ columns[c].kind \in Kinds
         /\ want[c] \in Seq(Accepts(columns[c])) /\ DOMAIN want[c] = 1 .. rows
<1>1. Good(columns[c], want[c]) /\ Len(want[c]) = rows
  BY DEF IInv, Ready
<1>2. columns[c] \in ColumnType /\ want[c] \in Seq(Accepts(columns[c]))
  BY <1>1 DEF Good, Fits
<1>3. columns[c].kind \in Kinds
  BY <1>2, Fields
<1>4. DOMAIN want[c] = 1 .. Len(want[c])
  <2> DEFINE s == want[c]
             S == Accepts(columns[c])
  <2> HIDE DEF s, S
  <2>1. s \in Seq(S)
    BY <1>2 DEF s, S
  <2>2. DOMAIN s = 1 .. Len(s)
    BY <2>1
  <2> QED
    BY <2>2 DEF s
<1> QED
  BY <1>1, <1>2, <1>3, <1>4

LEMMA InitKeeps == Init => IInv
<1> SUFFICES ASSUME Init PROVE IInv
  OBVIOUS
<1>1. PICK kind \in [Cols -> Kinds] : ofSnapDB \in BOOLEAN /\ columns = [c \in Cols |-> NewColumn(kind[c])]
  BY DEF Init
<1>2. rows = 0 /\ want = [c \in Cols |-> <<>>] /\ broken = {}
  BY DEF Init
<1>3. \A c \in Cols : Good(columns[c], want[c]) /\ Len(want[c]) = 0
  <2>1. ASSUME NEW c \in Cols PROVE Good(columns[c], want[c]) /\ Len(want[c]) = 0
    <3>1. kind[c] \in Kinds
      BY <1>1
    <3>2. columns[c] = NewColumn(kind[c]) /\ want[c] = <<>>
      BY <1>1, <1>2
    <3> QED
      BY <3>1, <3>2, NewGood
  <2> QED
    BY <2>1
<1>4. columns = [c \in Cols |-> columns[c]] /\ want = [c \in Cols |-> want[c]]
  BY <1>1, <1>2
<1>5. /\ columns \in [Cols -> ColumnType] /\ \A c \in Cols : Encodable(columns[c])
      /\ want \in [Cols -> Seq(Int \cup {Null})]
  BY <1>3, <1>4, GoodTyped
<1>6. rows \in 0 .. MaxRows
  BY <1>2, TableAssumption DEF TableAssumption
<1>7. TypeOK
  BY <1>1, <1>2, <1>5, <1>6 DEF TypeOK
<1> QED
  BY <1>2, <1>3, <1>5, <1>7 DEF IInv

LEMMA InsertKeeps == ASSUME IInv, NEW row \in Row, Insert(row) PROVE IInv'
<1> DEFINE cols == [c \in Cols |-> AppendTo(columns[c], row[c])]
           w == [c \in Cols |-> Append(want[c], row[c])]
<1>1. Ready /\ TypeOK /\ columns' = cols /\ want' = w /\ rows' = rows + 1 /\ rows < MaxRows
      /\ ofSnapDB' = ofSnapDB /\ broken' = broken
  BY DEF Insert, IInv
<1>2. ASSUME NEW c \in Cols PROVE Good(cols[c], w[c]) /\ Len(w[c]) = rows + 1
  <2>1. row[c] \in Values(c)
    BY DEF Row, Written
  <2>2. row[c] \in Accepts(columns[c])
    BY <1>1, <2>1, ValuesAccepted
  <2>3. Good(columns[c], want[c]) /\ Len(want[c]) = rows /\ want[c] \in Seq(Accepts(columns[c]))
    BY <1>1, ReadyGood
  <2>4. Good(AppendTo(columns[c], row[c]), Append(want[c], row[c]))
    BY <2>2, <2>3, AppendGood, ColumnAssumption
  <2>5. Len(Append(want[c], row[c])) = rows + 1
    BY <2>2, <2>3, SeqPush
  <2> HIDE DEF Cols
  <2> QED
    BY <2>4, <2>5
<1>3. cols = [c \in Cols |-> cols[c]] /\ w = [c \in Cols |-> w[c]]
  BY Zenon
<1>4. rows' \in 0 .. MaxRows /\ ofSnapDB' \in BOOLEAN /\ broken' \in SUBSET Cols
  BY <1>1, TableAssumption DEF TypeOK, TableAssumption
<1> HIDE DEF cols, w
<1> QED
  BY <1>1, <1>2, <1>3, <1>4, GoodKept

LEMMA UpdateKeeps == ASSUME IInv, NEW i \in Live, NEW patch \in Patch, Update(i, patch) PROVE IInv'
<1> DEFINE merged == [c \in Cols |-> IF c \in DOMAIN patch THEN patch[c] ELSE RowAt(i)[c]]
           read == [c \in Cols |-> IF columns[c].nulls[i] THEN columns[c] ELSE RowsCached(columns[c])]
           cols == [c \in Cols |-> SetAt(read[c], i, merged[c])]
           w == [c \in Cols |-> [want[c] EXCEPT ![i] = merged[c]]]
<1>1. Ready /\ TypeOK /\ columns' = cols /\ want' = w /\ rows' = rows /\ ofSnapDB' = ofSnapDB /\ broken' = broken
  BY DEF Update, IInv
<1>2. ASSUME NEW c \in Cols PROVE Good(cols[c], w[c]) /\ Len(w[c]) = rows
  <2> DEFINE a == read[c]
             m == merged[c]
             z == want[c]
  <2>1. /\ Good(columns[c], z) /\ Len(z) = rows /\ z \in Seq(Accepts(columns[c])) /\ DOMAIN z = 1 .. rows
        /\ i \in 1 .. rows
    BY <1>1, ReadyGood DEF Live
  <2>2. m \in Accepts(columns[c])
    <3>1. CASE c \in DOMAIN patch
      BY <1>1, <3>1, PatchAccepted
    <3>2. CASE c \notin DOMAIN patch
      <4>1. m = Get(columns[c], i)
        BY <3>2 DEF RowAt
      <4>2. Get(columns[c], i) = z[i]
        BY <2>1, GoodGets
      <4> DEFINE S == Accepts(columns[c])
      <4> HIDE DEF z, m, S
      <4>3. z[i] \in S
        BY <2>1 DEF S
      <4> QED
        BY <4>1, <4>2, <4>3 DEF S
    <3> QED
      BY <3>1, <3>2
  <2>3. Good(a, z) /\ a.kind = columns[c].kind
    <3>1. a \in {columns[c], RowsCached(columns[c])}
      OBVIOUS
    <3>2. Good(RowsCached(columns[c]), z) /\ RowsCached(columns[c]).kind = columns[c].kind
      BY <2>1, CachedGood DEF RowsCached
    <3> HIDE DEF a, z
    <3> QED
      BY <2>1, <3>1, <3>2
  <2>4. cols[c] = SetAt(a, i, m) /\ w[c] = [z EXCEPT ![i] = m]
    OBVIOUS
  <2> HIDE DEF a, m, z, cols, w
  <2>5. m \in Accepts(a) /\ i \in 1 .. Len(z)
    BY <2>1, <2>2, <2>3 DEF Accepts
  <2>6. Good(SetAt(a, i, m), [z EXCEPT ![i] = m])
    BY <2>3, <2>5, SetGood
  <2>7. Len([z EXCEPT ![i] = m]) = Len(z)
    BY <2>1, <2>2, <2>5, SeqPut
  <2> QED
    BY <2>1, <2>4, <2>6, <2>7
<1>3. cols = [c \in Cols |-> cols[c]] /\ w = [c \in Cols |-> w[c]]
  BY Zenon
<1>4. rows' \in 0 .. MaxRows /\ ofSnapDB' \in BOOLEAN /\ broken' \in SUBSET Cols
  BY <1>1 DEF TypeOK
<1> HIDE DEF cols, w
<1> QED
  BY <1>1, <1>2, <1>3, <1>4, GoodKept

LEMMA DeleteKeeps == ASSUME IInv, NEW i \in 1 .. rows, Delete(i) PROVE IInv'
<1> DEFINE cols == [c \in Cols |-> SetAt(columns[c], i, Null)]
           w == [c \in Cols |-> [want[c] EXCEPT ![i] = Null]]
<1>1. Ready /\ TypeOK /\ columns' = cols /\ want' = w /\ rows' = rows /\ ofSnapDB' = ofSnapDB /\ broken' = broken
  BY DEF Delete, IInv
<1>2. ASSUME NEW c \in Cols PROVE Good(cols[c], w[c]) /\ Len(w[c]) = rows
  <2>1. Good(columns[c], want[c]) /\ Len(want[c]) = rows /\ want[c] \in Seq(Accepts(columns[c])) /\ i \in 1 .. Len(want[c])
    BY <1>1, ReadyGood
  <2>2. Null \in Accepts(columns[c])
    BY DEF Accepts
  <2>3. Good(SetAt(columns[c], i, Null), [want[c] EXCEPT ![i] = Null])
    BY <2>1, <2>2, SetGood
  <2>4. Len([want[c] EXCEPT ![i] = Null]) = rows
    BY <2>1, <2>2, SeqPut
  <2> HIDE DEF Cols
  <2> QED
    BY <2>3, <2>4
<1>3. cols = [c \in Cols |-> cols[c]] /\ w = [c \in Cols |-> w[c]]
  BY Zenon
<1>4. rows' \in 0 .. MaxRows /\ ofSnapDB' \in BOOLEAN /\ broken' \in SUBSET Cols
  BY <1>1 DEF TypeOK
<1> HIDE DEF cols, w
<1> QED
  BY <1>1, <1>2, <1>3, <1>4, GoodKept

\* Sets of rows in order.
LEMMA RowsInOrder ==
  ASSUME TypeOK, NEW S \in SUBSET (1 .. rows)
  PROVE  /\ InOrder(S) \in Seq(1 .. rows) /\ Len(InOrder(S)) \in 0 .. rows
         /\ \A k : k \in Range(InOrder(S)) <=> k \in S
<1> DEFINE s == InOrder(S)
<1>1. rows \in Nat
  BY TableAssumption DEF TypeOK, TableAssumption
<1>2. IsFiniteSet(1 .. rows) /\ Cardinality(1 .. rows) = rows
  <2>1. IsFiniteSet(1 .. rows) /\ Cardinality(1 .. rows) = IF 1 > rows THEN 0 ELSE rows - 1 + 1
    BY <1>1, FS_Interval
  <2>2. (IF 1 > rows THEN 0 ELSE rows - 1 + 1) = rows
    BY <1>1
  <2> QED
    BY <2>1, <2>2
<1>3. IsFiniteSet(S) /\ Cardinality(S) <= rows /\ Cardinality(S) \in Nat
  BY <1>2, FS_Subset, FS_CardinalityType
<1>4. S \in SUBSET Int
  BY <1>1
<1>5. s \in Seq(S) /\ Len(s) = Cardinality(S) /\ \A e \in S : \E n \in 1 .. Len(s) : s[n] = e
  BY <1>3, <1>4, InOrderSorts
<1> HIDE DEF s
<1>6. DOMAIN s = 1 .. Len(s) /\ (\A n \in 1 .. Len(s) : s[n] \in S) /\ s = [n \in 1 .. Len(s) |-> s[n]]
  BY <1>5
<1>7. s \in Seq(1 .. rows)
  <2> DEFINE T == 1 .. rows
  <2>1. \A n \in 1 .. Len(s) : s[n] \in T
    BY <1>6
  <2> HIDE DEF T
  <2>2. Len(s) \in Nat
    BY <1>3, <1>5
  <2>3. s \in Seq(T)
    BY <1>6, <2>1, <2>2, SeqPointwise
  <2> QED
    BY <2>3 DEF T
<1>8. \A k : k \in Range(s) <=> k \in S
  BY <1>5, <1>6 DEF Range
<1>9. Len(s) \in 0 .. rows
  BY <1>1, <1>3, <1>5
<1> QED
  BY <1>7, <1>8, <1>9 DEF s

LEMMA BatchKeeps ==
  ASSUME IInv, NEW matches \in SUBSET Live, NEW patch \in Patch, BatchUpdate(matches, patch) PROVE IInv'
<1> DEFINE places == InOrder(matches)
           cols == [c \in Cols |-> IF c \notin DOMAIN patch THEN RowsCached(columns[c])
                                   ELSE SetAll(RowsCached(columns[c]), places, patch[c])]
           w == [c \in Cols |-> [i \in DOMAIN want[c] |->
                   IF c \in DOMAIN patch /\ i \in matches THEN patch[c] ELSE want[c][i]]]
<1>1. Ready /\ TypeOK /\ columns' = cols /\ want' = w /\ rows' = rows /\ ofSnapDB' = ofSnapDB /\ broken' = broken
  BY DEF BatchUpdate, IInv
<1>2. places \in Seq(1 .. rows) /\ \A k : k \in Range(places) <=> k \in matches
  BY <1>1, RowsInOrder DEF Live
<1> HIDE DEF places
<1>3. ASSUME NEW c \in Cols PROVE Good(cols[c], w[c]) /\ Len(w[c]) = rows
  <2> DEFINE a == RowsCached(columns[c])
             z == want[c]
             S == Accepts(columns[c])
  <2>1. Good(columns[c], z) /\ Len(z) = rows /\ z \in Seq(S) /\ DOMAIN z = 1 .. rows
    BY <1>1, ReadyGood
  <2>2. Good(a, z) /\ a.kind = columns[c].kind
    BY <2>1, CachedGood DEF RowsCached
  <2>3. z = [i \in 1 .. rows |-> z[i]] /\ rows \in Nat
    <3> HIDE DEF z, S
    <3> QED
      BY <2>1
  <2>4. CASE c \notin DOMAIN patch
    <3>1. cols[c] = a /\ w[c] = [i \in DOMAIN z |-> z[i]]
      BY <2>4
    <3> HIDE DEF cols, w, a, z
    <3>2. w[c] = z
      BY <2>1, <2>3, <3>1
    <3> QED
      BY <2>1, <2>2, <3>1, <3>2
  <2>5. CASE c \in DOMAIN patch
    <3> DEFINE v == patch[c]
               y == [i \in DOMAIN z |-> IF i \in Range(places) THEN v ELSE z[i]]
    <3>1. cols[c] = SetAll(a, places, v) /\ w[c] = [i \in DOMAIN z |-> IF i \in matches THEN v ELSE z[i]]
      BY <2>5
    <3>2. v \in S
      BY <1>1, <2>5, PatchAccepted
    <3> HIDE DEF cols, w, a, z, v
    <3>3. w[c] = y
      BY <1>2, <3>1
    <3>4. v \in Accepts(a) /\ places \in Seq(1 .. Len(z))
      BY <1>2, <2>1, <2>2, <3>2 DEF Accepts
    <3>5. Good(SetAll(a, places, v), y)
      BY <2>2, <3>4, SetAllGood
    <3>6. Len(y) = rows
      BY <2>1, <2>3
    <3> HIDE DEF y
    <3> QED
      BY <3>1, <3>3, <3>5, <3>6
  <2> QED
    BY <2>4, <2>5
<1>4. cols = [c \in Cols |-> cols[c]] /\ w = [c \in Cols |-> w[c]]
  BY Zenon
<1>5. rows' \in 0 .. MaxRows /\ ofSnapDB' \in BOOLEAN /\ broken' \in SUBSET Cols
  BY <1>1 DEF TypeOK
<1> HIDE DEF cols, w
<1> QED
  BY <1>1, <1>3, <1>4, <1>5, GoodKept

LEMMA ReadKeeps == ASSUME IInv, NEW d \in Cols, Read(d) PROVE IInv'
<1>1. Ready /\ TypeOK /\ want' = want /\ rows' = rows /\ ofSnapDB' = ofSnapDB /\ broken' = broken
  BY DEF Read, IInv
<1>2. PICK modes \in SUBSET {"delta", "for"} : columns' = [columns EXCEPT ![d] = Cached(@, modes)]
  <2>1. {"delta"} \in SUBSET {"delta", "for"} /\ {"delta", "for"} \in SUBSET {"delta", "for"}
    OBVIOUS
  <2>2. \/ columns' = [columns EXCEPT ![d] = Cached(@, {"delta"})]
        \/ columns' = [columns EXCEPT ![d] = Cached(@, {"delta", "for"})]
    BY DEF Read, RowsCached, AllCached
  <2> QED
    BY <2>1, <2>2
<1>3. columns = [c \in Cols |-> columns[c]] /\ want = [c \in Cols |-> want[c]]
  BY DEF IInv, TypeOK
<1> DEFINE cols == [columns EXCEPT ![d] = Cached(@, modes)]
<1>4. cols = [c \in Cols |-> cols[c]] /\ \A c \in Cols : cols[c] = IF c = d THEN Cached(columns[c], modes) ELSE columns[c]
  <2> HIDE DEF Cols
  <2> QED
    BY <1>3
<1> HIDE DEF cols
<1>5. ASSUME NEW c \in Cols PROVE Good(cols[c], want[c]) /\ Len(want[c]) = rows
  <2>1. Good(columns[c], want[c]) /\ Len(want[c]) = rows
    BY <1>1, ReadyGood
  <2>2. Good(Cached(columns[c], modes), want[c])
    BY <2>1, CachedGood
  <2> QED
    BY <1>4, <2>1, <2>2
<1>6. rows' \in 0 .. MaxRows /\ ofSnapDB' \in BOOLEAN /\ broken' \in SUBSET Cols
  BY <1>1 DEF TypeOK
<1>7. columns' = cols
  BY <1>2 DEF cols
<1> QED
  BY <1>1, <1>3, <1>4, <1>5, <1>6, <1>7, GoodKept


\* What compact rebuilds are columns, and those that it does not break read as
\* before.
LEMMA CompactKeeps == ASSUME IInv, Compact PROVE IInv'
<1> DEFINE kept == InOrder(Live)
           raising == {c \in Cols : RebuildRaises(columns[c], kept)}
           done == {c \in Cols : \A d \in raising : c < d}
           After(c) == CASE c \in done -> Rebuilt(columns[c], kept)
                         [] c \in raising /\ c - 1 \in done \cup {0} -> RowsCached(columns[c])
                         [] OTHER -> columns[c]
           cols == [c \in Cols |-> After(c)]
           w == [c \in Cols |-> Kept(want[c], kept)]
<1>1. /\ Ready /\ TypeOK /\ columns' = cols /\ ofSnapDB' = ofSnapDB
      /\ raising = {} => /\ rows' = Len(kept) /\ want' = w
                         /\ broken' = {c \in Cols : BreaksOn(c, kept)}
      /\ raising # {} => rows' = rows /\ want' = want /\ broken' = done
  BY DEF Compact, IInv
<1>2. kept \in Seq(1 .. rows) /\ Len(kept) \in 0 .. rows
  BY <1>1, RowsInOrder DEF Live
<1>3. \A c \in raising : c \in Cols /\ c \notin done
  <2>1. \A c \in Cols : ~(c < c)
    BY TableAssumption DEF TableAssumption, Cols
  <2> QED
    BY <2>1
<1>4. done \in SUBSET Cols /\ (raising = {} => done = Cols) /\ \A c \in Cols \ raising : ~RebuildRaises(columns[c], kept)
  OBVIOUS
<1> HIDE DEF kept, raising, done
<1>5. ASSUME NEW c \in Cols
      PROVE  /\ Good(columns[c], want[c]) /\ Fits(columns[c], want[c]) /\ Len(want[c]) = rows
             /\ kept \in Seq(1 .. Len(want[c])) /\ want[c] \in Seq(Accepts(columns[c]))
             /\ columns[c] \in ColumnType /\ Encodable(columns[c])
  BY <1>1, <1>2, ReadyGood DEF Good, Fits
<1>6. ASSUME NEW c \in Cols
      PROVE  cols[c] \in ColumnType /\ Encodable(cols[c])
  <2>1. CASE c \in done
    <3>1. cols[c] = Rebuilt(columns[c], kept)
      BY <1>3, <2>1
    <3>2. ~RebuildRaises(columns[c], kept)
      BY <1>3, <1>4, <2>1
    <3> HIDE DEF cols
    <3> QED
      BY <1>5, <3>1, <3>2, RebuiltTyped, ColumnAssumption
  <2>2. CASE c \notin done
    <3>1. cols[c] \in {RowsCached(columns[c]), columns[c]}
      BY <2>2
    <3>2. Good(RowsCached(columns[c]), want[c])
      BY <1>5, CachedGood DEF RowsCached
    <3>3. RowsCached(columns[c]) \in ColumnType /\ Encodable(RowsCached(columns[c]))
      BY <3>2 DEF Good, Fits
    <3> HIDE DEF cols
    <3> QED
      BY <1>5, <3>1, <3>3
  <2> QED
    BY <2>1, <2>2
<1>7. cols \in [Cols -> ColumnType] /\ \A c \in Cols : Encodable(cols[c])
  <2> HIDE DEF After
  <2>1. cols = [c \in Cols |-> cols[c]]
    BY Zenon
  <2> HIDE DEF cols
  <2> QED
    BY <1>6, <2>1
<1>8. CASE raising = {}
  <2>1. done = Cols
    BY <1>4, <1>8
  <2>2. ASSUME NEW c \in Cols
        PROVE  w[c] \in Seq(Int \cup {Null}) /\ Len(w[c]) = Len(kept) /\ (~BreaksOn(c, kept) => Good(cols[c], w[c]))
    <3>1. cols[c] = Rebuilt(columns[c], kept) /\ w[c] = Kept(want[c], kept)
      BY <1>8, <2>1
    <3>2. ~RebuildRaises(columns[c], kept)
      BY <1>4, <1>8
    <3> HIDE DEF cols, w
    <3>3. want[c] \in Seq(Int \cup {Null})
      BY DEF IInv
    <3>4. w[c] \in Seq(Int \cup {Null}) /\ Len(w[c]) = Len(kept)
      BY <1>5, <3>1, <3>3, KeptRows
    <3>5. ASSUME ~BreaksOn(c, kept) PROVE Good(cols[c], w[c])
      BY <1>5, <3>1, <3>2, <3>5, RebuiltGood, ColumnAssumption DEF BreaksOn
    <3> QED
      BY <3>4, <3>5
  <2>3. w = [c \in Cols |-> w[c]]
    BY Zenon
  <2> HIDE DEF cols, w
  <2>4. w \in [Cols -> Seq(Int \cup {Null})]
    BY <2>2, <2>3
  <2>5. rows' \in 0 .. MaxRows
    BY <1>1, <1>2, <1>8, TableAssumption DEF TypeOK, TableAssumption
  <2>6. broken' \in SUBSET Cols
    BY <1>1, <1>8
  <2>7. TypeOK'
    BY <1>1, <1>7, <2>5, <2>6 DEF TypeOK
  <2> QED
    BY <1>1, <1>8, <2>2, <2>4, <2>7 DEF IInv
<1>9. CASE raising # {}
  <2>1. \A c \in Cols \ done : Good(cols[c], want[c])
    <3>1. ASSUME NEW c \in Cols, c \notin done PROVE Good(cols[c], want[c])
      <4>1. cols[c] \in {RowsCached(columns[c]), columns[c]}
        BY <3>1
      <4>2. Good(RowsCached(columns[c]), want[c])
        BY <1>5, CachedGood DEF RowsCached
      <4> HIDE DEF cols
      <4> QED
        BY <1>5, <4>1, <4>2
    <3> QED
      BY <3>1
  <2> HIDE DEF cols, w
  <2>2. TypeOK'
    BY <1>1, <1>4, <1>7, <1>9 DEF TypeOK
  <2> QED
    BY <1>1, <1>9, <2>1, <2>2 DEF IInv
<1> QED
  BY <1>8, <1>9

\* The index that the largest live row has, or 0, is the last that close saves.
LEMMA LastLive ==
  ASSUME TypeOK
  PROVE  Max(Live \cup {0}) \in 0 .. rows /\ rows \in Nat
<1>1. rows \in Nat
  BY TableAssumption DEF TypeOK, TableAssumption
<1>2. Live \cup {0} \in SUBSET (0 .. rows)
  BY <1>1 DEF Live
<1> DEFINE S == Live \cup {0}
           T == {rows - x : x \in S}
<1> HIDE DEF S
<1>3. S \in SUBSET (0 .. rows) /\ 0 \in S
  BY <1>2 DEF S
<1>4. T \in SUBSET Nat /\ T # {}
  BY <1>1, <1>3
<1>5. PICK t \in T : \A y \in T : t <= y
  BY <1>4, NatLeast
<1>6. PICK m \in S : t = rows - m
  BY <1>5
<1>7. \A x \in S : m >= x
  <2>1. ASSUME NEW x \in S PROVE m >= x
    <3>1. rows - m <= rows - x
      BY <1>5, <1>6
    <3> QED
      BY <1>1, <1>3, <1>6, <3>1
  <2> QED
    BY <2>1
<1>8. Max(S) \in S
  BY <1>6, <1>7, Zenon DEF Max
<1> QED
  BY <1>1, <1>3, <1>8 DEF S

LEMMA ReopenKeeps == ASSUME IInv, Reopen PROVE IInv'
<1> DEFINE last == Max(Live \cup {0})
           cols == [c \in Cols |-> Filled(columns[c].kind, [i \in 1..last |-> RowAt(i)[c]])]
           w == [c \in Cols |-> SubSeq(want[c], 1, last)]
<1>1. /\ Ready /\ TypeOK /\ columns' = cols /\ want' = w /\ rows' = last
      /\ ofSnapDB' = ofSnapDB /\ broken' = broken
  BY DEF Reopen, IInv
<1>2. last \in 0 .. rows /\ rows \in Nat
  BY <1>1, LastLive
<1> HIDE DEF last
<1>3. ASSUME NEW c \in Cols PROVE Good(cols[c], w[c]) /\ Len(w[c]) = last
  <2> DEFINE z == want[c]
             S == Accepts(columns[c])
             kind == columns[c].kind
             values == [i \in 1..last |-> RowAt(i)[c]]
             y == SubSeq(z, 1, last)
  <2>1. Good(columns[c], z) /\ Len(z) = rows /\ kind \in Kinds /\ z \in Seq(S)
    BY <1>1, ReadyGood
  <2>2. Accepts(NewColumn(kind)) = S
    BY NewGood, <2>1 DEF Accepts
  <2>3. ASSUME NEW i \in 1 .. last PROVE values[i] = z[i]
    <3>1. values[i] = Get(columns[c], i)
      BY DEF RowAt
    <3>2. i \in 1 .. Len(z)
      BY <1>2, <2>1
    <3> HIDE DEF values, z
    <3> QED
      BY <2>1, <3>1, <3>2, GoodGets
  <2>4. cols[c] = Filled(kind, values) /\ w[c] = y
    OBVIOUS
  <2>5. values = [i \in 1 .. last |-> values[i]]
    OBVIOUS
  <2> HIDE DEF cols, w, z, S, kind, values, Cols
  <2>6. y \in Seq(S) /\ Len(y) = last /\ y = [i \in 1 .. last |-> z[i]]
    BY <1>2, <2>1
  <2> HIDE DEF y
  <2>7. values = y
    BY <2>3, <2>5, <2>6
  <2>8. Good(Filled(kind, values), values)
    BY <2>1, <2>2, <2>6, <2>7, FilledGood, ColumnAssumption
  <2> QED
    BY <2>4, <2>6, <2>7, <2>8
<1>4. cols = [c \in Cols |-> cols[c]] /\ w = [c \in Cols |-> w[c]]
  BY Zenon
<1>5. rows' \in 0 .. MaxRows /\ ofSnapDB' \in BOOLEAN /\ broken' \in SUBSET Cols
  BY <1>1, <1>2, TableAssumption DEF TypeOK, TableAssumption
<1> HIDE DEF cols, w
<1> QED
  BY <1>1, <1>3, <1>4, <1>5, GoodKept


LEMMA StutterKeeps == ASSUME IInv, UNCHANGED vars PROVE IInv'
<1>1. /\ ofSnapDB' = ofSnapDB /\ columns' = columns /\ rows' = rows /\ want' = want /\ broken' = broken
  BY DEF vars
<1>2. TypeOK'
  BY <1>1 DEF IInv, TypeOK
<1> QED
  BY <1>1, <1>2 DEF IInv

LEMMA NextKeeps == ASSUME IInv, [Next]_vars PROVE IInv'
<1>1. ASSUME NEW row \in Row, Insert(row) PROVE IInv'
  BY <1>1, InsertKeeps
<1>2. ASSUME NEW patch \in Patch, NEW i \in Live, Update(i, patch) PROVE IInv'
  BY <1>2, UpdateKeeps
<1>3. ASSUME NEW patch \in Patch, NEW matches \in SUBSET Live \ {{}}, BatchUpdate(matches, patch) PROVE IInv'
  BY <1>3, BatchKeeps
<1>4. ASSUME NEW i \in 1 .. rows, Delete(i) PROVE IInv'
  BY <1>4, DeleteKeeps
<1>5. ASSUME NEW c \in Cols, Read(c) PROVE IInv'
  BY <1>5, ReadKeeps
<1>6. CASE Compact
  BY <1>6, CompactKeeps
<1>7. CASE Reopen
  BY <1>7, ReopenKeeps
<1>8. CASE UNCHANGED vars
  BY <1>8, StutterKeeps
<1> QED
  BY <1>1, <1>2, <1>3, <1>4, <1>5, <1>6, <1>7, <1>8 DEF Next

\* After any calls of columnar.py's ColumnarTable (insert, update, delete, batch
\* updates, scans, compact, close and open), the columns that no compact broke
\* encode what was last written to each of their rows.
THEOREM ColumnsHold == Spec => []IInv
<1>1. Init => IInv
  BY InitKeeps
<1>2. IInv /\ [Next]_vars => IInv'
  BY NextKeeps
<1> QED
  BY <1>1, <1>2, PTL DEF Spec

\* TypeOK holds throughout: append and __setitem__ of columnar.py never leave a
\* code without its value, a delta that its array type does not hold, or a value
\* outside of its window, nor does compact in the columns it rebuilds.
THEOREM TypeCorrect == Spec => []TypeOK
<1>1. IInv => TypeOK
  BY DEF IInv
<1> QED
  BY <1>1, ColumnsHold, PTL

\* A column that holds what was written reads so.
LEMMA GoodExact ==
  ASSUME NEW c, Good(columns[c], want[c])
  PROVE  Exact(c)
<1> DEFINE d == columns[c]
           w == want[c]
<1>1. Good(d, w)
  OBVIOUS
<1> HIDE DEF d, w
<1>2. Rows(d) = Len(w)
  BY <1>1 DEF Rows, Good
<1>3. \A i \in 1 .. Rows(d) : Get(d, i) = w[i]
  BY <1>1, <1>2, GoodGets
<1>4. Null \notin Range(w) => Aggregated(d) = w
  BY <1>1, GoodAggregates
<1> QED
  BY <1>2, <1>3, <1>4 DEF Exact, d, w

\* ReadsBack holds throughout: whatever the encodings of columnar.py that a column
\* went through, __getitem__, tolist and the aggregates give what was last
\* written, for every number of columns and rows, all thresholds, and all values.
THEOREM ReadsBackCorrect == Spec => []ReadsBack
<1>1. IInv => ReadsBack
  <2> SUFFICES ASSUME IInv, NEW c \in Cols \ broken PROVE Exact(c)
    BY DEF ReadsBack
  <2>1. Good(columns[c], want[c])
    BY DEF IInv
  <2> QED
    BY <2>1, GoodExact
<1> QED
  BY <1>1, ColumnsHold, PTL
=============================================================================
