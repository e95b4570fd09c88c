--------------------------- MODULE GeneralLemmas ---------------------------
(***************************************************************************)
(* What the proofs need of numbers and sequences: dividing rows into slabs,*)
(* as compact, batch_insert and get do; induction on the naturals over a   *)
(* given set; and what it gives of sequences of sequences put together:    *)
(* FlattenSeq of the community modules, of which queries are made.         *)
(***************************************************************************)
EXTENDS Integers, Sequences, FiniteSets, SequencesExt, SequenceTheorems, WellFoundedInduction, FiniteSetTheorems, TLAPS

-----------------------------------------------------------------------------
(* Quotients.                                                              *)

\* Quotient and remainder, as the provers know them.
LEMMA DivMod ==
  ASSUME NEW a \in Nat, NEW r \in Nat \ {0}
  PROVE  /\ a \div r \in Nat
         /\ a % r \in 0..r - 1
         /\ a = r * (a \div r) + (a % r)
OBVIOUS

\* A slot number below q slabs lies in one of the first q slabs.
LEMMA DivBelow ==
  ASSUME NEW a \in Nat, NEW r \in Nat \ {0}, NEW q \in Nat, a < q * r
  PROVE  a \div r < q
<1>1. a = r * (a \div r) + (a % r) /\ a \div r \in Nat /\ a % r \in 0..r - 1
  BY DivMod
<1>2. CASE a \div r >= q
  <2>1. r * (a \div r) >= r * q
    BY <1>1, <1>2
  <2>. QED BY <1>1, <2>1
<1>. QED BY <1>1, <1>2

\* What core.py:1583 computes by rounding up: the slabs that n rows need.
LEMMA Ceiling ==
  ASSUME NEW n \in Nat \ {0}, NEW r \in Nat \ {0}
  PROVE  LET s == (n + r - 1) \div r
         IN  s \in Nat \ {0} /\ (s - 1) * r < n /\ n <= s * r
<1>. DEFINE s == (n + r - 1) \div r
<1>1. n + r - 1 = r * s + ((n + r - 1) % r) /\ s \in Nat /\ (n + r - 1) % r \in 0..r - 1
  BY DivMod, n + r - 1 \in Nat
<1>2. n <= r * s /\ r * s - r < n
  BY <1>1
<1>3. s # 0
  BY <1>1, <1>2
<1>4. (s - 1) * r = r * s - r
  BY <1>1
<1>. QED BY <1>1, <1>2, <1>3, <1>4

\* Quotient and remainder are the only ones.
LEMMA DivUnique ==
  ASSUME NEW a \in Nat, NEW r \in Nat \ {0}, NEW q \in Nat, NEW b \in 0..r - 1, a = q * r + b
  PROVE  a \div r = q /\ a % r = b
<1>1. PICK d \in Nat, e \in 0..r - 1 : d = a \div r /\ e = a % r /\ a = r * d + e
  BY DivMod
<1>2. CASE d < q
  <2>1. r * (d + 1) <= r * q
    BY <1>2
  <2>. QED BY <1>1, <2>1
<1>3. CASE q < d
  <2>1. r * (q + 1) <= r * d
    BY <1>3
  <2>. QED BY <1>1, <2>1
<1>4. CASE d = q
  BY <1>1, <1>4
<1>. QED BY <1>2, <1>3, <1>4

-----------------------------------------------------------------------------
(* Sequences.                                                              *)

-----------------------------------------------------------------------------
(* Induction.                                                              *)

\* A set of naturals has a least element.
LEMMA NatLeast ==
  ASSUME NEW T \in SUBSET Nat, T # {}
  PROVE  \E x \in T : \A y \in T : x <= y
<1> DEFINE R == {ss \in Nat \X Nat : ss[1] < ss[2]}
<1>1. IsWellFoundedOn(R, Nat)
  BY NatLessThanWellFounded DEF OpToRel
<1> HIDE DEF R
<1>2. PICK x \in T : \A y \in T : ~(<<y, x>> \in R)
  BY <1>1, WFMin
<1>3. ASSUME NEW y \in T
      PROVE  x <= y
  <2>1. ~(y < x)
    BY <1>2 DEF R
  <2> QED
    BY <2>1
<1> QED
  BY <1>3

\* A set with 0 that is closed under the successor has all naturals up to n.
LEMMA NatUpTo ==
  ASSUME NEW n \in Nat, NEW P, 0 \in P, \A m \in 0 .. n - 1 : m \in P => m + 1 \in P
  PROVE  \A m \in 0 .. n : m \in P
<1> DEFINE T == {m \in 0 .. n : m \notin P}
<1> SUFFICES ASSUME T # {} PROVE FALSE
  OBVIOUS
<1>1. T \in SUBSET Nat
  OBVIOUS
<1> HIDE DEF T
<1>2. PICK x \in T : \A y \in T : x <= y
  BY <1>1, NatLeast
<1>3. x \in 0 .. n /\ x \notin P
  BY <1>2 DEF T
<1>4. x # 0
  BY <1>3
<1>5. x - 1 \in 0 .. n - 1 /\ x - 1 \notin T
  BY <1>2, <1>3, <1>4
<1>6. x - 1 \in P
  BY <1>5 DEF T
<1> QED
  BY <1>3, <1>5, <1>6

-----------------------------------------------------------------------------
(* FlattenSeq.                                                             *)

\* The function by which FlattenSeq is defined exists.
LEMMA FlattenExists ==
  ASSUME NEW parts, Len(parts) \in Nat
  PROVE  \A n \in 0 .. Len(parts) : \E f :
           f = [i \in 1 .. n |-> IF i = 1 THEN parts[i] ELSE f[i - 1] \o parts[i]]
<1> DEFINE Q(f, n) == f = [i \in 1 .. n |-> IF i = 1 THEN parts[i] ELSE f[i - 1] \o parts[i]]
           P == {n \in 0 .. Len(parts) : \E f : Q(f, n)}
<1>1. 0 \in P
  <2>1. Q([i \in 1 .. 0 |-> {}], 0)
    OBVIOUS
  <2> HIDE DEF Q
  <2> QED
    BY <2>1
<1>2. ASSUME NEW n \in 0 .. Len(parts) - 1, n \in P
      PROVE  n + 1 \in P
  <2>1. PICK f : Q(f, n)
    BY <1>2
  <2> DEFINE g == [i \in 1 .. n + 1 |-> IF i <= n THEN f[i] ELSE IF i = 1 THEN parts[i] ELSE f[i - 1] \o parts[i]]
  <2>2. \A i \in 1 .. n : f[i] = IF i = 1 THEN parts[i] ELSE f[i - 1] \o parts[i]
    BY <2>1
  <2>3. \A i \in 1 .. n + 1 : g[i] = IF i = 1 THEN parts[i] ELSE g[i - 1] \o parts[i]
    <3>1. ASSUME NEW i \in 1 .. n + 1 PROVE g[i] = IF i = 1 THEN parts[i] ELSE g[i - 1] \o parts[i]
      <4>1. i # 1 => i - 1 \in 1 .. n /\ g[i - 1] = f[i - 1]
        OBVIOUS
      <4>2. CASE i <= n
        BY <2>2, <4>1, <4>2
      <4>3. CASE ~(i <= n)
        BY <4>1, <4>3
      <4> QED
        BY <4>2, <4>3
    <3> QED
      BY <3>1
  <2>4. g = [i \in 1 .. n + 1 |-> g[i]]
    OBVIOUS
  <2> HIDE DEF g
  <2>5. Q(g, n + 1)
    BY <2>3, <2>4
  <2> HIDE DEF Q
  <2> QED
    BY <2>5
<1>3. \A n \in 0 .. Len(parts) : n \in P
  <2> HIDE DEF P
  <2> QED
    BY <1>1, <1>2, NatUpTo
<1> QED
  BY <1>3

\* FlattenSeq puts one part behind the other.
LEMMA FlattenPrefixes ==
  ASSUME NEW S, NEW parts \in Seq(Seq(S))
  PROVE  \E f \in [0 .. Len(parts) -> Seq(S)] :
           /\ f[0] = <<>> /\ FlattenSeq(parts) = f[Len(parts)]
           /\ \A n \in 1 .. Len(parts) : f[n] = f[n - 1] \o parts[n]
<1>1. Len(parts) \in Nat /\ \A n \in 1 .. Len(parts) : parts[n] \in Seq(S)
  OBVIOUS
<1>2. CASE Len(parts) = 0
  <2>1. FlattenSeq(parts) = <<>>
    BY <1>2, EmptySeq DEF FlattenSeq
  <2> DEFINE f == [n \in 0 .. 0 |-> <<>>]
  <2>2. f \in [0 .. Len(parts) -> Seq(S)] /\ f[0] = <<>> /\ \A n \in 1 .. Len(parts) : FALSE
    BY <1>2
  <2> QED
    BY <1>2, <2>1, <2>2
<1>3. CASE Len(parts) # 0
  <2> DEFINE Q(h) == h = [i \in 1 .. Len(parts) |-> IF i = 1 THEN parts[i] ELSE h[i - 1] \o parts[i]]
             g == CHOOSE h : Q(h)
  <2>1. \E h : Q(h)
    <3>1. Len(parts) \in 0 .. Len(parts)
      BY <1>1
    <3> QED
      BY <1>1, <3>1, FlattenExists
  <2>2. Q(g)
    BY <2>1
  <2>3. FlattenSeq(parts) = g[Len(parts)]
    BY <1>3 DEF FlattenSeq
  <2> HIDE DEF g
  <2>4. \A i \in 1 .. Len(parts) : g[i] = IF i = 1 THEN parts[i] ELSE g[i - 1] \o parts[i]
    BY <2>2
  <2> DEFINE f == [n \in 0 .. Len(parts) |-> IF n = 0 THEN <<>> ELSE g[n]]
             P == {n \in 0 .. Len(parts) : f[n] \in Seq(S)}
  <2>5. \A n \in 1 .. Len(parts) : f[n] = g[n] /\ f[n - 1] = IF n = 1 THEN <<>> ELSE g[n - 1]
    BY <1>1
  <2>6. f[0] = <<>> /\ 0 \in P
    BY <1>1
  <2> HIDE DEF f
  <2>7. ASSUME NEW n \in 0 .. Len(parts) - 1, f[n] \in Seq(S)
        PROVE  f[n + 1] = f[n] \o parts[n + 1] /\ f[n + 1] \in Seq(S)
    <3>1. n + 1 \in 1 .. Len(parts) /\ (n + 1) - 1 = n /\ parts[n + 1] \in Seq(S)
      BY <1>1
    <3>2. CASE n = 0
      <4>1. <<>> \o parts[n + 1] = parts[n + 1]
        BY <3>1
      <4>2. f[n + 1] = parts[n + 1]
        BY <2>4, <2>5, <3>1, <3>2
      <4> QED
        BY <2>6, <3>1, <3>2, <4>1, <4>2
    <3>3. CASE n # 0
      <4>1. f[n + 1] = g[n + 1] /\ f[n] = g[n]
        BY <2>5, <3>1, <3>3
      <4>2. g[n + 1] = g[n] \o parts[n + 1]
        <5>1. n + 1 # 1 /\ n + 1 \in 1 .. Len(parts)
          BY <3>1, <3>3
        <5>2. g[n + 1] = g[(n + 1) - 1] \o parts[n + 1]
          BY <2>4, <5>1
        <5> QED
          BY <3>1, <5>2
      <4> QED
        BY <2>7, <3>1, <4>1, <4>2
    <3> QED
      BY <3>2, <3>3
  <2>8. \A n \in 0 .. Len(parts) : n \in P
    <3>1. ASSUME NEW n \in 0 .. Len(parts) - 1, n \in P
          PROVE  n + 1 \in P
      <4>1. n + 1 \in 0 .. Len(parts) /\ f[n] \in Seq(S)
        BY <1>1, <3>1
      <4> QED
        BY <2>7, <4>1
    <3> HIDE DEF P
    <3> QED
      BY <1>1, <2>6, <3>1, NatUpTo
  <2>9. \A n \in 1 .. Len(parts) : f[n] = f[n - 1] \o parts[n]
    <3>1. ASSUME NEW n \in 1 .. Len(parts) PROVE f[n] = f[n - 1] \o parts[n]
      <4>1. n - 1 \in 0 .. Len(parts) - 1 /\ (n - 1) + 1 = n /\ f[n - 1] \in Seq(S)
        BY <1>1, <2>8
      <4> QED
        BY <2>7, <4>1
    <3> QED
      BY <3>1
  <2>10. f \in [0 .. Len(parts) -> Seq(S)]
    BY <2>8 DEF f
  <2>11. FlattenSeq(parts) = f[Len(parts)]
    BY <1>1, <1>3, <2>3, <2>5
  <2> QED
    BY <2>6, <2>9, <2>10, <2>11
<1> QED
  BY <1>2, <1>3


\* Two places of the first n parts, one behind the other, that hold x and y.
Follow(parts, n, x, y) ==
  \E a, z \in 1 .. n : \E c \in 1 .. Len(parts[a]), d \in 1 .. Len(parts[z]) :
    /\ x = parts[a][c] /\ y = parts[z][d]
    /\ a < z \/ (a = z /\ c < d)

\* Where the elements of a flattened sequence come from, in which order.
LEMMA FlattenOrder ==
  ASSUME NEW S, NEW parts \in Seq(Seq(S))
  PROVE  /\ FlattenSeq(parts) \in Seq(S)
         /\ \A i \in 1 .. Len(FlattenSeq(parts)) : \E a \in 1 .. Len(parts) :
              \E c \in 1 .. Len(parts[a]) : FlattenSeq(parts)[i] = parts[a][c]
         /\ \A a \in 1 .. Len(parts) : \A c \in 1 .. Len(parts[a]) :
              \E i \in 1 .. Len(FlattenSeq(parts)) : FlattenSeq(parts)[i] = parts[a][c]
         /\ \A i, j \in 1 .. Len(FlattenSeq(parts)) :
              i < j => Follow(parts, Len(parts), FlattenSeq(parts)[i], FlattenSeq(parts)[j])
<1>1. PICK f \in [0 .. Len(parts) -> Seq(S)] :
           /\ f[0] = <<>> /\ FlattenSeq(parts) = f[Len(parts)]
           /\ \A n \in 1 .. Len(parts) : f[n] = f[n - 1] \o parts[n]
  BY FlattenPrefixes
<1>2. Len(parts) \in Nat /\ \A n \in 1 .. Len(parts) : parts[n] \in Seq(S) /\ Len(parts[n]) \in Nat
  OBVIOUS
<1> DEFINE From(n) == \A i \in 1 .. Len(f[n]) : \E a \in 1 .. n : \E c \in 1 .. Len(parts[a]) : f[n][i] = parts[a][c]
           Into(n) == \A a \in 1 .. n : \A c \in 1 .. Len(parts[a]) : \E i \in 1 .. Len(f[n]) : f[n][i] = parts[a][c]
           Behind(n) == \A i, j \in 1 .. Len(f[n]) : i < j => Follow(parts, n, f[n][i], f[n][j])
           P == {n \in 0 .. Len(parts) : From(n) /\ Into(n) /\ Behind(n)}
<1>3. From(0) /\ Into(0) /\ Behind(0)
  <2>1. Len(f[0]) = 0
    BY <1>1
  <2> QED
    BY <2>1
<1>4. ASSUME NEW n \in 0 .. Len(parts) - 1, From(n), Into(n), Behind(n)
      PROVE  From(n + 1) /\ Into(n + 1) /\ Behind(n + 1)
  <2>1. n + 1 \in 1 .. Len(parts) /\ n \in Nat /\ f[n] \in Seq(S) /\ parts[n + 1] \in Seq(S)
    <3>1. n + 1 \in 1 .. Len(parts) /\ n \in 0 .. Len(parts) /\ n \in Nat
      BY <1>2
    <3> QED
      BY <1>1, <1>2, <3>1
  <2>2. f[n + 1] = f[n] \o parts[n + 1]
    <3>1. f[n + 1] = f[(n + 1) - 1] \o parts[n + 1]
      BY <1>1, <2>1
    <3>2. (n + 1) - 1 = n
      BY <2>1
    <3> QED
      BY <3>1, <3>2
  <2> DEFINE l == Len(f[n])
             t == Len(parts[n + 1])
             g == f[n + 1]
  <2>3. /\ l \in Nat /\ t \in Nat /\ Len(g) = l + t
        /\ \A i \in 1 .. l + t : g[i] = IF i <= l THEN f[n][i] ELSE parts[n + 1][i - l]
    <3>1. /\ Len(f[n] \o parts[n + 1]) = Len(f[n]) + Len(parts[n + 1])
          /\ \A i \in 1 .. Len(f[n]) + Len(parts[n + 1]) :
               (f[n] \o parts[n + 1])[i] = IF i <= Len(f[n]) THEN f[n][i] ELSE parts[n + 1][i - Len(f[n])]
      BY <2>1, ConcatProperties
    <3>2. Len(f[n]) \in Nat /\ Len(parts[n + 1]) \in Nat
      BY <2>1
    <3> QED
      BY <2>2, <3>1, <3>2
  <2> HIDE DEF l, t, g
  <2>4. /\ \A i \in 1 .. l : i \in 1 .. l + t /\ g[i] = f[n][i]
        /\ \A c \in 1 .. t : l + c \in 1 .. l + t /\ g[l + c] = parts[n + 1][c]
    <3>1. ASSUME NEW c \in 1 .. t PROVE l + c \in 1 .. l + t /\ g[l + c] = parts[n + 1][c]
      <4>1. l + c \in 1 .. l + t /\ ~(l + c <= l) /\ (l + c) - l = c
        BY <2>3
      <4> QED
        BY <2>3, <4>1
    <3>2. ASSUME NEW i \in 1 .. l PROVE i \in 1 .. l + t /\ g[i] = f[n][i]
      <4>1. i \in 1 .. l + t /\ i <= l
        BY <2>3
      <4> QED
        BY <2>3, <4>1
    <3> QED
      BY <3>1, <3>2
  <2>5. \A i \in 1 .. l + t : i \in 1 .. l \/ (i - l \in 1 .. t /\ i = l + (i - l))
    BY <2>3
  <2>6. n + 1 \in 1 .. n + 1 /\ \A a \in 1 .. n : a \in 1 .. n + 1 /\ a < n + 1
    BY <2>1
  <2>7. From(n + 1)
    <3> SUFFICES ASSUME NEW i \in 1 .. l + t
                 PROVE  \E a \in 1 .. n + 1 : \E c \in 1 .. Len(parts[a]) : g[i] = parts[a][c]
      BY <2>3 DEF g
    <3>1. CASE i \in 1 .. l
      <4>1. PICK a \in 1 .. n : \E c \in 1 .. Len(parts[a]) : f[n][i] = parts[a][c]
        BY <1>4, <3>1 DEF l
      <4> QED
        BY <2>4, <2>6, <3>1, <4>1
    <3>2. CASE i - l \in 1 .. t /\ i = l + (i - l)
      BY <2>4, <2>6, <3>2 DEF t
    <3> QED
      BY <2>5, <3>1, <3>2
  <2>8. Into(n + 1)
    <3> SUFFICES ASSUME NEW a \in 1 .. n + 1, NEW c \in 1 .. Len(parts[a])
                 PROVE  \E i \in 1 .. l + t : g[i] = parts[a][c]
      BY <2>3 DEF g
    <3>1. CASE a \in 1 .. n
      <4>1. PICK i \in 1 .. l : f[n][i] = parts[a][c]
        BY <1>4, <3>1 DEF l
      <4> QED
        BY <2>4, <4>1
    <3>2. CASE a = n + 1
      <4>1. c \in 1 .. t
        BY <3>2 DEF t
      <4> QED
        BY <2>4, <3>2, <4>1
    <3> QED
      BY <2>1, <3>1, <3>2
  <2>9. Behind(n + 1)
    <3> SUFFICES ASSUME NEW i \in 1 .. l + t, NEW j \in 1 .. l + t, i < j
                 PROVE  Follow(parts, n + 1, g[i], g[j])
      BY <2>3 DEF g
    <3>1. CASE i \in 1 .. l /\ j \in 1 .. l
      <4>1. Follow(parts, n, f[n][i], f[n][j])
        BY <1>4, <3>1 DEF l
      <4> QED
        <5>1. /\ g[i] = f[n][i] /\ g[j] = f[n][j]
              /\ \A a \in 1 .. n : a \in 1 .. n + 1
          BY <2>4, <2>6, <3>1
        <5> QED
          BY <4>1, <5>1 DEF Follow
    <3>2. CASE i \in 1 .. l /\ j - l \in 1 .. t /\ j = l + (j - l)
      <4>1. PICK a \in 1 .. n : \E c \in 1 .. Len(parts[a]) : f[n][i] = parts[a][c]
        BY <1>4, <3>2 DEF l
      <4>2. g[i] = f[n][i] /\ g[j] = parts[n + 1][j - l] /\ j - l \in 1 .. Len(parts[n + 1])
        BY <2>4, <3>2 DEF t
      <4> QED
        BY <2>6, <4>1, <4>2 DEF Follow
    <3>3. CASE i - l \in 1 .. t /\ i = l + (i - l)
      <4>1. j - l \in 1 .. t /\ j = l + (j - l) /\ i - l < j - l
        BY <2>3, <3>3
      <4>2. /\ g[i] = parts[n + 1][i - l] /\ i - l \in 1 .. Len(parts[n + 1])
            /\ g[j] = parts[n + 1][j - l] /\ j - l \in 1 .. Len(parts[n + 1])
        BY <2>4, <3>3, <4>1 DEF t
      <4> QED
        BY <2>6, <4>1, <4>2 DEF Follow
    <3> QED
      BY <2>5, <3>1, <3>2, <3>3
  <2> QED
    BY <2>7, <2>8, <2>9
<1>5. Len(parts) \in P
  <2>1. 0 \in P
    BY <1>2, <1>3
  <2>2. ASSUME NEW n \in 0 .. Len(parts) - 1, n \in P PROVE n + 1 \in P
    <3>1. n + 1 \in 0 .. Len(parts) /\ From(n) /\ Into(n) /\ Behind(n)
      BY <1>2, <2>2
    <3> HIDE DEF From, Into, Behind
    <3> QED
      BY <1>4, <3>1
  <2> HIDE DEF P
  <2>3. \A m \in 0 .. Len(parts) : m \in P
    BY <1>2, <2>1, <2>2, NatUpTo
  <2>4. Len(parts) \in 0 .. Len(parts)
    BY <1>2
  <2> QED
    BY <2>3, <2>4
<1>6. f[Len(parts)] \in Seq(S)
  <2>1. Len(parts) \in 0 .. Len(parts)
    BY <1>2
  <2> QED
    BY <1>1, <2>1, Zenon
<1> QED
  BY <1>1, <1>5, <1>6


\* What is in one of the parts, and nothing else.
LEMMA FlattenElements ==
  ASSUME NEW S, NEW parts \in Seq(Seq(S))
  PROVE  \A x : x \in ToSet(FlattenSeq(parts)) <=> \E a \in 1 .. Len(parts) : x \in ToSet(parts[a])
<1> DEFINE F == FlattenSeq(parts)
<1>1. /\ F \in Seq(S)
      /\ \A i \in 1 .. Len(F) : \E a \in 1 .. Len(parts) : \E c \in 1 .. Len(parts[a]) : F[i] = parts[a][c]
      /\ \A a \in 1 .. Len(parts) : \A c \in 1 .. Len(parts[a]) : \E i \in 1 .. Len(F) : F[i] = parts[a][c]
  BY FlattenOrder
<1>2. DOMAIN F = 1 .. Len(F) /\ \A a \in 1 .. Len(parts) : DOMAIN parts[a] = 1 .. Len(parts[a])
  BY <1>1
<1> HIDE DEF F
<1>3. \A x : x \in ToSet(F) <=> \E a \in 1 .. Len(parts) : x \in ToSet(parts[a])
  <2>1. \A x : x \in ToSet(F) <=> \E i \in 1 .. Len(F) : x = F[i]
    BY <1>2 DEF ToSet
  <2>2. \A a \in 1 .. Len(parts) : \A x : x \in ToSet(parts[a]) <=> \E c \in 1 .. Len(parts[a]) : x = parts[a][c]
    BY <1>2 DEF ToSet
  <2>3. ASSUME NEW x, x \in ToSet(F) PROVE \E a \in 1 .. Len(parts) : x \in ToSet(parts[a])
    <3>1. PICK i \in 1 .. Len(F) : x = F[i]
      BY <2>1, <2>3
    <3>2. PICK a \in 1 .. Len(parts) : \E c \in 1 .. Len(parts[a]) : F[i] = parts[a][c]
      BY <1>1
    <3> QED
      BY <2>2, <3>1, <3>2
  <2>4. ASSUME NEW x, NEW a \in 1 .. Len(parts), x \in ToSet(parts[a]) PROVE x \in ToSet(F)
    <3>1. PICK c \in 1 .. Len(parts[a]) : x = parts[a][c]
      BY <2>2, <2>4
    <3>2. \E i \in 1 .. Len(F) : F[i] = parts[a][c]
      BY <1>1
    <3> QED
      BY <2>1, <3>1, <3>2
  <2> QED
    BY <2>3, <2>4
<1> QED
  BY <1>3 DEF F

\* Each element stands in the sequence once.
Once(s) == \A i, j \in 1 .. Len(s) : i < j => s[i] # s[j]

\* Parts that have each of their elements once and none in common.
LEMMA FlattenOnce ==
  ASSUME NEW S, NEW parts \in Seq(Seq(S)), \A a \in 1 .. Len(parts) : Once(parts[a]),
         \A a, z \in 1 .. Len(parts) : a # z => ToSet(parts[a]) \cap ToSet(parts[z]) = {}
  PROVE  Once(FlattenSeq(parts))
<1> DEFINE F == FlattenSeq(parts)
<1>1. \A i, j \in 1 .. Len(F) : i < j => Follow(parts, Len(parts), F[i], F[j])
  BY FlattenOrder
<1>2. ASSUME NEW x, NEW y, Follow(parts, Len(parts), x, y)
      PROVE  x # y
  <2>1. PICK a, z \in 1 .. Len(parts) : \E c \in 1 .. Len(parts[a]), d \in 1 .. Len(parts[z]) :
               /\ x = parts[a][c] /\ y = parts[z][d]
               /\ a < z \/ (a = z /\ c < d)
    BY <1>2 DEF Follow
  <2>2. x \in ToSet(parts[a]) /\ y \in ToSet(parts[z])
    BY <2>1 DEF ToSet
  <2>3. CASE a # z
    BY <2>2, <2>3
  <2>4. CASE a = z
    BY <2>1, <2>4 DEF Once
  <2> QED
    BY <2>3, <2>4
<1> HIDE DEF F
<1>3. Once(F)
  BY <1>1, <1>2 DEF Once
<1> QED
  BY <1>3 DEF F

\* A sequence with each of its elements once is as long as they are many.
LEMMA OnceLength ==
  ASSUME NEW S, NEW s \in Seq(S), Once(s)
  PROVE  IsFiniteSet(ToSet(s)) /\ Cardinality(ToSet(s)) = Len(s)
<1>1. Len(s) \in Nat /\ DOMAIN s = 1 .. Len(s)
  OBVIOUS
<1>2. s \in [1 .. Len(s) -> ToSet(s)]
  BY <1>1 DEF ToSet
<1>3. \A a, z \in 1 .. Len(s) : s[a] = s[z] => a = z
  <2>1. ASSUME NEW a \in 1 .. Len(s), NEW z \in 1 .. Len(s), s[a] = s[z], a # z
        PROVE  FALSE
    <3>1. a < z \/ z < a
      BY <1>1, <2>1
    <3> QED
      BY <2>1, <3>1 DEF Once
  <2> QED
    BY <2>1
<1>4. \A x \in ToSet(s) : \E a \in 1 .. Len(s) : s[a] = x
  BY <1>1 DEF ToSet
<1>5. s \in Bijection(1 .. Len(s), ToSet(s))
  BY <1>2, <1>3, <1>4 DEF Bijection, Injection, Surjection, IsInjective
<1>6. ExistsBijection(1 .. Len(s), ToSet(s))
  BY <1>5 DEF ExistsBijection
<1> QED
  BY <1>1, <1>6, FS_CountingElements, FS_NatBijection

\* The elements of a sequence one by one, and nothing behind them.
LEMMA FlattenOnes ==
  ASSUME NEW S, NEW s \in Seq(S), NEW m \in Nat, Len(s) <= m
  PROVE  FlattenSeq([n \in 1 .. m |-> IF n <= Len(s) THEN <<s[n]>> ELSE <<>>]) = s
<1> DEFINE parts == [n \in 1 .. m |-> IF n <= Len(s) THEN <<s[n]>> ELSE <<>>]
<1>1. /\ Len(s) \in Nat /\ parts \in Seq(Seq(S)) /\ Len(parts) = m
      /\ \A n \in 1 .. m : parts[n] = IF n <= Len(s) THEN <<s[n]>> ELSE <<>>
  <2>1. Len(s) \in Nat /\ \A n \in 1 .. Len(s) : s[n] \in S
    OBVIOUS
  <2>2. ASSUME NEW n \in 1 .. m PROVE (IF n <= Len(s) THEN <<s[n]>> ELSE <<>>) \in Seq(S)
    <3>1. n <= Len(s) => s[n] \in S
      BY <2>1
    <3> QED
      BY <3>1
  <2> QED
    BY <2>1, <2>2
<1> HIDE DEF parts
<1>2. PICK f \in [0 .. m -> Seq(S)] :
           /\ f[0] = <<>> /\ FlattenSeq(parts) = f[m]
           /\ \A n \in 1 .. m : f[n] = f[n - 1] \o parts[n]
  BY <1>1, FlattenPrefixes
<1> DEFINE Q(n) == /\ Len(f[n]) = IF n <= Len(s) THEN n ELSE Len(s)
                   /\ \A i \in 1 .. Len(f[n]) : f[n][i] = s[i]
           P == {n \in 0 .. m : Q(n)}
<1>3. Q(0)
  BY <1>1, <1>2
<1>4. ASSUME NEW n \in 0 .. m - 1, Q(n)
      PROVE  Q(n + 1)
  <2>1. n + 1 \in 1 .. m /\ n \in Nat /\ f[n] \in Seq(S) /\ (n + 1) - 1 = n
    <3>1. n + 1 \in 1 .. m /\ n \in 0 .. m /\ n \in Nat /\ (n + 1) - 1 = n
      OBVIOUS
    <3> QED
      BY <1>2, <3>1
  <2>2. f[n + 1] = f[n] \o parts[n + 1]
    <3>1. f[n + 1] = f[(n + 1) - 1] \o parts[n + 1]
      BY <1>2, <2>1
    <3> QED
      BY <2>1, <3>1
  <2>3. CASE n + 1 <= Len(s)
    <3>1. f[n + 1] = f[n] \o <<s[n + 1]>> /\ Len(f[n]) = n /\ s[n + 1] \in S
      <4>1. parts[n + 1] = <<s[n + 1]>>
        BY <1>1, <2>1, <2>3
      <4>2. n <= Len(s) /\ n + 1 \in 1 .. Len(s)
        BY <1>1, <2>1, <2>3
      <4>3. Len(f[n]) = n
        BY <1>4, <4>2, Zenon
      <4>4. s[n + 1] \in S
        BY <4>2
      <4> QED
        BY <2>2, <4>1, <4>3, <4>4, Zenon
    <3>2. Len(f[n + 1]) = n + 1 /\ f[n + 1][n + 1] = s[n + 1] /\ \A i \in 1 .. n : f[n + 1][i] = f[n][i]
      <4> DEFINE e == s[n + 1]
                 h == f[n]
      <4>1. h \in Seq(S) /\ Len(h) = n /\ e \in S /\ f[n + 1] = Append(h, e)
        <5>1. h \in Seq(S) /\ e \in S /\ f[n + 1] = h \o <<e>> /\ Len(h) = n
          BY <2>1, <3>1, Zenon
        <5> HIDE DEF h, e
        <5> QED
          BY <5>1
      <4> HIDE DEF h, e
      <4>2. Len(Append(h, e)) = n + 1
        BY <2>1, <4>1
      <4>3. Append(h, e)[n + 1] = e
        BY <2>1, <4>1
      <4>4. \A i \in 1 .. n : Append(h, e)[i] = h[i]
        BY <2>1, <4>1
      <4> QED
        BY <4>1, <4>2, <4>3, <4>4 DEF h, e
    <3>3. \A i \in 1 .. n + 1 : i \in 1 .. n \/ i = n + 1
      BY <2>1
    <3> QED
      BY <1>4, <2>3, <3>1, <3>2, <3>3
  <2>4. CASE ~(n + 1 <= Len(s))
    <3>1. f[n + 1] = f[n] /\ Len(f[n]) = Len(s)
      <4>1. parts[n + 1] = <<>>
        BY <1>1, <2>1, <2>4
      <4>2. f[n] \o <<>> = f[n]
        BY <2>1
      <4>3. Len(s) <= n
        BY <1>1, <2>1, <2>4
      <4> QED
        BY <1>1, <1>4, <2>1, <2>2, <4>1, <4>2, <4>3
    <3> QED
      BY <1>4, <2>4, <3>1
  <2> QED
    BY <2>3, <2>4
<1>5. Q(m)
  <2>1. 0 \in P
    BY <1>3
  <2>2. ASSUME NEW n \in 0 .. m - 1, n \in P PROVE n + 1 \in P
    <3>1. n + 1 \in 0 .. m /\ Q(n)
      BY <2>2
    <3> HIDE DEF Q
    <3> QED
      BY <1>4, <3>1
  <2> HIDE DEF P
  <2>3. \A n \in 0 .. m : n \in P
    BY <2>1, <2>2, NatUpTo
  <2>4. m \in P
    BY <2>3
  <2> QED
    BY <2>4 DEF P
<1>6. Len(f[m]) = Len(s) /\ f[m] \in Seq(S)
  BY <1>1, <1>2, <1>5
<1>7. f[m] = s
  BY <1>5, <1>6, SeqEqual
<1> QED
  BY <1>2, <1>7 DEF parts


-----------------------------------------------------------------------------
(* Sorted lists.                                                           *)

\* A downward closed set of positions is an initial stretch.
LEMMA InitialStretch ==
  ASSUME NEW m \in Nat, NEW D \in SUBSET (1 .. m), \A a \in D, b \in 1 .. m : b < a => b \in D
  PROVE  \E k \in 0 .. m : D = 1 .. k /\ Cardinality(D) = k
<1> DEFINE T == {n \in Nat : n + 1 \notin D}
<1>1. m \in T
  <2>1. m + 1 \notin 1 .. m
    OBVIOUS
  <2> QED
    BY <2>1
<1>2. PICK k \in T : \A y \in T : k <= y
  <2> HIDE DEF T
  <2>1. T \in SUBSET Nat /\ T # {}
    BY <1>1 DEF T
  <2> QED
    BY <2>1, NatLeast
<1>3. k \in 0 .. m /\ k \in Nat /\ k + 1 \notin D
  BY <1>1, <1>2
<1>4. ASSUME NEW b \in 1 .. k PROVE b \in D
  <2>1. b - 1 \in Nat /\ b - 1 < k /\ (b - 1) + 1 = b
    BY <1>3
  <2>2. b - 1 \notin T
    BY <1>2, <1>3, <2>1
  <2> QED
    BY <2>1, <2>2
<1>5. ASSUME NEW a \in D PROVE a \in 1 .. k
  <2>1. a \in 1 .. m /\ a # k + 1
    BY <1>3
  <2>2. CASE a > k + 1
    <3>1. k + 1 \in 1 .. m /\ k + 1 < a
      BY <1>3, <2>1, <2>2
    <3> QED
      BY <1>3, <3>1
  <2> QED
    BY <1>3, <2>1, <2>2
<1>6. D = 1 .. k
  BY <1>4, <1>5
<1>7. Cardinality(1 .. k) = k
  <2>1. 1 \in Int /\ k \in Int
    BY <1>3
  <2>2. Cardinality(1 .. k) = IF 1 > k THEN 0 ELSE k - 1 + 1
    BY <2>1, FS_Interval
  <2> QED
    BY <1>3, <2>2
<1> QED
  BY <1>3, <1>6, <1>7

\* What InsertAt makes of a list.
LEMMA InsertedElements ==
  ASSUME NEW S, NEW s \in Seq(S), NEW k \in 0 .. Len(s), NEW e \in S
  PROVE  /\ InsertAt(s, k + 1, e) \in Seq(S) /\ Len(InsertAt(s, k + 1, e)) = Len(s) + 1
         /\ \A n \in 1 .. k : InsertAt(s, k + 1, e)[n] = s[n]
         /\ InsertAt(s, k + 1, e)[k + 1] = e
         /\ \A n \in k + 1 .. Len(s) : InsertAt(s, k + 1, e)[n + 1] = s[n]
<1> DEFINE l == SubSeq(s, 1, k)
           r == SubSeq(s, k + 1, Len(s))
           t == InsertAt(s, k + 1, e)
<1>1. Len(s) \in Nat /\ k \in Nat /\ k <= Len(s) /\ \A n \in 1 .. Len(s) : s[n] \in S
  OBVIOUS
<1>2. l \in Seq(S) /\ Len(l) = k /\ \A n \in 1 .. k : l[n] = s[n]
  <2>1. \A n \in 1 .. k : s[n] \in S
    BY <1>1
  <2>2. 1 \in Int /\ k \in Int
    BY <1>1
  <2>3. /\ l \in Seq(S) /\ Len(l) = IF 1 <= k THEN k - 1 + 1 ELSE 0
        /\ \A n \in 1 .. k - 1 + 1 : l[n] = s[1 + n - 1]
    BY <2>1, <2>2, SubSeqProperties
  <2>4. \A n \in 1 .. k : n \in 1 .. k - 1 + 1 /\ 1 + n - 1 = n
    BY <1>1
  <2>5. (IF 1 <= k THEN k - 1 + 1 ELSE 0) = k
    BY <1>1
  <2> QED
    BY <2>3, <2>4, <2>5
<1>3. r \in Seq(S) /\ Len(r) = Len(s) - k /\ \A n \in 1 .. Len(s) - k : r[n] = s[k + n]
  <2>1. \A n \in k + 1 .. Len(s) : s[n] \in S
    BY <1>1
  <2>2. k + 1 \in Int /\ Len(s) \in Int
    BY <1>1
  <2>3. /\ r \in Seq(S) /\ Len(r) = IF k + 1 <= Len(s) THEN Len(s) - (k + 1) + 1 ELSE 0
        /\ \A n \in 1 .. Len(s) - (k + 1) + 1 : r[n] = s[k + 1 + n - 1]
    BY <2>1, <2>2, SubSeqProperties
  <2>4. \A n \in 1 .. Len(s) - k : n \in 1 .. Len(s) - (k + 1) + 1 /\ k + 1 + n - 1 = k + n
    BY <1>1
  <2>5. (IF k + 1 <= Len(s) THEN Len(s) - (k + 1) + 1 ELSE 0) = Len(s) - k
    BY <1>1
  <2> QED
    BY <2>3, <2>4, <2>5
<1>4. t = (l \o <<e>>) \o r
  <2>1. (k + 1) - 1 = k
    BY <1>1
  <2> QED
    BY <2>1, Zenon DEF InsertAt
<1> HIDE DEF l, r, t
<1>5. /\ l \o <<e>> \in Seq(S) /\ Len(l \o <<e>>) = k + 1
      /\ \A n \in 1 .. k : (l \o <<e>>)[n] = s[n]
      /\ (l \o <<e>>)[k + 1] = e
  BY <1>1, <1>2
<1> DEFINE h == l \o <<e>>
<1>6. /\ t \in Seq(S) /\ Len(t) = Len(s) + 1
      /\ \A n \in 1 .. Len(s) + 1 : t[n] = IF n <= k + 1 THEN h[n] ELSE r[n - (k + 1)]
  <2>1. h \in Seq(S) /\ Len(h) = k + 1
    BY <1>5
  <2> HIDE DEF h
  <2>2. /\ h \o r \in Seq(S) /\ Len(h \o r) = Len(h) + Len(r)
        /\ \A n \in 1 .. Len(h) + Len(r) : (h \o r)[n] = IF n <= Len(h) THEN h[n] ELSE r[n - Len(h)]
    BY <1>3, <2>1, ConcatProperties
  <2>3. Len(h) + Len(r) = Len(s) + 1
    BY <1>1, <1>3, <2>1
  <2>4. t = h \o r
    BY <1>4, Zenon DEF h
  <2> QED
    BY <2>1, <2>2, <2>3, <2>4
<1>7. ASSUME NEW n \in 1 .. k PROVE t[n] = s[n]
  <2>1. n \in 1 .. Len(s) + 1 /\ n <= k + 1
    BY <1>1
  <2> QED
    BY <1>5, <1>6, <2>1
<1>8. t[k + 1] = e
  <2>1. k + 1 \in 1 .. Len(s) + 1 /\ k + 1 <= k + 1
    BY <1>1
  <2> QED
    BY <1>5, <1>6, <2>1
<1>9. ASSUME NEW n \in k + 1 .. Len(s) PROVE t[n + 1] = s[n]
  <2>1. /\ n + 1 \in 1 .. Len(s) + 1 /\ ~(n + 1 <= k + 1) /\ (n + 1) - (k + 1) = n - k
        /\ n - k \in 1 .. Len(s) - k /\ k + (n - k) = n
    BY <1>1
  <2> QED
    BY <1>3, <1>6, <2>1
<1> QED
  BY <1>6, <1>7, <1>8, <1>9 DEF t

\* What RemoveAt makes of a list.
LEMMA RemovedElements ==
  ASSUME NEW S, NEW s \in Seq(S), NEW p \in 1 .. Len(s)
  PROVE  /\ RemoveAt(s, p) \in Seq(S) /\ Len(RemoveAt(s, p)) = Len(s) - 1
         /\ \A n \in 1 .. p - 1 : RemoveAt(s, p)[n] = s[n]
         /\ \A n \in p .. Len(s) - 1 : RemoveAt(s, p)[n] = s[n + 1]
<1> DEFINE l == SubSeq(s, 1, p - 1)
           r == SubSeq(s, p + 1, Len(s))
           t == RemoveAt(s, p)
<1>1. Len(s) \in Nat /\ p \in Nat /\ p >= 1 /\ p <= Len(s) /\ \A n \in 1 .. Len(s) : s[n] \in S
  OBVIOUS
<1>2. l \in Seq(S) /\ Len(l) = p - 1 /\ \A n \in 1 .. p - 1 : l[n] = s[n]
  <2>1. \A n \in 1 .. p - 1 : s[n] \in S
    BY <1>1
  <2>2. 1 \in Int /\ p - 1 \in Int
    BY <1>1
  <2>3. /\ l \in Seq(S) /\ Len(l) = IF 1 <= p - 1 THEN (p - 1) - 1 + 1 ELSE 0
        /\ \A n \in 1 .. (p - 1) - 1 + 1 : l[n] = s[1 + n - 1]
    BY <2>1, <2>2, SubSeqProperties
  <2>4. \A n \in 1 .. p - 1 : n \in 1 .. (p - 1) - 1 + 1 /\ 1 + n - 1 = n
    BY <1>1
  <2>5. (IF 1 <= p - 1 THEN (p - 1) - 1 + 1 ELSE 0) = p - 1
    BY <1>1
  <2> QED
    BY <2>3, <2>4, <2>5
<1>3. r \in Seq(S) /\ Len(r) = Len(s) - p /\ \A n \in 1 .. Len(s) - p : r[n] = s[p + n]
  <2>1. \A n \in p + 1 .. Len(s) : s[n] \in S
    BY <1>1
  <2>2. p + 1 \in Int /\ Len(s) \in Int
    BY <1>1
  <2>3. /\ r \in Seq(S) /\ Len(r) = IF p + 1 <= Len(s) THEN Len(s) - (p + 1) + 1 ELSE 0
        /\ \A n \in 1 .. Len(s) - (p + 1) + 1 : r[n] = s[p + 1 + n - 1]
    BY <2>1, <2>2, SubSeqProperties
  <2>4. \A n \in 1 .. Len(s) - p : n \in 1 .. Len(s) - (p + 1) + 1 /\ p + 1 + n - 1 = p + n
    BY <1>1
  <2>5. (IF p + 1 <= Len(s) THEN Len(s) - (p + 1) + 1 ELSE 0) = Len(s) - p
    BY <1>1
  <2> QED
    BY <2>3, <2>4, <2>5
<1>4. t = l \o r
  BY Zenon DEF RemoveAt
<1> HIDE DEF l, r, t
<1>5. /\ t \in Seq(S) /\ Len(t) = Len(s) - 1
      /\ \A n \in 1 .. Len(s) - 1 : t[n] = IF n <= p - 1 THEN l[n] ELSE r[n - (p - 1)]
  <2>1. /\ l \o r \in Seq(S) /\ Len(l \o r) = Len(l) + Len(r)
        /\ \A n \in 1 .. Len(l) + Len(r) : (l \o r)[n] = IF n <= Len(l) THEN l[n] ELSE r[n - Len(l)]
    BY <1>2, <1>3, ConcatProperties
  <2>2. Len(l) + Len(r) = Len(s) - 1
    BY <1>1, <1>2, <1>3
  <2> QED
    BY <1>2, <1>4, <2>1, <2>2
<1>6. ASSUME NEW n \in 1 .. p - 1 PROVE t[n] = s[n]
  <2>1. n \in 1 .. Len(s) - 1 /\ n <= p - 1
    BY <1>1
  <2> QED
    BY <1>2, <1>5, <2>1
<1>7. ASSUME NEW n \in p .. Len(s) - 1 PROVE t[n] = s[n + 1]
  <2>1. /\ n \in 1 .. Len(s) - 1 /\ ~(n <= p - 1)
        /\ n - (p - 1) \in 1 .. Len(s) - p /\ p + (n - (p - 1)) = n + 1
    BY <1>1
  <2> QED
    BY <1>3, <1>5, <2>1
<1> QED
  BY <1>5, <1>6, <1>7 DEF t

-----------------------------------------------------------------------------
(* Numbers in order.                                                       *)

\* The numbers of a finite set, each at the place that the smaller ones leave it.
ByRank(S) == [k \in 1 .. Cardinality(S) |-> CHOOSE e \in S : Cardinality({f \in S : f < e}) = k - 1]

LEMMA ByRankSorts ==
  ASSUME NEW S \in SUBSET Int, IsFiniteSet(S)
  PROVE  /\ ByRank(S) \in Seq(S) /\ Len(ByRank(S)) = Cardinality(S)
         /\ \A e \in S : \E n \in 1..Len(ByRank(S)) : ByRank(S)[n] = e
         /\ \A m, n \in 1..Len(ByRank(S)) : m < n => ByRank(S)[m] < ByRank(S)[n]
<1> DEFINE size == Cardinality(S)
           below(e) == {f \in S : f < e}
           rank(e) == Cardinality(below(e))
           s == ByRank(S)
<1>1. size \in Nat /\ \A e \in S : e \in Int
  BY FS_CardinalityType
<1>2. ASSUME NEW e \in S
      PROVE  IsFiniteSet(below(e)) /\ rank(e) \in 0..size - 1
  <2>1. below(e) \in SUBSET (S \ {e})
    BY <1>1
  <2>2. IsFiniteSet(S \ {e}) /\ Cardinality(S \ {e}) = size - 1
    BY FS_RemoveElement
  <2> DEFINE under == below(e)
             rest == S \ {e}
  <2>3. under \in SUBSET rest /\ IsFiniteSet(rest) /\ Cardinality(rest) = size - 1
    BY <2>1, <2>2
  <2> HIDE DEF under, rest, size
  <2>4. IsFiniteSet(under) /\ Cardinality(under) <= size - 1
    BY <2>3, FS_Subset
  <2>5. Cardinality(under) \in Nat
    BY <2>4, FS_CardinalityType
  <2>6. IsFiniteSet(under) /\ Cardinality(under) \in 0..size - 1
    BY <1>1, <2>4, <2>5
  <2> QED
    BY <2>6 DEF under
<1>3. ASSUME NEW a \in S, NEW c \in S, a < c PROVE rank(a) < rank(c)
  <2> DEFINE x == below(a)
             y == below(c)
  <2>1. x \in SUBSET (y \ {a}) /\ a \in y
    <3>1. a \in Int /\ c \in Int
      BY <1>1
    <3>2. ASSUME NEW f \in x PROVE f \in y \ {a}
      <4>1. f \in S /\ f < a /\ f \in Int
        BY <1>1
      <4>2. f < c /\ f # a
        BY <1>3, <3>1, <4>1
      <4> QED
        BY <4>1, <4>2
    <3> QED
      BY <1>3, <3>2
  <2>2. IsFiniteSet(x) /\ IsFiniteSet(y) /\ Cardinality(x) \in Nat /\ Cardinality(y) \in Nat
    BY <1>2, FS_CardinalityType
  <2> HIDE DEF x, y
  <2>3. IsFiniteSet(y \ {a}) /\ Cardinality(y \ {a}) = Cardinality(y) - 1
    BY <2>1, <2>2, FS_RemoveElement
  <2>4. Cardinality(x) <= Cardinality(y \ {a})
    BY <2>1, <2>3, FS_Subset
  <2>5. Cardinality(x) < Cardinality(y)
    BY <2>2, <2>3, <2>4
  <2> QED
    BY <2>5 DEF x, y
<1>4. ASSUME NEW a \in S, NEW c \in S, rank(a) = rank(c) PROVE a = c
  <2>1. ~(a < c) /\ ~(c < a)
    <3> HIDE DEF rank, below
    <3>1. rank(a) \in Int /\ rank(c) \in Int
      BY <1>1, <1>2
    <3> QED
      BY <1>3, <1>4, <3>1
  <2> QED
    BY <1>1, <2>1
<1> HIDE DEF rank, below
<1>5. ASSUME NEW m \in 0..size - 1 PROVE \E e \in S : rank(e) = m
  <2> SUFFICES ASSUME \A e \in S : rank(e) # m PROVE FALSE
    OBVIOUS
  <2> DEFINE all == 0..size - 1
             others == all \ {m}
             f == [e \in S |-> rank(e)]
  <2>1. IsFiniteSet(all) /\ Cardinality(all) = size /\ m \in all
    <3> HIDE DEF size
    <3>1. 0 \in Int /\ size - 1 \in Int
      BY <1>1
    <3>2. IsFiniteSet(0..size - 1) /\ Cardinality(0..size - 1) = IF 0 > size - 1 THEN 0 ELSE size - 1 - 0 + 1
      BY <3>1, FS_Interval
    <3>3. (IF 0 > size - 1 THEN 0 ELSE size - 1 - 0 + 1) = size
      BY <1>1
    <3> QED
      BY <3>2, <3>3
  <2>2. f \in [S -> others]
    BY <1>2
  <2> HIDE DEF all
  <2>3. IsFiniteSet(others) /\ Cardinality(others) = size - 1
    <3> HIDE DEF size
    <3> QED
      BY <2>1, FS_RemoveElement
  <2> HIDE DEF others
  <2>4. Cardinality(others) < size
    BY <1>1, <2>3
  <2>5. \E a, c \in S : a # c /\ f[a] = f[c]
    <3> HIDE DEF f
    <3> QED
      BY <2>2, <2>3, <2>4, FS_PigeonHole
  <2> QED
    BY <1>4, <2>5
<1>6. s = [k \in 1..size |-> CHOOSE e \in S : rank(e) = k - 1]
  BY Zenon DEF ByRank, rank, below
<1> HIDE DEF s, size
<1>7. ASSUME NEW n \in 1..size PROVE s[n] \in S /\ rank(s[n]) = n - 1
  <2>1. n - 1 \in 0..size - 1
    BY <1>1
  <2>2. \E e \in S : rank(e) = n - 1
    BY <1>5, <2>1
  <2>3. s[n] = CHOOSE e \in S : rank(e) = n - 1
    BY <1>6
  <2> QED
    BY <2>2, <2>3
<1>8. s \in Seq(S) /\ Len(s) = size
  <2>1. \A n \in 1..size : s[n] \in S
    BY <1>7
  <2>2. s \in [1..size -> S]
    BY <1>6, <2>1
  <2> QED
    BY <1>1, <2>2
<1>9. ASSUME NEW m \in 1..size, NEW n \in 1..size, m < n PROVE s[m] < s[n]
  <2>1. s[m] \in S /\ s[n] \in S /\ rank(s[n]) = n - 1 /\ rank(s[m]) = m - 1
    BY <1>7
  <2>2. ~(rank(s[n]) < rank(s[m])) /\ rank(s[n]) # rank(s[m])
    <3>1. m \in Int /\ n \in Int
      BY <1>1
    <3>2. ~(n - 1 < m - 1) /\ n - 1 # m - 1
      BY <1>9, <3>1
    <3> QED
      BY <2>1, <3>2
  <2>3. ~(s[n] < s[m])
    BY <1>3, <2>1, <2>2
  <2>4. s[m] # s[n]
    BY <2>2
  <2>5. s[m] \in Int /\ s[n] \in Int
    BY <1>1, <2>1
  <2> QED
    BY <2>3, <2>4, <2>5
<1>10. ASSUME NEW e \in S PROVE \E n \in 1..size : s[n] = e
  <2>1. rank(e) \in 0..size - 1
    BY <1>2
  <2>2. PICK n \in 1..size : rank(e) = n - 1
    <3>1. rank(e) + 1 \in 1..size /\ rank(e) = (rank(e) + 1) - 1
      BY <1>1, <2>1
    <3> QED
      BY <3>1
  <2>3. s[n] = e
    BY <1>4, <1>7, <2>2
  <2> QED
    BY <2>3
<1> QED
  BY <1>8, <1>9, <1>10 DEF s, size
=============================================================================
