---------------------------- MODULE SummaryProofs ---------------------------
(***************************************************************************)
(* Theorems about what the samples of a run are summarised to: about       *)
(* SampleStatistics, for any latencies and periods, and about              *)
(* SystemMonitor, for any load.                                            *)
(*                                                                         *)
(* The definitions of SummaryStatistics are sums and orders of a whole     *)
(* sequence.  What they are for every sequence is shown by induction, in   *)
(* the form of a set that contains zero and successors, or the empty       *)
(* sequence and whatever is appended.                                      *)
(***************************************************************************)
EXTENDS SampleStatistics, SystemMonitor, FiniteSetTheorems, SequenceTheorems,
        WellFoundedInduction, TLAPS

-----------------------------------------------------------------------------
(* Induction *)

\* A set of numbers that is not empty has a least element.
LEMMA LeastNumber ==
  ASSUME NEW T, T \subseteq Nat, T # {}
  PROVE  \E n \in T : \A m \in T : n <= m
<1>1. \E n \in T : \A m \in T : ~ (<<m, n>> \in OpToRel(<, Nat))
  <2>1. ASSUME NEW R, IsWellFoundedOn(R, Nat)
        PROVE  \E n \in T : \A m \in T : ~ (<<m, n>> \in R)
    BY <2>1, WFMin
  <2>2. QED
    BY <2>1, NatLessThanWellFounded
<1>2. ASSUME NEW m \in Nat, NEW n \in Nat, m < n
      PROVE  <<m, n>> \in OpToRel(<, Nat)
  BY <1>2 DEF OpToRel
<1>3. PICK n \in T : \A m \in T : ~ (<<m, n>> \in OpToRel(<, Nat))
  BY <1>1
<1>4. \A m \in T : ~ (m < n)
  BY <1>2, <1>3, Zenon
<1>5. QED
  BY <1>4

\* Induction over the numbers.
LEMMA AllNumbers ==
  ASSUME NEW T, 0 \in T, \A n \in Nat : n \in T => n + 1 \in T
  PROVE  Nat \subseteq T
<1>1. SUFFICES ASSUME Nat \ T # {} PROVE FALSE
  OBVIOUS
<1>2. PICK n \in Nat \ T : \A m \in Nat \ T : n <= m
  BY <1>1, LeastNumber
<1>3. n - 1 \in Nat \ T
  BY <1>2
<1>4. QED
  BY <1>2, <1>3

\* Induction over the sequences.
LEMMA AllSequences ==
  ASSUME NEW S, NEW T, <<>> \in T,
         \A s \in Seq(S), x \in S : s \in T => Append(s, x) \in T
  PROVE  Seq(S) \subseteq T
<1> DEFINE N == {n \in Nat : \A s \in Seq(S) : Len(s) = n => s \in T}
<1>1. 0 \in N
  <2>1. \A s \in Seq(S) : Len(s) = 0 => s = <<>>
    BY EmptySeq
  <2>2. QED
    BY <2>1
<1>2. ASSUME NEW n \in Nat, n \in N PROVE n + 1 \in N
  <2>1. SUFFICES ASSUME NEW s \in Seq(S), Len(s) = n + 1 PROVE s \in T
    OBVIOUS
  <2> DEFINE f == SubSeq(s, 1, n)
  <2>2. f \in Seq(S) /\ Len(f) = n
    BY <2>1
  <2>3. s[n + 1] \in S /\ s = Append(f, s[n + 1])
    BY <2>1
  <2>4. f \in T
    BY <1>2, <2>2
  <2>5. QED
    BY <2>2, <2>3, <2>4
<1>3. Nat \subseteq N
  <2> HIDE DEF N
  <2>1. QED
    BY <1>1, <1>2, AllNumbers
<1>4. QED
  BY <1>3, LenProperties

-----------------------------------------------------------------------------
(* Sums *)

PartialSums(s, f) ==
  f = [n \in 0 .. Len(s) |-> IF n = 0 THEN 0 ELSE f[n - 1] + s[n]]

LEMMA PartialSumsAt ==
  ASSUME NEW s \in Seq(Int), NEW f, PartialSums(s, f)
  PROVE  /\ f[0] = 0
         /\ \A n \in 1 .. Len(s) : f[n] = f[n - 1] + s[n]
<1>1. 0 \in 0 .. Len(s) /\ \A n \in 1 .. Len(s) : n \in 0 .. Len(s) /\ n # 0
  OBVIOUS
<1>2. \A n \in 0 .. Len(s) : f[n] = IF n = 0 THEN 0 ELSE f[n - 1] + s[n]
  BY DEF PartialSums
<1>3. QED
  BY <1>1, <1>2

LEMMA PartialSumsExist == \A s \in Seq(Int) : \E f : PartialSums(s, f)
<1> DEFINE T == {s \in Seq(Int) : \E f : PartialSums(s, f)}
<1>1. <<>> \in T
  <2>1. PartialSums(<<>>, [n \in {0} |-> 0])
    BY DEF PartialSums
  <2>2. QED
    BY <2>1, EmptySeq
<1>2. ASSUME NEW s \in Seq(Int), NEW x \in Int, s \in T
      PROVE  Append(s, x) \in T
  <2>1. PICK f : PartialSums(s, f)
    BY <1>2
  <2> DEFINE n == Len(s)
             a == Append(s, x)
             g == [k \in 0 .. n + 1 |-> IF k = n + 1 THEN f[n] + x ELSE f[k]]
  <2>2. /\ a \in Seq(Int) /\ Len(a) = n + 1 /\ n \in Nat /\ a[n + 1] = x
        /\ \A k \in 1 .. n : a[k] = s[k]
    OBVIOUS
  <2>3. ASSUME NEW k \in 0 .. n + 1
        PROVE  g[k] = IF k = 0 THEN 0 ELSE g[k - 1] + a[k]
    <3>1. f[0] = 0 /\ \A i \in 1 .. n : f[i] = f[i - 1] + s[i]
      BY <2>1, PartialSumsAt
    <3>2. CASE k = 0
      BY <2>2, <3>1, <3>2
    <3>3. CASE k = n + 1
      <4>1. g[k] = f[n] + x /\ g[k - 1] = f[n] /\ k # 0
        BY <2>2, <3>3
      <4>2. QED
        BY <2>2, <3>3, <4>1
    <3>4. CASE k \in 1 .. n
      <4>1. g[k] = f[k] /\ g[k - 1] = f[k - 1] /\ k # 0
        BY <2>2, <3>4
      <4>2. QED
        BY <2>2, <3>1, <3>4, <4>1
    <3>5. QED
      BY <2>2, <3>2, <3>3, <3>4
  <2>4. PartialSums(a, g)
    BY <2>2, <2>3 DEF PartialSums
  <2>5. QED
    BY <2>2, <2>4
<1>3. Seq(Int) \subseteq T
  <2> HIDE DEF T
  <2>1. QED
    BY <1>1, <1>2, AllSequences
<1>4. QED
  BY <1>3

LEMMA SumIsPartialSum ==
  ASSUME NEW s \in Seq(Int)
  PROVE  \E f : PartialSums(s, f) /\ Sum(s) = f[Len(s)]
<1> DEFINE f == CHOOSE f : PartialSums(s, f)
<1>1. PartialSums(s, f)
  BY PartialSumsExist
<1>2. Sum(s) = f[Len(s)]
  BY DEF Sum, PartialSums
<1>3. QED
  BY <1>1, <1>2

\* What a sum is: nothing at first, and more by what is appended.
LEMMA SumAppend ==
  /\ Sum(<<>>) = 0
  /\ \A s \in Seq(Int), x \in Int : Sum(Append(s, x)) = Sum(s) + x
<1>1. Sum(<<>>) = 0
  <2>1. PICK f : PartialSums(<<>>, f) /\ Sum(<<>>) = f[0]
    BY SumIsPartialSum, EmptySeq
  <2>2. QED
    BY <2>1, PartialSumsAt, EmptySeq
<1>2. ASSUME NEW s \in Seq(Int), NEW x \in Int
      PROVE  Sum(Append(s, x)) = Sum(s) + x
  <2> DEFINE n == Len(s)
             a == Append(s, x)
  <2>1. /\ a \in Seq(Int) /\ Len(a) = n + 1 /\ n \in Nat /\ a[n + 1] = x
        /\ \A k \in 1 .. n : a[k] = s[k]
    OBVIOUS
  <2>2. PICK f : PartialSums(s, f) /\ Sum(s) = f[n]
    BY SumIsPartialSum
  <2>3. PICK g : PartialSums(a, g) /\ Sum(a) = g[n + 1]
    BY <2>1, SumIsPartialSum
  <2>4. f[0] = 0 /\ \A k \in 1 .. n : f[k] = f[k - 1] + s[k]
    BY <2>2, PartialSumsAt
  <2>5. g[0] = 0 /\ \A k \in 1 .. n + 1 : g[k] = g[k - 1] + a[k]
    <3> HIDE DEF a, n
    <3>1. QED
      BY <2>1, <2>3, PartialSumsAt
  <2> DEFINE T == {k \in Nat : k <= n => g[k] = f[k]}
  <2>6. 0 \in T
    BY <2>4, <2>5
  <2>7. ASSUME NEW k \in Nat, k \in T PROVE k + 1 \in T
    <3>1. SUFFICES ASSUME k + 1 <= n PROVE g[k + 1] = f[k + 1]
      OBVIOUS
    <3>2. k + 1 \in 1 .. n /\ (k + 1) - 1 = k
      BY <2>1, <3>1
    <3>3. f[k + 1] = f[k] + s[k + 1]
      BY <2>4, <3>2
    <3>4. g[k + 1] = g[k] + a[k + 1]
      BY <2>1, <2>5, <3>2
    <3>5. QED
      BY <2>1, <2>7, <3>1, <3>2, <3>3, <3>4
  <2>8. Nat \subseteq T
    <3> HIDE DEF T
    <3>1. QED
      BY <2>6, <2>7, AllNumbers
  <2>9. g[n] = f[n]
    BY <2>1, <2>8
  <2>10. g[n + 1] = g[n] + x
    <3>1. n + 1 \in 1 .. n + 1 /\ (n + 1) - 1 = n
      BY <2>1
    <3> HIDE DEF a, n
    <3>2. QED
      BY <2>1, <2>5, <3>1
  <2>11. QED
    BY <2>2, <2>3, <2>9, <2>10
<1>3. QED
  BY <1>1, <1>2

LEMMA SumType == \A s \in Seq(Int) : Sum(s) \in Int
<1> DEFINE T == {s \in Seq(Int) : Sum(s) \in Int}
<1>1. <<>> \in T
  BY SumAppend, EmptySeq
<1>2. ASSUME NEW s \in Seq(Int), NEW x \in Int, s \in T
      PROVE  Append(s, x) \in T
  BY <1>2, SumAppend
<1>3. Seq(Int) \subseteq T
  <2> HIDE DEF T
  <2>1. QED
    BY <1>1, <1>2, AllSequences
<1>4. QED
  BY <1>3

LEMMA IntSequence ==
  ASSUME NEW n \in Nat, NEW f \in [1 .. n -> Int]
  PROVE  f \in Seq(Int) /\ Len(f) = n /\ DOMAIN f = 1 .. n
OBVIOUS

\* The last element of a sequence apart.
LEMMA SumLast ==
  ASSUME NEW n \in Nat, NEW f \in [1 .. n + 1 -> Int], NEW g \in [1 .. n -> Int],
         \A i \in 1 .. n : g[i] = f[i]
  PROVE  Sum(f) = Sum(g) + f[n + 1]
<1>1. f \in Seq(Int) /\ Len(f) = n + 1 /\ g \in Seq(Int) /\ Len(g) = n
  BY IntSequence
<1>2. f[n + 1] \in Int
  OBVIOUS
<1>3. Append(g, f[n + 1]) \in Seq(Int) /\ Len(Append(g, f[n + 1])) = n + 1
  BY <1>1, <1>2
<1>4. \A i \in 1 .. n + 1 : Append(g, f[n + 1])[i] = f[i]
  BY <1>1, <1>2
<1>5. Append(g, f[n + 1]) = f
  BY <1>1, <1>3, <1>4, SeqEqual
<1>6. QED
  BY <1>1, <1>2, <1>5, SumAppend

LEMMA AppendedAt ==
  ASSUME NEW s \in Seq(Int), NEW x \in Int
  PROVE  /\ Len(s) \in Nat
         /\ Append(s, x) \in Seq(Int) /\ Len(Append(s, x)) = Len(s) + 1
         /\ Append(s, x)[Len(s) + 1] = x
         /\ \A i \in 1 .. Len(s) : s[i] \in Int /\ Append(s, x)[i] = s[i]
OBVIOUS

\* A quadratic form of each element.
Quadratic(s, a, b, c) == [i \in DOMAIN s |-> a * (s[i] * s[i]) + b * s[i] + c]

LEMMA QuadraticAt ==
  ASSUME NEW s \in Seq(Int), NEW a \in Int, NEW b \in Int, NEW c \in Int
  PROVE  /\ Quadratic(s, a, b, c) \in [1 .. Len(s) -> Int]
         /\ \A i \in 1 .. Len(s) :
              Quadratic(s, a, b, c)[i] = a * (s[i] * s[i]) + b * s[i] + c
<1>1. \A i \in 1 .. Len(s) : s[i] \in Int
  OBVIOUS
<1>2. \A y \in Int : a * (y * y) + b * y + c \in Int
  OBVIOUS
<1>3. DOMAIN s = 1 .. Len(s)
  OBVIOUS
<1>4. QED
  BY <1>1, <1>2, <1>3 DEF Quadratic

LEMMA SquaredAt ==
  ASSUME NEW s \in Seq(Int)
  PROVE  /\ Squared(s) \in [1 .. Len(s) -> Int]
         /\ \A i \in 1 .. Len(s) : Squared(s)[i] = s[i] * s[i]
BY DEF Squared

LEMMA SquaredAppend ==
  ASSUME NEW s \in Seq(Int), NEW x \in Int
  PROVE  Sum(Squared(Append(s, x))) = Sum(Squared(s)) + x * x
<1> DEFINE t == Append(s, x)
<1>1. /\ Len(s) \in Nat /\ t \in Seq(Int) /\ Len(t) = Len(s) + 1
      /\ t[Len(s) + 1] = x /\ \A i \in 1 .. Len(s) : t[i] = s[i]
  BY AppendedAt
<1> HIDE DEF t
<1>2. /\ Squared(t) \in [1 .. Len(s) + 1 -> Int] /\ Squared(s) \in [1 .. Len(s) -> Int]
      /\ \A i \in 1 .. Len(s) : Squared(s)[i] = Squared(t)[i]
      /\ Squared(t)[Len(s) + 1] = x * x
  <2>1. /\ Squared(t) \in [1 .. Len(t) -> Int]
        /\ \A i \in 1 .. Len(t) : Squared(t)[i] = t[i] * t[i]
    BY <1>1, SquaredAt
  <2>2. /\ Squared(s) \in [1 .. Len(s) -> Int]
        /\ \A i \in 1 .. Len(s) : Squared(s)[i] = s[i] * s[i]
    BY SquaredAt
  <2>3. Len(s) + 1 \in 1 .. Len(t) /\ \A i \in 1 .. Len(s) : i \in 1 .. Len(t)
    BY <1>1
  <2>4. Squared(t)[Len(s) + 1] = x * x
    BY <1>1, <2>1, <2>3, Zenon
  <2>5. \A i \in 1 .. Len(s) : Squared(s)[i] = Squared(t)[i]
    BY <1>1, <2>1, <2>2, <2>3, Zenon
  <2>6. QED
    BY <1>1, <2>1, <2>2, <2>4, <2>5, Zenon
<1>3. Sum(Squared(t)) = Sum(Squared(s)) + Squared(t)[Len(s) + 1]
  BY <1>1, <1>2, SumLast
<1>4. Sum(Squared(t)) = Sum(Squared(s)) + x * x
  BY <1>2, <1>3, Zenon
<1>5. QED
  BY <1>4 DEF t

LEMMA SumQuadratic ==
  ASSUME NEW a \in Int, NEW b \in Int, NEW c \in Int
  PROVE  \A s \in Seq(Int) :
           Sum(Quadratic(s, a, b, c)) = a * Sum(Squared(s)) + b * Sum(s) + Len(s) * c
<1> DEFINE T == {s \in Seq(Int) :
                   Sum(Quadratic(s, a, b, c)) =
                     a * Sum(Squared(s)) + b * Sum(s) + Len(s) * c}
<1>1. <<>> \in T
  <2>1. Quadratic(<<>>, a, b, c) = <<>> /\ Squared(<<>>) = <<>>
    BY DEF Quadratic, Squared
  <2>2. QED
    BY <2>1, SumAppend, EmptySeq
<1>2. ASSUME NEW s \in Seq(Int), NEW x \in Int, s \in T
      PROVE  Append(s, x) \in T
  <2> DEFINE t == Append(s, x)
             v == a * (x * x) + b * x + c
             Q == Quadratic(s, a, b, c)
             R == Quadratic(t, a, b, c)
  <2>1. /\ Len(s) \in Nat /\ t \in Seq(Int) /\ Len(t) = Len(s) + 1
        /\ t[Len(s) + 1] = x /\ \A i \in 1 .. Len(s) : t[i] = s[i]
    BY AppendedAt
  <2>2. Sum(Squared(t)) = Sum(Squared(s)) + x * x /\ Sum(t) = Sum(s) + x
    BY SumAppend, SquaredAppend
  <2> HIDE DEF t
  <2>3. /\ R \in [1 .. Len(s) + 1 -> Int] /\ Q \in [1 .. Len(s) -> Int]
        /\ \A i \in 1 .. Len(s) : Q[i] = R[i]
        /\ R[Len(s) + 1] = v
    <3>1. /\ Q \in [1 .. Len(s) -> Int] /\ R \in [1 .. Len(s) + 1 -> Int]
          /\ \A i \in 1 .. Len(s) : Q[i] = a * (s[i] * s[i]) + b * s[i] + c
          /\ \A i \in 1 .. Len(s) + 1 : R[i] = a * (t[i] * t[i]) + b * t[i] + c
      <4>1. /\ R \in [1 .. Len(t) -> Int]
            /\ \A i \in 1 .. Len(t) : R[i] = a * (t[i] * t[i]) + b * t[i] + c
        BY <2>1, QuadraticAt
      <4>2. /\ Q \in [1 .. Len(s) -> Int]
            /\ \A i \in 1 .. Len(s) : Q[i] = a * (s[i] * s[i]) + b * s[i] + c
        BY QuadraticAt
      <4>3. QED
        BY <2>1, <4>1, <4>2, Zenon
    <3>2. /\ Len(s) + 1 \in 1 .. Len(s) + 1
          /\ \A i \in 1 .. Len(s) : i \in 1 .. Len(s) + 1
      BY <2>1
    <3> HIDE DEF Q, R
    <3>3. QED
      BY <2>1, <3>1, <3>2, Zenon
  <2>4. Sum(R) = Sum(Q) + v
    <3> HIDE DEF Q, R
    <3>1. QED
      BY <2>1, <2>3, SumLast
  <2>5. PICK q \in Int, u \in Int, l \in Nat, xx \in Int :
          q = Sum(Squared(s)) /\ u = Sum(s) /\ l = Len(s) /\ xx = x * x
    <3>1. Sum(s) \in Int /\ x * x \in Int
      BY SumType
    <3>2. Squared(s) \in Seq(Int)
      BY <2>1, SquaredAt, IntSequence
    <3>3. Sum(Squared(s)) \in Int
      BY <3>2, SumType
    <3>4. QED
      BY <2>1, <3>1, <3>3
  <2>6. Sum(Q) = a * q + b * u + l * c
    BY <1>2, <2>5
  <2>7. a * q + b * u + l * c + (a * xx + b * x + c)
          = a * (q + xx) + b * (u + x) + (l + 1) * c
    OBVIOUS
  <2>8. Sum(R) = a * Sum(Squared(t)) + b * Sum(t) + Len(t) * c
    <3> HIDE DEF Q, R
    <3>1. QED
      BY <2>1, <2>2, <2>4, <2>5, <2>6, <2>7
  <2>9. QED
    BY <2>1, <2>8 DEF t
<1>3. Seq(Int) \subseteq T
  <2> HIDE DEF T
  <2>1. QED
    BY <1>1, <1>2, AllSequences
<1>4. QED
  BY <1>3

-----------------------------------------------------------------------------
(* The deviation *)

\* The squares of the differences of one sample to those before it.
Row(s, j) == [i \in 1 .. j - 1 |-> (s[i] - s[j]) * (s[i] - s[j])]

Rows(s) == [j \in DOMAIN s |-> Sum(Row(s, j))]

LEMMA RowAt ==
  ASSUME NEW s \in Seq(Int), NEW j \in 1 .. Len(s)
  PROVE  Row(s, j) \in [1 .. j - 1 -> Int] /\ Sum(Row(s, j)) \in Int
<1>1. \A i \in 1 .. Len(s) : s[i] \in Int
  OBVIOUS
<1>2. \A y, z \in Int : (y - z) * (y - z) \in Int
  OBVIOUS
<1>3. \A i \in 1 .. j - 1 : i \in 1 .. Len(s)
  OBVIOUS
<1>4. Row(s, j) \in [1 .. j - 1 -> Int]
  BY <1>1, <1>2, <1>3 DEF Row
<1>5. j - 1 \in Nat
  OBVIOUS
<1>6. Row(s, j) \in Seq(Int)
  BY <1>4, <1>5, IntSequence
<1>7. QED
  BY <1>4, <1>6, SumType

LEMMA PairwiseIsRows ==
  ASSUME NEW s \in Seq(Int)
  PROVE  PairwiseSquares(s) = Sum(Rows(s)) /\ Rows(s) \in [1 .. Len(s) -> Int]
<1>1. PairwiseSquares(s) = Sum(Rows(s))
  BY DEF PairwiseSquares, Rows, Row
<1>2. DOMAIN s = 1 .. Len(s)
  OBVIOUS
<1>3. QED
  BY <1>1, <1>2, RowAt DEF Rows

\* The squares of the differences to one more sample.
LEMMA LastRow ==
  ASSUME NEW s \in Seq(Int), NEW x \in Int
  PROVE  Row(Append(s, x), Len(s) + 1) = Quadratic(s, 1, 0 - 2 * x, x * x)
<1> DEFINE t == Append(s, x)
<1>1. /\ Len(s) \in Nat /\ t[Len(s) + 1] = x
      /\ \A i \in 1 .. Len(s) : s[i] \in Int /\ t[i] = s[i]
  BY AppendedAt
<1>2. \A y \in Int : (y - x) * (y - x) = 1 * (y * y) + (0 - 2 * x) * y + x * x
  OBVIOUS
<1>3. DOMAIN s = 1 .. Len(s) /\ 1 .. (Len(s) + 1) - 1 = 1 .. Len(s)
  BY <1>1
<1>4. Row(t, Len(s) + 1) = [i \in 1 .. Len(s) |-> (s[i] - x) * (s[i] - x)]
  <2> HIDE DEF t
  <2>1. QED
    BY <1>1, <1>3 DEF Row
<1>5. QED
  BY <1>1, <1>2, <1>3, <1>4 DEF Quadratic

LEMMA PairwiseAppend ==
  ASSUME NEW s \in Seq(Int), NEW x \in Int
  PROVE  PairwiseSquares(Append(s, x)) =
           PairwiseSquares(s) + Sum(Squared(s)) + (0 - 2 * x) * Sum(s) + Len(s) * (x * x)
<1> DEFINE t == Append(s, x)
           n == Len(s)
<1>1. /\ n \in Nat /\ t \in Seq(Int) /\ Len(t) = n + 1
      /\ \A i \in 1 .. n : t[i] = s[i]
  BY AppendedAt
<1>2. Sum(Row(t, n + 1)) = 1 * Sum(Squared(s)) + (0 - 2 * x) * Sum(s) + n * (x * x)
  <2>1. 0 - 2 * x \in Int /\ x * x \in Int
    OBVIOUS
  <2>2. QED
    BY <2>1, LastRow, SumQuadratic
<1>3. \A j \in 1 .. n : Row(t, j) = Row(s, j)
  <2> SUFFICES ASSUME NEW j \in 1 .. n PROVE Row(t, j) = Row(s, j)
    OBVIOUS
  <2>1. \A i \in 1 .. j - 1 : i \in 1 .. n
    BY <1>1
  <2> HIDE DEF t, n
  <2>2. QED
    BY <1>1, <2>1 DEF Row
<1>4. Sum(Rows(t)) = Sum(Rows(s)) + Sum(Row(t, n + 1))
  <2>1. Rows(t) \in [1 .. n + 1 -> Int] /\ Rows(s) \in [1 .. n -> Int]
    BY <1>1, PairwiseIsRows
  <2>2. \A j \in 1 .. n : Rows(s)[j] = Rows(t)[j]
    <3>1. DOMAIN s = 1 .. n /\ DOMAIN t = 1 .. n + 1
      BY <1>1
    <3> HIDE DEF t, n
    <3>2. QED
      BY <1>1, <1>3, <3>1 DEF Rows
  <2>3. Rows(t)[n + 1] = Sum(Row(t, n + 1))
    <3>1. n + 1 \in DOMAIN t
      BY <1>1
    <3> HIDE DEF t, n
    <3>2. QED
      BY <3>1 DEF Rows
  <2> HIDE DEF t, n
  <2>4. QED
    BY <1>1, <2>1, <2>2, <2>3, SumLast
<1>5. PairwiseSquares(t) = Sum(Rows(t)) /\ PairwiseSquares(s) = Sum(Rows(s))
  BY <1>1, PairwiseIsRows
<1>6. Sum(Squared(s)) \in Int /\ Sum(s) \in Int /\ Sum(Rows(s)) \in Int
  <2>1. Squared(s) \in Seq(Int) /\ Rows(s) \in Seq(Int)
    BY <1>1, SquaredAt, PairwiseIsRows, IntSequence
  <2>2. QED
    BY <2>1, SumType
<1>7. (0 - 2 * x) * Sum(s) \in Int /\ n * (x * x) \in Int
  BY <1>1, <1>6
<1>8. QED
  BY <1>2, <1>4, <1>5, <1>6, <1>7

LEMMA PairwiseSum ==
  \A s \in Seq(Int) :
    PairwiseSquares(s) = Len(s) * Sum(Squared(s)) - Sum(s) * Sum(s)
<1> DEFINE T == {s \in Seq(Int) :
                   PairwiseSquares(s) = Len(s) * Sum(Squared(s)) - Sum(s) * Sum(s)}
<1>1. <<>> \in T
  <2>1. Rows(<<>>) = <<>> /\ Squared(<<>>) = <<>>
    BY DEF Rows, Squared
  <2>2. PairwiseSquares(<<>>) = 0
    BY <2>1, PairwiseIsRows, SumAppend, EmptySeq
  <2>3. QED
    BY <2>1, <2>2, SumAppend, EmptySeq
<1>2. ASSUME NEW s \in Seq(Int), NEW x \in Int, s \in T
      PROVE  Append(s, x) \in T
  <2> DEFINE t == Append(s, x)
  <2>1. Len(s) \in Nat /\ t \in Seq(Int) /\ Len(t) = Len(s) + 1
    BY AppendedAt
  <2>2. Sum(Squared(t)) = Sum(Squared(s)) + x * x /\ Sum(t) = Sum(s) + x
    BY SumAppend, SquaredAppend
  <2>3. Squared(s) \in Seq(Int)
    BY <2>1, SquaredAt, IntSequence
  <2>4. Sum(s) \in Int /\ Sum(Squared(s)) \in Int
    BY <2>3, SumType
  <2>5. PICK q \in Int, u \in Int, l \in Nat :
          q = Sum(Squared(s)) /\ u = Sum(s) /\ l = Len(s)
    BY <2>1, <2>4
  <2>6. PairwiseSquares(t) = (l * q - u * u) + q + (0 - 2 * x) * u + l * (x * x)
    BY <1>2, <2>5, PairwiseAppend
  <2>7. (l * q - u * u) + q + (0 - 2 * x) * u + l * (x * x)
          = (l + 1) * (q + x * x) - (u + x) * (u + x)
    OBVIOUS
  <2> HIDE DEF t
  <2>8. PairwiseSquares(t) = Len(t) * Sum(Squared(t)) - Sum(t) * Sum(t)
    BY <2>1, <2>2, <2>5, <2>6, <2>7
  <2>9. QED
    BY <2>1, <2>8 DEF t
<1>3. Seq(Int) \subseteq T
  <2> HIDE DEF T
  <2>1. QED
    BY <1>1, <1>2, AllSequences
<1>4. QED
  BY <1>3

LEMMA DeviationsAt ==
  ASSUME NEW s \in Seq(Int)
  PROVE  /\ Deviations(s) \in Seq(Int) /\ Len(Deviations(s)) = Len(s)
         /\ \A i \in 1 .. Len(s) : Deviations(s)[i] = Len(s) * s[i] - Sum(s)
<1>1. Sum(s) \in Int
  BY SumType
<1>2. /\ DOMAIN s = 1 .. Len(s) /\ Len(s) \in Nat
      /\ \A i \in 1 .. Len(s) : s[i] \in Int
  OBVIOUS
<1>3. \A y \in Int : Len(s) * y - Sum(s) \in Int
  BY <1>1, <1>2
<1>4. Deviations(s) \in [1 .. Len(s) -> Int]
  BY <1>2, <1>3 DEF Deviations
<1>5. Deviations(s) \in Seq(Int) /\ Len(Deviations(s)) = Len(s)
  BY <1>2, <1>4, IntSequence
<1>6. \A i \in 1 .. Len(s) : Deviations(s)[i] = Len(s) * s[i] - Sum(s)
  BY <1>2 DEF Deviations
<1>7. QED
  BY <1>5, <1>6

\* The squares of the deviations, summed: len(s) times the pairwise squares.
LEMMA SquaredDeviations ==
  ASSUME NEW s \in Seq(Int)
  PROVE  Sum(Squared(Deviations(s))) = Len(s) * PairwiseSquares(s)
<1>1. PICK n \in Nat, u \in Int, q \in Int :
        n = Len(s) /\ u = Sum(s) /\ q = Sum(Squared(s))
  <2>1. Squared(s) \in Seq(Int) /\ Len(s) \in Nat
    BY SquaredAt, IntSequence
  <2>2. QED
    BY <2>1, SumType
<1> DEFINE a == n * n
           b == 0 - 2 * (n * u)
           c == u * u
           D == Deviations(s)
<1>2. a \in Int /\ b \in Int /\ c \in Int
  OBVIOUS
<1>3. /\ D \in Seq(Int) /\ Len(D) = n
      /\ \A i \in 1 .. n : s[i] \in Int /\ D[i] = n * s[i] - u
  BY <1>1, DeviationsAt
<1>4. \A y \in Int : (n * y - u) * (n * y - u) = a * (y * y) + b * y + c
  OBVIOUS
<1>5. Squared(D) = [i \in 1 .. n |-> (n * s[i] - u) * (n * s[i] - u)]
  <2> HIDE DEF D
  <2>1. DOMAIN D = 1 .. n
    BY <1>3
  <2>2. QED
    BY <1>3, <2>1 DEF Squared
<1>6. Quadratic(s, a, b, c) = [i \in 1 .. n |-> a * (s[i] * s[i]) + b * s[i] + c]
  <2> HIDE DEF a, b, c
  <2>1. QED
    BY <1>1 DEF Quadratic
<1>7. Squared(D) = Quadratic(s, a, b, c)
  <2> HIDE DEF a, b, c, D
  <2>1. QED
    BY <1>3, <1>4, <1>5, <1>6
<1>8. Sum(Squared(D)) = a * q + b * u + n * c
  <2> HIDE DEF a, b, c, D
  <2>1. QED
    BY <1>1, <1>2, <1>7, SumQuadratic
<1>9. a * q + b * u + n * c = n * (n * q - u * u)
  OBVIOUS
<1>10. PairwiseSquares(s) = n * q - u * u
  BY <1>1, PairwiseSum
<1> HIDE DEF a, b, c, D
<1>11. QED
  BY <1>1, <1>8, <1>9, <1>10 DEF D

\* A sum of numbers that are not negative is zero only if all of them are.
LEMMA SumZero ==
  \A s \in Seq(Nat) :
    /\ Sum(s) \in Nat
    /\ Sum(s) = 0 <=> \A i \in 1 .. Len(s) : s[i] = 0
<1> DEFINE T == {s \in Seq(Nat) : /\ Sum(s) \in Nat
                                  /\ Sum(s) = 0 <=> \A i \in 1 .. Len(s) : s[i] = 0}
<1>1. <<>> \in T
  BY SumAppend, EmptySeq
<1>2. ASSUME NEW s \in Seq(Nat), NEW x \in Nat, s \in T
      PROVE  Append(s, x) \in T
  <2> DEFINE t == Append(s, x)
  <2>1. s \in Seq(Int) /\ x \in Int
    BY SeqMonotonic
  <2>2. Sum(t) = Sum(s) + x
    BY <2>1, SumAppend
  <2>3. /\ Len(s) \in Nat /\ t \in Seq(Nat) /\ Len(t) = Len(s) + 1
        /\ t[Len(s) + 1] = x /\ \A i \in 1 .. Len(s) : t[i] = s[i]
    OBVIOUS
  <2>4. (\A i \in 1 .. Len(t) : t[i] = 0) <=> (x = 0 /\ \A i \in 1 .. Len(s) : s[i] = 0)
    <3> HIDE DEF t
    <3>1. QED
      BY <2>3
  <2>5. Sum(s) \in Nat /\ (Sum(s) = 0 <=> \A i \in 1 .. Len(s) : s[i] = 0)
    BY <1>2
  <2> HIDE DEF t
  <2>6. Sum(t) \in Nat /\ (Sum(t) = 0 <=> x = 0 /\ Sum(s) = 0)
    BY <2>2, <2>5
  <2>7. Sum(t) = 0 <=> \A i \in 1 .. Len(t) : t[i] = 0
    BY <2>4, <2>5, <2>6, Zenon
  <2>8. t \in T
    BY <2>3, <2>6, <2>7
  <2>9. QED
    BY <2>8 DEF t
<1>3. Seq(Nat) \subseteq T
  <2> HIDE DEF T
  <2>1. QED
    BY <1>1, <1>2, AllSequences
<1>4. QED
  BY <1>3

\* Of equal numbers, and only of those, every deviation is zero.
LEMMA NoDeviation ==
  ASSUME NEW s \in Seq(Int), Len(s) # 0
  PROVE  Sum(Squared(Deviations(s))) = 0 <=> \A i \in 1 .. Len(s) : s[i] = s[1]
<1> DEFINE D == Deviations(s)
           n == Len(s)
           u == Sum(s)
<1>1. /\ n \in Nat \ {0} /\ u \in Int /\ s[1] \in Int
      /\ \A i \in 1 .. n : s[i] \in Int
  BY SumType
<1>2. /\ D \in Seq(Int) /\ Len(D) = n
      /\ \A i \in 1 .. n : D[i] \in Int /\ D[i] = n * s[i] - u
  BY DeviationsAt
<1>3. /\ Squared(D) \in Seq(Nat) /\ Len(Squared(D)) = n
      /\ \A i \in 1 .. n : Squared(D)[i] = 0 <=> D[i] = 0
  <2> HIDE DEF D, n, u
  <2>1. \A y \in Int : y * y \in Nat /\ (y * y = 0 <=> y = 0)
    <3>1. \A y \in Int : y < 0 => y * y > 0
      OBVIOUS
    <3>2. \A y \in Int : y > 0 => y * y > 0
      OBVIOUS
    <3>3. QED
      BY <3>1, <3>2
  <2>2. /\ Squared(D) \in [1 .. n -> Int]
        /\ \A i \in 1 .. n : Squared(D)[i] = D[i] * D[i]
    BY <1>2, SquaredAt
  <2>3. Squared(D) \in [1 .. n -> Nat]
    BY <1>2, <2>1, <2>2
  <2>4. Squared(D) \in Seq(Nat) /\ Len(Squared(D)) = n
    BY <1>1, <2>3
  <2>5. \A i \in 1 .. n : Squared(D)[i] = 0 <=> D[i] = 0
    BY <1>2, <2>1, <2>2
  <2>6. QED
    BY <2>4, <2>5
<1>4. Sum(Squared(D)) = 0 <=> \A i \in 1 .. n : D[i] = 0
  <2> HIDE DEF D, n, u
  <2>1. QED
    BY <1>3, SumZero
<1>5. ASSUME \A i \in 1 .. n : D[i] = 0
      PROVE  \A i \in 1 .. n : s[i] = s[1]
  <2> HIDE DEF D, n, u
  <2>1. SUFFICES ASSUME NEW i \in 1 .. n PROVE s[i] = s[1]
    OBVIOUS
  <2>2. n * s[i] - u = 0 /\ n * s[1] - u = 0
    <3>1. 1 \in 1 .. n
      BY <1>1
    <3>2. D[i] = n * s[i] - u /\ D[1] = n * s[1] - u /\ D[i] = 0 /\ D[1] = 0
      BY <1>2, <1>5, <3>1
    <3>3. QED
      BY <3>2
  <2>3. PICK y \in Int, z \in Int : y = s[i] /\ z = s[1]
    BY <1>1
  <2>4. n * (y - z) = 0
    <3>1. n * y = u /\ n * z = u
      <4>1. n * y - u = 0 /\ n * z - u = 0
        BY <2>2, <2>3, Zenon
      <4>2. n * y \in Int /\ n * z \in Int
        BY <1>1
      <4>3. QED
        BY <1>1, <4>1, <4>2
    <3>2. n * (y - z) = n * y - n * z
      BY <1>1
    <3>3. QED
      BY <1>1, <3>1, <3>2
  <2>5. QED
    BY <1>1, <2>3, <2>4
<1>6. ASSUME \A i \in 1 .. n : s[i] = s[1]
      PROVE  \A i \in 1 .. n : D[i] = 0
  <2>1. Quadratic(s, 0, 0, s[1]) = s
    <3>1. \A i \in 1 .. n : 0 * (s[i] * s[i]) + 0 * s[i] + s[1] = s[i]
      BY <1>1, <1>6
    <3>2. DOMAIN s = 1 .. n /\ s = [i \in 1 .. n |-> s[i]]
      OBVIOUS
    <3> HIDE DEF n
    <3>3. QED
      BY <3>1, <3>2 DEF Quadratic
  <2>2. Sum(Quadratic(s, 0, 0, s[1])) = 0 * Sum(Squared(s)) + 0 * u + n * s[1]
    BY <1>1, SumQuadratic
  <2>3. Sum(Squared(s)) \in Int
    BY SquaredAt, IntSequence, SumType
  <2>4. u = n * s[1]
    BY <1>1, <2>1, <2>2, <2>3
  <2> HIDE DEF D, n, u
  <2>5. ASSUME NEW i \in 1 .. n PROVE D[i] = 0
    <3>1. D[i] = n * s[i] - u /\ s[i] = s[1]
      BY <1>2, <1>6
    <3>2. D[i] = u - u
      BY <2>4, <3>1
    <3>3. QED
      BY <1>1, <3>2
  <2>6. QED
    BY <2>5
<1>7. QED
  BY <1>4, <1>5, <1>6

-----------------------------------------------------------------------------
(* SampleStatistics *)

\* Successive times of reception are a period apart.
PeriodsAllowed ==
  \A i \in 1 .. Len(stamps) - 1 : stamps[i + 1] - stamps[i] \in Periods

SampleInv ==
  /\ values \in Seq(Int)
  /\ stamps \in Seq(Nat)
  /\ PeriodsAllowed

\* The invariant of SampleStatistics: what is summarised are numbers, and the
\* times are a period apart.
THEOREM SamplesInductive == Spec => []SampleInv
<1> USE StatisticsAssumption
<1>1. Init => SampleInv
  BY DEF Init, SampleInv, PeriodsAllowed
<1>2. SampleInv /\ [Next]_vars => SampleInv'
  <2> SUFFICES ASSUME SampleInv, [Next]_vars PROVE SampleInv'
    OBVIOUS
  <2>1. CASE UNCHANGED vars
    BY <2>1 DEF vars, SampleInv, PeriodsAllowed
  <2>2. ASSUME NEW latency \in Latencies, NEW period \in Periods, Measure(latency, period)
        PROVE  SampleInv'
    <3> DEFINE n == Len(stamps)
               x == IF stamps = <<>> THEN 0 ELSE stamps[n] + period
    <3>1. values \in Seq(Int) /\ stamps \in Seq(Nat) /\ n \in Nat
      BY DEF SampleInv
    <3>2. latency \in Int /\ period \in Nat
      BY StatisticsAssumption DEF StatisticsAssumption
    <3>3. x \in Nat
      BY <3>1, <3>2
    <3>4. values' = Append(values, latency) /\ stamps' = Append(stamps, x)
      BY <2>2 DEF Measure
    <3>5. values' \in Seq(Int)
      BY <3>1, <3>2, <3>4
    <3>6. /\ stamps' \in Seq(Nat) /\ Len(stamps') = n + 1 /\ stamps'[n + 1] = x
          /\ \A i \in 1 .. n : stamps'[i] = stamps[i]
      <4> HIDE DEF x
      <4>1. QED
        BY <3>1, <3>3, <3>4
    <3>7. ASSUME NEW i \in 1 .. n PROVE stamps'[i + 1] - stamps'[i] \in Periods
      <4>1. CASE i = n
        <5>1. stamps # <<>> /\ stamps[n] \in Nat
          BY <3>1, <4>1
        <5>2. stamps'[i + 1] = stamps[n] + period /\ stamps'[i] = stamps[n]
          BY <3>6, <4>1, <5>1
        <5>3. QED
          BY <3>2, <5>1, <5>2
      <4>2. CASE i # n
        <5>1. i \in 1 .. n - 1 /\ i + 1 \in 1 .. n
          BY <3>1, <4>2
        <5>2. stamps'[i + 1] = stamps[i + 1] /\ stamps'[i] = stamps[i]
          BY <3>6, <5>1
        <5>3. stamps[i + 1] - stamps[i] \in Periods
          BY <5>1 DEF SampleInv, PeriodsAllowed
        <5>4. QED
          BY <5>2, <5>3
      <4>3. QED
        BY <4>1, <4>2
    <3>8. PeriodsAllowed'
      <4> HIDE DEF x
      <4>1. SUFFICES ASSUME NEW i \in 1 .. Len(stamps') - 1
                     PROVE  stamps'[i + 1] - stamps'[i] \in Periods
        BY DEF PeriodsAllowed
      <4>2. i \in 1 .. n
        BY <3>1, <3>6
      <4>3. QED
        BY <3>7, <4>2
    <3>9. QED
      BY <3>5, <3>6, <3>8 DEF SampleInv
  <2>3. QED
    BY <2>1, <2>2 DEF Next
<1>3. QED
  BY <1>1, <1>2, PTL DEF Spec

\* The deviation agrees with its definition by pairs, for any samples.
THEOREM DeviationsPairwise == Spec => []DeviationIsPairwise
<1>1. SampleInv => DeviationIsPairwise
  <2> SUFFICES ASSUME SampleInv, Len(values) >= 2
               PROVE  SampleVariance(values).num * Len(values) * (Len(values) - 1)
                        = SampleVariance(values).den * PairwiseSquares(values)
    BY DEF DeviationIsPairwise
  <2>1. values \in Seq(Int)
    BY DEF SampleInv
  <2>2. /\ SampleVariance(values).num = Sum(Squared(Deviations(values)))
        /\ SampleVariance(values).den = Len(values) * Len(values) * (Len(values) - 1)
    <3>1. Len(values) # 0 /\ Len(values) # 1
      <4>1. Len(values) \in Nat
        BY <2>1, LenProperties
      <4>2. \A n \in Nat : n >= 2 => n # 0 /\ n # 1
        OBVIOUS
      <4>3. QED
        BY <4>1, <4>2
    <3>2. values # <<>>
      BY <3>1, EmptySeq
    <3>3. QED
      BY <3>1, <3>2 DEF SampleVariance
  <2>3. SampleVariance(values).num = Len(values) * PairwiseSquares(values)
    BY <2>1, <2>2, SquaredDeviations
  <2>4. PICK n \in Nat, w \in Int : n = Len(values) /\ w = PairwiseSquares(values)
    <3>1. Rows(values) \in Seq(Int) /\ PairwiseSquares(values) = Sum(Rows(values))
      BY <2>1, PairwiseIsRows, IntSequence
    <3>2. QED
      BY <2>1, <3>1, SumType
  <2>5. (n * w) * n * (n - 1) = (n * n * (n - 1)) * w
    OBVIOUS
  <2>6. QED
    BY <2>2, <2>3, <2>4, <2>5
<1>2. QED
  BY <1>1, SamplesInductive, PTL

\* The jitter is zero exactly for a constant period.
THEOREM JitterAperiodic == Spec => []JitterMeansAperiodic
<1>1. SampleInv => JitterMeansAperiodic
  <2> DEFINE n == Len(stamps) - 1
             p == PeriodsOf(stamps)
  <2> SUFFICES ASSUME SampleInv, Len(stamps) >= 3
               PROVE  Jitter(stamps).num = 0 <=>
                        \E period \in Periods :
                          \A i \in 1 .. n : stamps[i + 1] = stamps[i] + period
    BY DEF JitterMeansAperiodic
  <2>1. /\ stamps \in Seq(Nat) /\ n \in Nat /\ n >= 2
        /\ ~(Len(stamps) < 2) /\ Len(stamps) # 2
    <3>1. stamps \in Seq(Nat) /\ Len(stamps) \in Nat
      BY LenProperties DEF SampleInv
    <3>2. \A k \in Nat : k >= 3 => k - 1 \in Nat /\ k - 1 >= 2 /\ ~(k < 2) /\ k # 2
      OBVIOUS
    <3>3. QED
      BY <3>1, <3>2
  <2>2. \A i \in 1 .. n : stamps[i] \in Nat /\ stamps[i + 1] \in Nat
    BY <2>1
  <2>3. p \in [1 .. n -> Int] /\ \A i \in 1 .. n : p[i] = stamps[i + 1] - stamps[i]
    BY <2>2 DEF PeriodsOf
  <2>4. \A i \in 1 .. n : p[i] \in Periods
    BY <2>3 DEF SampleInv, PeriodsAllowed
  <2> HIDE DEF p, n
  <2>5. p \in Seq(Int) /\ Len(p) = n
    BY <2>1, <2>3, IntSequence
  <2>6. Jitter(stamps).num = Sum(Squared(Deviations(p)))
    <3>1. p # <<>> /\ Len(p) # 1
      <4>1. Len(p) # 0 /\ Len(p) # 1
        BY <2>1, <2>5
      <4>2. QED
        BY <4>1, EmptySeq
    <3>2. Jitter(stamps) = SampleVariance(p)
      BY <2>1 DEF Jitter, p
    <3>3. SampleVariance(p).num = Sum(Squared(Deviations(p)))
      BY <3>1 DEF SampleVariance
    <3>4. QED
      BY <3>2, <3>3
  <2>7. Jitter(stamps).num = 0 <=> \A i \in 1 .. n : p[i] = p[1]
    <3>1. Len(p) # 0
      BY <2>1, <2>5
    <3>2. QED
      BY <2>5, <2>6, <3>1, NoDeviation
  <2>8. (\A i \in 1 .. n : p[i] = p[1]) <=>
          \E period \in Periods : \A i \in 1 .. n : stamps[i + 1] = stamps[i] + period
    <3>1. 1 \in 1 .. n /\ p[1] \in Periods
      BY <2>1, <2>4
    <3>2. ASSUME \A i \in 1 .. n : p[i] = p[1]
          PROVE  \A i \in 1 .. n : stamps[i + 1] = stamps[i] + p[1]
      BY <2>2, <2>3, <3>2
    <3>3. ASSUME NEW period \in Periods,
                 \A i \in 1 .. n : stamps[i + 1] = stamps[i] + period
          PROVE  \A i \in 1 .. n : p[i] = p[1]
      <4>1. period \in Nat
        BY StatisticsAssumption DEF StatisticsAssumption
      <4>2. \A i \in 1 .. n : p[i] = period
        BY <2>2, <2>3, <3>3, <4>1
      <4>3. QED
        BY <3>1, <4>2
    <3>4. QED
      BY <3>1, <3>2, <3>3
  <2>9. QED
    BY <2>7, <2>8
<1>2. QED
  BY <1>1, SamplesInductive, PTL

-----------------------------------------------------------------------------
(* Percentiles *)

LEMMA IntervalSize ==
  \A a, b \in Int :
    a <= b + 1 => IsFiniteSet(a .. b) /\ Cardinality(a .. b) = b - a + 1
<1> SUFFICES ASSUME NEW a \in Int, NEW b \in Int, a <= b + 1
             PROVE  IsFiniteSet(a .. b) /\ Cardinality(a .. b) = b - a + 1
  OBVIOUS
<1>1. /\ IsFiniteSet(a .. b)
      /\ Cardinality(a .. b) = IF a > b THEN 0 ELSE b - a + 1
  BY FS_Interval
<1>2. QED
  BY <1>1

UpTo(s, i) == {j \in 1 .. Len(s) : Precedes(s, j, i)}

\* Precedes is a linear order, also of equal samples.
LEMMA PrecedesOrder ==
  ASSUME NEW s \in Seq(Int)
  PROVE  /\ \A i \in 1 .. Len(s) : Precedes(s, i, i)
         /\ \A i, j \in 1 .. Len(s) : Precedes(s, i, j) \/ Precedes(s, j, i)
         /\ \A i, j \in 1 .. Len(s) : Precedes(s, i, j) /\ Precedes(s, j, i) => i = j
         /\ \A i, j, k \in 1 .. Len(s) :
              Precedes(s, i, j) /\ Precedes(s, j, k) => Precedes(s, i, k)
<1>1. \A i \in 1 .. Len(s) : s[i] \in Int
  OBVIOUS
<1>2. QED
  BY <1>1 DEF Precedes

LEMMA PlaceAt ==
  ASSUME NEW s \in Seq(Int), NEW i \in 1 .. Len(s)
  PROVE  /\ Place(s, i) = Cardinality(UpTo(s, i))
         /\ IsFiniteSet(UpTo(s, i))
         /\ Place(s, i) \in 1 .. Len(s)
<1>1. DOMAIN s = 1 .. Len(s) /\ Len(s) \in Nat
  OBVIOUS
<1>2. Place(s, i) = Cardinality(UpTo(s, i))
  BY <1>1 DEF Place, UpTo
<1>3. IsFiniteSet(1 .. Len(s)) /\ Cardinality(1 .. Len(s)) = Len(s)
  <2>1. 1 \in Int /\ Len(s) \in Int /\ 1 <= Len(s) + 1 /\ Len(s) - 1 + 1 = Len(s)
    BY <1>1
  <2>2. QED
    BY <2>1, IntervalSize
<1>4. IsFiniteSet(UpTo(s, i)) /\ Cardinality(UpTo(s, i)) <= Len(s)
  <2>1. UpTo(s, i) \in SUBSET (1 .. Len(s))
    BY DEF UpTo
  <2>2. QED
    BY <1>3, <2>1, FS_Subset
<1>5. i \in UpTo(s, i)
  BY PrecedesOrder DEF UpTo
<1>6. Cardinality(UpTo(s, i)) \in Nat /\ Cardinality(UpTo(s, i)) # 0
  BY <1>4, <1>5, FS_CardinalityType, FS_EmptySet
<1>7. QED
  BY <1>1, <1>2, <1>4, <1>6

\* What comes first has the smaller place.
LEMMA PlaceOrder ==
  ASSUME NEW s \in Seq(Int), NEW i \in 1 .. Len(s), NEW j \in 1 .. Len(s),
         i # j, Precedes(s, i, j)
  PROVE  Place(s, i) < Place(s, j)
<1>1. UpTo(s, i) \subseteq UpTo(s, j) /\ j \in UpTo(s, j) /\ j \notin UpTo(s, i)
  BY PrecedesOrder DEF UpTo
<1>2. /\ IsFiniteSet(UpTo(s, j))
      /\ Place(s, i) = Cardinality(UpTo(s, i)) /\ Place(s, j) = Cardinality(UpTo(s, j))
      /\ Place(s, i) \in Nat /\ Place(s, j) \in Nat
  <2>1. Place(s, i) \in 1 .. Len(s) /\ Place(s, i) = Cardinality(UpTo(s, i))
    BY PlaceAt
  <2>2. /\ Place(s, j) \in 1 .. Len(s) /\ Place(s, j) = Cardinality(UpTo(s, j))
        /\ IsFiniteSet(UpTo(s, j))
    BY PlaceAt
  <2>3. QED
    BY <2>1, <2>2
<1>3. Place(s, i) <= Place(s, j) /\ Place(s, i) # Place(s, j)
  BY <1>1, <1>2, FS_Subset
<1>4. QED
  BY <1>2, <1>3

\* Every place is taken, by one sample.
LEMMA Places ==
  ASSUME NEW s \in Seq(Int)
  PROVE  /\ \A i, j \in 1 .. Len(s) : Place(s, i) = Place(s, j) => i = j
         /\ \A k \in 1 .. Len(s) : \E i \in 1 .. Len(s) : Place(s, i) = k
<1> DEFINE n == Len(s)
           f == [i \in 1 .. n |-> Place(s, i)]
<1>1. \A i, j \in 1 .. n : Place(s, i) = Place(s, j) => i = j
  <2> SUFFICES ASSUME NEW i \in 1 .. n, NEW j \in 1 .. n, i # j
               PROVE  Place(s, i) # Place(s, j)
    OBVIOUS
  <2>1. Place(s, i) < Place(s, j) \/ Place(s, j) < Place(s, i)
    BY PrecedesOrder, PlaceOrder
  <2>2. Place(s, i) \in 1 .. n /\ Place(s, j) \in 1 .. n
    BY PlaceAt
  <2>3. QED
    BY <2>1, <2>2
<1>2. f \in Injection(1 .. n, 1 .. n)
  <2>1. f \in [1 .. n -> 1 .. n]
    BY PlaceAt
  <2>2. QED
    BY <1>1, <2>1 DEF Injection, IsInjective
<1>3. IsFiniteSet(1 .. n)
  BY FS_Interval
<1>4. f \in Surjection(1 .. n, 1 .. n)
  <2> HIDE DEF f, n
  <2>1. QED
    BY <1>2, <1>3, FS_Injection
<1>5. \A k \in 1 .. n : \E i \in 1 .. n : f[i] = k
  BY <1>4 DEF Surjection
<1>6. QED
  BY <1>1, <1>5

\* Ordered has the samples at their places.
LEMMA OrderedAt ==
  ASSUME NEW s \in Seq(Int), NEW k \in 1 .. Len(s)
  PROVE  \E i \in 1 .. Len(s) : Place(s, i) = k /\ Ordered(s)[k] = s[i]
<1> DEFINE i == CHOOSE i \in DOMAIN s : Place(s, i) = k
<1>1. DOMAIN s = 1 .. Len(s)
  OBVIOUS
<1>2. i \in 1 .. Len(s) /\ Place(s, i) = k
  BY <1>1, Places
<1>3. Ordered(s)[k] = s[i]
  BY <1>1 DEF Ordered
<1>4. QED
  BY <1>2, <1>3

\* In the order of their places the samples do not fall, and so many are
\* smaller or greater than the one at place k.
LEMMA OrderedCounts ==
  ASSUME NEW s \in Seq(Int), NEW k \in 1 .. Len(s)
  PROVE  /\ Ordered(s)[k] \in Int
         /\ \A l \in k .. Len(s) : Ordered(s)[k] <= Ordered(s)[l]
         /\ Cardinality({i \in 1 .. Len(s) : s[i] < Ordered(s)[k]}) <= k - 1
         /\ Cardinality({i \in 1 .. Len(s) : s[i] > Ordered(s)[k]}) <= Len(s) - k
<1> DEFINE n == Len(s)
           A == {i \in 1 .. n : s[i] < Ordered(s)[k]}
           B == {i \in 1 .. n : s[i] > Ordered(s)[k]}
           f == [i \in A |-> Place(s, i)]
           g == [i \in B |-> Place(s, i)]
<1>1. PICK q \in 1 .. n : Place(s, q) = k /\ Ordered(s)[k] = s[q]
  BY OrderedAt
<1>2. n \in Nat /\ \A i \in 1 .. n : s[i] \in Int /\ Place(s, i) \in 1 .. n
  BY PlaceAt
<1>3. \A i, j \in 1 .. n : s[i] < s[j] => Place(s, i) < Place(s, j)
  <2> SUFFICES ASSUME NEW i \in 1 .. n, NEW j \in 1 .. n, s[i] < s[j]
               PROVE  Place(s, i) < Place(s, j)
    OBVIOUS
  <2>1. i # j
    <3>1. \A y \in Int : ~ (y < y)
      OBVIOUS
    <3>2. QED
      BY <1>2, <3>1
  <2>2. Precedes(s, i, j)
    BY DEF Precedes
  <2>3. QED
    BY <2>1, <2>2, PlaceOrder
<1>4. ASSUME NEW l \in k .. n PROVE Ordered(s)[k] <= Ordered(s)[l]
  <2>1. l \in 1 .. n
    BY <1>2
  <2>2. PICK r \in 1 .. n : Place(s, r) = l /\ Ordered(s)[l] = s[r]
    BY <2>1, OrderedAt
  <2>3. ~ (s[r] < s[q])
    <3>1. ~ (l < k)
      BY <1>2
    <3>2. QED
      BY <1>1, <1>3, <2>2, <3>1
  <2>4. s[r] \in Int /\ s[q] \in Int
    BY <1>2
  <2>5. s[q] <= s[r]
    BY <2>3, <2>4
  <2>6. QED
    BY <1>1, <2>2, <2>5
<1>5. Cardinality(A) <= k - 1
  <2>1. \A i \in A : Place(s, i) \in 1 .. k - 1
    BY <1>1, <1>2, <1>3
  <2>2. f \in Injection(A, 1 .. k - 1)
    <3>1. f \in [A -> 1 .. k - 1]
      BY <2>1
    <3>2. \A i, j \in A : f[i] = f[j] => i = j
      BY Places
    <3>3. QED
      BY <3>1, <3>2 DEF Injection, IsInjective
  <2>3. k - 1 \in Nat /\ IsFiniteSet(1 .. k - 1) /\ Cardinality(1 .. k - 1) = k - 1
    <3>1. k - 1 \in Nat /\ k - 1 \in Int /\ 1 <= (k - 1) + 1 /\ (k - 1) - 1 + 1 = k - 1
      BY <1>2
    <3>2. QED
      BY <3>1, IntervalSize
  <2> HIDE DEF f, A
  <2>4. QED
    BY <2>2, <2>3, FS_Injection
<1>6. Cardinality(B) <= n - k
  <2>1. \A i \in B : Place(s, i) \in k + 1 .. n
    BY <1>1, <1>2, <1>3
  <2>2. g \in Injection(B, k + 1 .. n)
    <3>1. g \in [B -> k + 1 .. n]
      BY <2>1
    <3>2. \A i, j \in B : g[i] = g[j] => i = j
      BY Places
    <3>3. QED
      BY <3>1, <3>2 DEF Injection, IsInjective
  <2>3. IsFiniteSet(k + 1 .. n) /\ Cardinality(k + 1 .. n) = n - k
    <3>1. k + 1 \in Int /\ n \in Int /\ k + 1 <= n + 1 /\ n - (k + 1) + 1 = n - k
      BY <1>2
    <3>2. QED
      BY <3>1, IntervalSize
  <2> HIDE DEF g, B
  <2>4. QED
    BY <2>2, <2>3, FS_Injection
<1>7. QED
  BY <1>1, <1>2, <1>4, <1>5, <1>6

LiesBetween(s, pct, low, high, weight) ==
  /\ (Len(s) - 1) * pct = 100 * (low - 1) + weight
  /\ high = IF weight = 0 THEN low ELSE low + 1
  /\ Percentile(s, pct) = Ordered(s)[low] * (100 - weight) + Ordered(s)[high] * weight

\* The percentile lies between two neighbours in order: the whole part of the
\* rank and the next place, or the same if the rank is whole.
LEMMA PercentileAt ==
  ASSUME NEW s \in Seq(Int), s # <<>>, NEW pct \in Percents
  PROVE  \E low, high \in 1 .. Len(s), weight \in 0 .. 99 :
           LiesBetween(s, pct, low, high, weight)
<1> DEFINE n == Len(s)
           r == Rank(n, pct)
<1>1. n \in Nat \ {0} /\ pct \in 1 .. 99
  BY EmptySeq DEF Percents
<1>2. PICK q \in Nat : q = (n - 1) * pct /\ q <= 99 * (n - 1)
  <2>1. (n - 1) * pct \in Nat /\ (n - 1) * pct <= 99 * (n - 1)
    <3>1. \A a \in Nat, b \in 1 .. 99 : a * b \in Nat /\ a * b <= 99 * a
      OBVIOUS
    <3>2. n - 1 \in Nat
      BY <1>1
    <3> HIDE DEF n
    <3>3. QED
      BY <1>1, <3>1, <3>2
  <2>2. QED
    BY <2>1
<1>3. r.low = q \div 100 /\ r.high = (q + 99) \div 100 /\ r.weight = q % 100
  BY <1>2 DEF Rank
<1>4. /\ r.weight \in 0 .. 99 /\ r.low \in Nat /\ q = 100 * r.low + r.weight
      /\ r.high = IF r.weight = 0 THEN r.low ELSE r.low + 1
  BY <1>3
<1>5. r.low + 1 \in 1 .. n /\ r.high + 1 \in 1 .. n
  <2> HIDE DEF n, r
  <2>1. PICK l \in Nat, w \in Nat : l = r.low /\ w = r.weight
    <3>1. r.low \in Nat /\ r.weight \in 0 .. 99
      BY <1>4, Zenon
    <3>2. \A x \in 0 .. 99 : x \in Nat
      OBVIOUS
    <3>3. QED
      BY <3>1, <3>2, Zenon
  <2>2. 100 * l + w <= 99 * (n - 1)
    BY <1>2, <1>4, <2>1
  <2>3. l <= n - 1 /\ (w # 0 => l + 1 <= n - 1)
    <3>1. \A i, j, m \in Nat :
            100 * i + j <= 99 * m => i <= m /\ (j # 0 => i + 1 <= m)
      OBVIOUS
    <3>2. n - 1 \in Nat
      BY <1>1
    <3>3. QED
      BY <2>2, <3>1, <3>2
  <2>4. r.high = IF w = 0 THEN l ELSE l + 1
    BY <1>4, <2>1
  <2>5. QED
    BY <1>1, <2>1, <2>3, <2>4
<1>7. Percentile(s, pct) =
        Ordered(s)[r.low + 1] * (100 - r.weight) + Ordered(s)[r.high + 1] * r.weight
  <2>1. ~ (pct <= 0) /\ ~ (pct >= 100)
    BY <1>1
  <2>2. QED
    BY <2>1 DEF Percentile, Interpolate
<1>8. PICK low \in 1 .. n, high \in 1 .. n, weight \in 0 .. 99 :
        low = r.low + 1 /\ high = r.high + 1 /\ weight = r.weight
  BY <1>4, <1>5
<1>9. (n - 1) * pct = 100 * (low - 1) + weight
  <2> HIDE DEF n, r
  <2>1. r.low = low - 1 /\ r.weight = weight
    BY <1>4, <1>8
  <2>2. QED
    BY <1>2, <1>4, <2>1
<1>10. high = IF weight = 0 THEN low ELSE low + 1
  <2> HIDE DEF n, r
  <2>1. QED
    BY <1>4, <1>8
<1>11. Percentile(s, pct) = Ordered(s)[low] * (100 - weight) + Ordered(s)[high] * weight
  <2> HIDE DEF r
  <2>1. QED
    BY <1>7, <1>8, Zenon
<1>12. LiesBetween(s, pct, low, high, weight)
  BY <1>9, <1>10, <1>11, Zenon DEF LiesBetween
<1>13. QED
  BY <1>12, Zenon

\* Percentiles split the samples, for any latencies.
THEOREM PercentilesSplit == Spec => []PercentilesSplitSamples
<1>1. SampleInv => PercentilesSplitSamples
  <2> DEFINE n == Len(values)
             o == Ordered(values)
  <2> SUFFICES ASSUME SampleInv, values # <<>>, NEW pct \in Percents
               PROVE  /\ 100 * Below(Percentile(values, pct)) < (n - 1) * pct + 100
                      /\ 100 * Above(Percentile(values, pct))
                           < 100 * (n - 1) - (n - 1) * pct + 100
    BY DEF PercentilesSplitSamples
  <2>1. values \in Seq(Int) /\ n \in Nat
    BY DEF SampleInv
  <2>2. PICK low \in 1 .. n, high \in 1 .. n, weight \in 0 .. 99 :
          LiesBetween(values, pct, low, high, weight)
    BY <2>1, PercentileAt
  <2>3. /\ (n - 1) * pct = 100 * (low - 1) + weight
        /\ high = IF weight = 0 THEN low ELSE low + 1
        /\ Percentile(values, pct) = o[low] * (100 - weight) + o[high] * weight
    BY <2>2, Zenon DEF LiesBetween
  <2>4. PICK a \in Int, b \in Int : a = o[low] /\ b = o[high] /\ a <= b
    <3>1. high \in low .. n
      BY <2>1, <2>3
    <3>2. QED
      BY <2>1, <3>1, OrderedCounts
  <2>5. PICK p \in Int : p = Percentile(values, pct) /\ 100 * a <= p /\ p <= 100 * b
    <3>1. a * (100 - weight) + b * weight \in Int
      BY <2>4
    <3>2. weight * (b - a) >= 0 /\ (100 - weight) * (b - a) >= 0
      <4>1. \A x, y \in Nat : x * y >= 0
        OBVIOUS
      <4>2. weight \in Nat /\ 100 - weight \in Nat /\ b - a \in Nat
        BY <2>4
      <4>3. QED
        BY <4>1, <4>2
    <3>3. a * (100 - weight) + b * weight = 100 * a + weight * (b - a)
      OBVIOUS
    <3>4. a * (100 - weight) + b * weight = 100 * b - (100 - weight) * (b - a)
      OBVIOUS
    <3>5. \A x, y, z \in Int : z >= 0 /\ x = 100 * y + z => 100 * y <= x
      OBVIOUS
    <3>6. \A x, y, z \in Int : z >= 0 /\ x = 100 * y - z => x <= 100 * y
      OBVIOUS
    <3>7. weight * (b - a) \in Int /\ (100 - weight) * (b - a) \in Int
      OBVIOUS
    <3> DEFINE x == a * (100 - weight) + b * weight
    <3>8. x = Percentile(values, pct)
      BY <2>3, <2>4, Zenon
    <3>9. 100 * a <= x
      BY <3>1, <3>2, <3>3, <3>5, <3>7
    <3>10. x <= 100 * b
      BY <3>1, <3>2, <3>4, <3>6, <3>7
    <3>11. QED
      BY <3>1, <3>8, <3>9, <3>10, Zenon
  <2>6. DOMAIN values = 1 .. n /\ \A i \in 1 .. n : values[i] \in Int
    BY <2>1
  <2> DEFINE less == {i \in 1 .. n : values[i] < o[high]}
             more == {i \in 1 .. n : values[i] > o[low]}
  <2>7. /\ IsFiniteSet(less) /\ Cardinality(less) \in Nat /\ Cardinality(less) <= high - 1
        /\ IsFiniteSet(more) /\ Cardinality(more) \in Nat /\ Cardinality(more) <= n - low
    <3>1. Cardinality(less) <= high - 1 /\ Cardinality(more) <= n - low
      BY <2>1, OrderedCounts
    <3>2. IsFiniteSet(1 .. n)
      BY <2>1, FS_Interval
    <3>3. less \in SUBSET (1 .. n) /\ more \in SUBSET (1 .. n)
      OBVIOUS
    <3> HIDE DEF less, more, n
    <3>4. IsFiniteSet(less) /\ IsFiniteSet(more)
      BY <3>2, <3>3, FS_Subset
    <3>5. QED
      BY <3>1, <3>4, FS_CardinalityType
  <2>8. Below(p) \in Nat /\ Below(p) <= Cardinality(less)
    <3> DEFINE x == {i \in DOMAIN values : 100 * values[i] < p}
    <3>1. x \in SUBSET less
      BY <2>4, <2>5, <2>6
    <3> HIDE DEF less
    <3>2. IsFiniteSet(x) /\ Cardinality(x) <= Cardinality(less)
      <4> HIDE DEF x
      <4>1. QED
        BY <2>7, <3>1, FS_Subset
    <3>3. QED
      BY <3>2, FS_CardinalityType DEF Below
  <2>9. Above(p) \in Nat /\ Above(p) <= Cardinality(more)
    <3> DEFINE x == {i \in DOMAIN values : 100 * values[i] > p}
    <3>1. x \in SUBSET more
      BY <2>4, <2>5, <2>6
    <3> HIDE DEF more
    <3>2. IsFiniteSet(x) /\ Cardinality(x) <= Cardinality(more)
      <4> HIDE DEF x
      <4>1. QED
        BY <2>7, <3>1, FS_Subset
    <3>3. QED
      BY <3>2, FS_CardinalityType DEF Above
  <2> HIDE DEF less, more, n, o
  <2>10. PICK c \in Nat, d \in Nat, q \in Int :
          /\ c = Below(p) /\ c <= high - 1 /\ d = Above(p) /\ d <= n - low
          /\ q = (n - 1) * pct /\ q = 100 * (low - 1) + weight
    BY <2>1, <2>3, <2>7, <2>8, <2>9
  <2>11. 100 * c < q + 100
    <3>1. high - 1 = low - 1 \/ (weight > 0 /\ high - 1 = low)
      BY <2>1, <2>3
    <3>2. \A l, w, e \in Int :
            e <= l /\ (w > 0 \/ e <= l - 1) /\ w >= 0
              => 100 * e < 100 * (l - 1) + w + 100
      OBVIOUS
    <3>3. c <= low /\ (weight > 0 \/ c <= low - 1) /\ low \in Int
      BY <2>1, <2>10, <3>1
    <3>4. 100 * c < 100 * (low - 1) + weight + 100
      BY <3>2, <3>3
    <3>5. QED
      BY <2>10, <3>3, <3>4
  <2>12. 100 * d < 100 * (n - 1) - q + 100
    <3>1. \A l, w, e, m \in Int :
            e <= m - l /\ w < 100 => 100 * e < 100 * (m - 1) - (100 * (l - 1) + w) + 100
      OBVIOUS
    <3>2. low \in Int
      BY <2>1
    <3>3. 100 * d < 100 * (n - 1) - (100 * (low - 1) + weight) + 100
      BY <2>1, <2>10, <3>1, <3>2
    <3>4. q = 100 * (low - 1) + weight
      BY <2>10
    <3>5. QED
      BY <3>3, <3>4, Zenon
  <2>13. QED
    BY <2>5, <2>10, <2>11, <2>12
<1>2. QED
  BY <1>1, SamplesInductive, PTL

\* A function from 1 .. n onto 0 .. n - 1 that never falls is k - 1.
LEMMA RisingOnto ==
  ASSUME NEW n \in Nat, NEW f \in [1 .. n -> 0 .. n - 1],
         \A k, l \in 1 .. n : k <= l => f[k] <= f[l],
         \A m \in 0 .. n - 1 : \E k \in 1 .. n : f[k] = m
  PROVE  \A k \in 1 .. n : f[k] = k - 1
<1>1. \A k \in 1 .. n : k + 1 \in 1 .. n => f[k + 1] <= f[k] + 1
  <2> SUFFICES ASSUME NEW k \in 1 .. n, k + 1 \in 1 .. n, f[k + 1] > f[k] + 1
               PROVE  FALSE
    OBVIOUS
  <2>1. PICK l \in 1 .. n : f[l] = f[k] + 1
    <3>1. f[k] + 1 \in 0 .. n - 1
      <4>1. f[k] \in 0 .. n - 1 /\ f[k + 1] \in 0 .. n - 1
        OBVIOUS
      <4>2. QED
        BY <4>1
    <3>2. QED
      BY <3>1
  <2>2. l <= k \/ k + 1 <= l
    OBVIOUS
  <2>3. f[l] <= f[k] \/ f[k + 1] <= f[l]
    BY <2>2
  <2>4. f[k] \in Nat /\ f[k + 1] \in Nat /\ f[l] \in Nat
    <3>1. \A i \in 1 .. n : f[i] \in 0 .. n - 1
      OBVIOUS
    <3>2. \A m \in 0 .. n - 1 : m \in Nat
      OBVIOUS
    <3>3. QED
      BY <3>1, <3>2, Zenon
  <2>5. PICK x \in Nat, y \in Nat, z \in Nat : x = f[k] /\ y = f[k + 1] /\ z = f[l]
    BY <2>4
  <2>6. y > x + 1 /\ z = x + 1 /\ (z <= x \/ y <= z)
    BY <2>1, <2>3, <2>5, Zenon
  <2>7. QED
    BY <2>6
<1>2. \A k \in 1 .. n : f[k] <= k - 1
  <2> DEFINE T == {m \in Nat : m + 1 \in 1 .. n => f[m + 1] <= m}
  <2>1. 0 \in T
    <3>1. SUFFICES ASSUME 1 \in 1 .. n PROVE f[1] <= 0
      OBVIOUS
    <3>2. PICK l \in 1 .. n : f[l] = 0
      BY <3>1
    <3>3. QED
      BY <3>1, <3>2
  <2>2. ASSUME NEW m \in Nat, m \in T PROVE m + 1 \in T
    <3>1. SUFFICES ASSUME m + 2 \in 1 .. n PROVE f[m + 2] <= m + 1
      OBVIOUS
    <3>2. m + 1 \in 1 .. n /\ (m + 1) + 1 = m + 2
      BY <3>1
    <3>3. f[m + 1] <= m /\ f[m + 2] <= f[m + 1] + 1
      BY <1>1, <2>2, <3>1, <3>2
    <3>4. f[m + 1] \in Nat /\ f[m + 2] \in Nat
      BY <3>1, <3>2
    <3>5. QED
      BY <3>3, <3>4
  <2>3. Nat \subseteq T
    <3> HIDE DEF T
    <3>1. QED
      BY <2>1, <2>2, AllNumbers
  <2>4. ASSUME NEW k \in 1 .. n PROVE f[k] <= k - 1
    <3>1. k - 1 \in T /\ (k - 1) + 1 = k
      BY <2>3
    <3>2. QED
      BY <3>1
  <2>5. QED
    BY <2>4
<1>3. \A k \in 1 .. n : f[k] >= k - 1
  <2> DEFINE T == {m \in Nat : n - m \in 1 .. n => f[n - m] >= n - m - 1}
  <2>1. 0 \in T
    <3>1. SUFFICES ASSUME n \in 1 .. n PROVE f[n] >= n - 1
      OBVIOUS
    <3>2. PICK l \in 1 .. n : f[l] = n - 1
      BY <3>1
    <3>3. f[l] <= f[n]
      BY <3>1
    <3>4. QED
      BY <3>2, <3>3
  <2>2. ASSUME NEW m \in Nat, m \in T PROVE m + 1 \in T
    <3> DEFINE k == n - (m + 1)
    <3>1. SUFFICES ASSUME k \in 1 .. n PROVE f[k] >= k - 1
      OBVIOUS
    <3>2. k + 1 = n - m /\ k + 1 \in 1 .. n
      BY <3>1
    <3>3. f[k + 1] >= (k + 1) - 1 /\ f[k + 1] <= f[k] + 1
      BY <1>1, <2>2, <3>1, <3>2
    <3>4. f[k] \in Nat /\ f[k + 1] \in Nat /\ k \in Nat
      BY <3>1, <3>2
    <3>5. \A x, y, z \in Nat : y >= (z + 1) - 1 /\ y <= x + 1 => x >= z - 1
      OBVIOUS
    <3> HIDE DEF k
    <3>6. QED
      BY <3>3, <3>4, <3>5
  <2>3. Nat \subseteq T
    <3> HIDE DEF T
    <3>1. QED
      BY <2>1, <2>2, AllNumbers
  <2>4. ASSUME NEW k \in 1 .. n PROVE f[k] >= k - 1
    <3>1. n - k \in Nat /\ n - (n - k) = k
      OBVIOUS
    <3>2. n - k \in T
      BY <2>3, <3>1, Zenon
    <3>3. QED
      BY <3>1, <3>2
  <2>5. QED
    BY <2>4
<1>4. QED
  <2>1. \A k \in 1 .. n : f[k] \in Nat /\ k - 1 \in Nat
    OBVIOUS
  <2>2. QED
    BY <1>2, <1>3, <2>1

\* Multiples of a positive distance are ordered as their factors.
LEMMA MultiplesOrder ==
  ASSUME NEW low \in Int, NEW gap \in Nat \ {0}, NEW x \in Nat, NEW y \in Nat,
         low + x * gap <= low + y * gap
  PROVE  x <= y
<1>1. SUFFICES ASSUME x > y PROVE FALSE
  OBVIOUS
<1>2. PICK e \in Nat \ {0} : x = y + e
  <2>1. x - y \in Nat \ {0} /\ x = y + (x - y)
    BY <1>1
  <2>2. QED
    BY <2>1
<1>3. (y + e) * gap = y * gap + e * gap /\ y * gap \in Int /\ e * gap \in Int
  OBVIOUS
<1>4. e * gap > 0
  <2>1. \A a, b \in Nat \ {0} : a * b > 0
    OBVIOUS
  <2>2. QED
    BY <2>1
<1>5. x * gap = y * gap + e * gap
  BY <1>2, <1>3
<1>6. QED
  BY <1>3, <1>4, <1>5

\* Samples that are spaced evenly are, in order, at multiples of the gap.
LEMMA EvenlySpaced ==
  ASSUME NEW s \in Seq(Int), NEW low \in Int, NEW gap \in Nat,
         SeqExt!ToSet(s) = {low + k * gap : k \in 0 .. Len(s) - 1}
  PROVE  \A k \in 1 .. Len(s) : Ordered(s)[k] = low + (k - 1) * gap
<1> DEFINE n == Len(s)
           o == Ordered(s)
<1>1. n \in Nat /\ DOMAIN s = 1 .. n
  OBVIOUS
<1>2. \A i \in 1 .. n : \E m \in 0 .. n - 1 : s[i] = low + m * gap
  <2>1. \A i \in 1 .. n : s[i] \in SeqExt!ToSet(s)
    BY <1>1 DEF SeqExt!ToSet
  <2> HIDE DEF n
  <2>2. QED
    BY <2>1 DEF n
<1>3. \A m \in 0 .. n - 1 : \E i \in 1 .. n : s[i] = low + m * gap
  <2> SUFFICES ASSUME NEW m \in 0 .. n - 1 PROVE \E i \in 1 .. n : s[i] = low + m * gap
    OBVIOUS
  <2>1. low + m * gap \in SeqExt!ToSet(s)
    OBVIOUS
  <2>2. QED
    BY <1>1, <2>1 DEF SeqExt!ToSet
<1>4. \A k \in 1 .. n : \E m \in 0 .. n - 1 : o[k] = low + m * gap
  <2> SUFFICES ASSUME NEW k \in 1 .. n PROVE \E m \in 0 .. n - 1 : o[k] = low + m * gap
    OBVIOUS
  <2>1. PICK i \in 1 .. n : o[k] = s[i]
    BY OrderedAt
  <2>2. QED
    BY <1>2, <2>1
<1>5. \A m \in 0 .. n - 1 : \E k \in 1 .. n : o[k] = low + m * gap
  <2> SUFFICES ASSUME NEW m \in 0 .. n - 1
               PROVE  \E k \in 1 .. n : o[k] = low + m * gap
    OBVIOUS
  <2>1. PICK i \in 1 .. n : s[i] = low + m * gap
    BY <1>3
  <2>2. PICK k \in 1 .. n : k = Place(s, i)
    BY PlaceAt
  <2>3. PICK j \in 1 .. n : Place(s, j) = k /\ o[k] = s[j]
    BY OrderedAt
  <2>4. j = i
    BY <2>2, <2>3, Places
  <2>5. QED
    BY <2>1, <2>3, <2>4
<1>6. \A k, l \in 1 .. n : k <= l => o[k] <= o[l]
  <2> SUFFICES ASSUME NEW k \in 1 .. n, NEW l \in 1 .. n, k <= l PROVE o[k] <= o[l]
    OBVIOUS
  <2>1. l \in k .. n
    BY <1>1
  <2>2. QED
    BY <2>1, OrderedCounts
<1> HIDE DEF n, o
<1>7. CASE gap = 0
  <2>1. \A m \in Int : low + m * gap = low
    BY <1>7
  <2> SUFFICES ASSUME NEW k \in 1 .. n PROVE o[k] = low + (k - 1) * gap
    BY DEF n, o
  <2>2. PICK m \in 0 .. n - 1 : o[k] = low + m * gap
    BY <1>4
  <2>3. m \in Int /\ k - 1 \in Int
    BY <1>1
  <2>4. QED
    BY <2>1, <2>2, <2>3
<1>8. CASE gap # 0
  <2> DEFINE f == [k \in 1 .. n |-> CHOOSE m \in 0 .. n - 1 : o[k] = low + m * gap]
  <2>1. \A k \in 1 .. n : f[k] \in 0 .. n - 1 /\ o[k] = low + f[k] * gap
    BY <1>4
  <2>2. f \in [1 .. n -> 0 .. n - 1]
    BY <2>1
  <2> HIDE DEF f
  <2>3. \A k, l \in 1 .. n : k <= l => f[k] <= f[l]
    <3> SUFFICES ASSUME NEW k \in 1 .. n, NEW l \in 1 .. n, k <= l PROVE f[k] <= f[l]
      OBVIOUS
    <3>1. PICK x \in Nat, y \in Nat : x = f[k] /\ y = f[l]
      BY <2>1
    <3>2. low + x * gap <= low + y * gap
      BY <1>6, <2>1, <3>1
    <3>3. QED
      BY <1>8, <3>1, <3>2, MultiplesOrder
  <2>4. \A m \in 0 .. n - 1 : \E k \in 1 .. n : f[k] = m
    <3> SUFFICES ASSUME NEW m \in 0 .. n - 1 PROVE \E k \in 1 .. n : f[k] = m
      OBVIOUS
    <3>1. PICK k \in 1 .. n : o[k] = low + m * gap
      BY <1>5
    <3>2. PICK x \in Nat : x = f[k] /\ o[k] = low + x * gap
      BY <2>1
    <3>3. m \in Nat
      OBVIOUS
    <3>4. low + x * gap \in Int /\ low + x * gap = low + m * gap
      BY <3>1, <3>2
    <3>5. low + x * gap <= low + m * gap /\ low + m * gap <= low + x * gap
      BY <3>4
    <3>6. x <= m /\ m <= x
      BY <1>8, <3>3, <3>5, MultiplesOrder
    <3>7. QED
      BY <3>2, <3>3, <3>6
  <2>5. \A k \in 1 .. n : f[k] = k - 1
    BY <1>1, <2>2, <2>3, <2>4, RisingOnto
  <2>6. QED
    BY <2>1, <2>5 DEF n, o
<1>9. QED
  BY <1>7, <1>8

\* Percentiles interpolate, for any latencies.
THEOREM PercentilesLinear == Spec => []PercentilesInterpolate
<1>1. SampleInv => PercentilesInterpolate
  <2> DEFINE n == Len(values)
             o == Ordered(values)
  <2> SUFFICES ASSUME SampleInv, NEW low \in SeqExt!ToSet(values),
                      NEW next \in SeqExt!ToSet(values), low <= next,
                      Uniform(low, next - low), NEW pct \in Percents
               PROVE  Percentile(values, pct) = 100 * low + (n - 1) * (next - low) * pct
    BY DEF PercentilesInterpolate
  <2>1. values \in Seq(Int) /\ n \in Nat
    BY DEF SampleInv
  <2>2. PICK gap \in Nat : gap = next - low /\ low \in Int
    BY <2>1 DEF SeqExt!ToSet
  <2>3. \A k \in 1 .. n : o[k] = low + (k - 1) * gap
    BY <2>1, <2>2, EvenlySpaced DEF Uniform
  <2>4. PICK x \in 1 .. n, y \in 1 .. n, weight \in 0 .. 99 :
          LiesBetween(values, pct, x, y, weight)
    <3>1. values # <<>>
      BY DEF SeqExt!ToSet
    <3>2. QED
      BY <2>1, <3>1, PercentileAt
  <2>5. /\ (n - 1) * pct = 100 * (x - 1) + weight
        /\ y = IF weight = 0 THEN x ELSE x + 1
        /\ Percentile(values, pct) = o[x] * (100 - weight) + o[y] * weight
    BY <2>4, Zenon DEF LiesBetween
  <2>6. x \in Int /\ n - 1 \in Int /\ pct \in Int
    BY <2>1 DEF Percents
  <2>7. o[x] = low + (x - 1) * gap /\ o[y] = low + (y - 1) * gap
    BY <2>3
  <2> HIDE DEF n, o
  <2>8. (n - 1) * gap * pct = (100 * (x - 1) + weight) * gap
    <3>1. \A a, b, c \in Int : a * b * c = (a * c) * b
      OBVIOUS
    <3>2. (n - 1) * gap * pct = ((n - 1) * pct) * gap
      BY <2>6, <3>1
    <3>3. QED
      BY <2>5, <3>2, Zenon
  <2>9. o[x] * (100 - weight) + o[y] * weight
          = 100 * low + (100 * (x - 1) + weight) * gap
    <3>1. CASE weight = 0
      BY <2>2, <2>5, <2>6, <2>7, <3>1
    <3>2. CASE weight # 0
      <4>1. y - 1 = x
        BY <2>5, <2>6, <3>2
      <4>2. o[y] = low + x * gap
        BY <2>7, <4>1
      <4>3. \A l, a, w, d \in Int :
              (l + (a - 1) * d) * (100 - w) + (l + a * d) * w
                = 100 * l + (100 * (a - 1) + w) * d
        OBVIOUS
      <4>4. (low + (x - 1) * gap) * (100 - weight) + (low + x * gap) * weight
              = 100 * low + (100 * (x - 1) + weight) * gap
        BY <2>2, <2>6, <4>3
      <4>5. QED
        BY <2>7, <4>2, <4>4, Zenon
    <3>3. QED
      BY <3>1, <3>2
  <2>10. (n - 1) * (next - low) * pct = (n - 1) * gap * pct
    BY <2>2
  <2>11. QED
    BY <2>5, <2>8, <2>9, <2>10, Zenon
<1>2. QED
  BY <1>1, SamplesInductive, PTL

-----------------------------------------------------------------------------
(* SystemMonitor *)

Fields == {"rx", "tx"}

RateOrNone == {None} \cup [amount : Int, elapsed : Int]

Sample == [at : Nat, cpu : RateOrNone, rx : RateOrNone, tx : RateOrNone]

Read == [cpu : Nat, nic : {None} \cup [Fields -> Int],
         traffic : [{"cpu", "rx", "tx"} -> Nat], era : Nat]

\* What a sum of rates adds up, of the samples ss.
Parts(ss, field, part) ==
  [i \in DOMAIN ss |-> IF ss[i][field] # None THEN ss[i][field][part] ELSE 0]

ReadingsOf(rr) == {i \in DOMAIN rr : rr[i].nic # None}

\* What the counters showed falls behind the traffic by what there was when
\* they last were zero.
Behind(read, field) == read.traffic[field] - read.nic[field]

HostInv ==
  /\ now \in Nat /\ era \in Nat
  /\ used \in [{"cpu", "rx", "tx"} -> Nat]
  /\ zero \in [Fields -> Nat]
  /\ \A field \in Fields : zero[field] <= used[field]

\* The time of a sample is after that of the one before it.
LoopInv ==
  LET since(t) == samples # <<>> => samples[Len(samples)].at <= t
  IN  /\ step \in {"loop", "cpu", "nic", "sampled", "done"}
      /\ lastSample \in Nat \cup {None}
      /\ step = "loop" => since(lastSample) /\ (samples # <<>> => lastSample # None)
      /\ step = "sampled" => since(now)
      /\ step \in {"cpu", "nic"} => sampledAt \in Nat /\ sampledAt <= now /\ since(sampledAt - 1)
      /\ step = "nic" => cpuRead \in Nat

RememberedInv ==
  /\ samples \in Seq(Sample) /\ reads \in Seq(Read) /\ Len(reads) = Len(samples)
  /\ samples = <<>> => lastCpu = None
  /\ samples # <<>> => /\ lastCpu = reads[Len(reads)].cpu
                       /\ lastWall = samples[Len(samples)].at

\* A reading of this era falls behind by what there was at its beginning, and
\* an earlier one by no more.
BehindInv ==
  \A i \in ReadingsOf(reads), field \in Fields :
    /\ Behind(reads[i], field) <= zero[field]
    /\ reads[i].era <= era
    /\ reads[i].era = era => Behind(reads[i], field) = zero[field]

\* A rate compares with the reading before it.
Compares(ss, rr) ==
  \A i \in DOMAIN ss, field \in Fields :
    ss[i][field] # None =>
      \E m \in ReadingsOf(rr) :
        LET traffic == rr[i].traffic[field] - rr[m].traffic[field]
        IN  /\ m < i /\ \A j \in ReadingsOf(rr) : j < i => j <= m
            /\ ss[i][field].amount <= traffic
            /\ rr[i].era = rr[m].era => ss[i][field].amount = traffic

\* The amounts telescope from the first reading to the last, which is the one
\* remembered.
Telescopes(ss, rr, nic) ==
  \/ /\ ReadingsOf(rr) = {} /\ nic = None
     /\ \A field \in Fields : Sum(Parts(ss, field, "amount")) = 0
  \/ \E first, last \in ReadingsOf(rr) :
       /\ \A j \in ReadingsOf(rr) : first <= j /\ j <= last
       /\ nic = rr[last].nic
       /\ \A field \in Fields :
            Sum(Parts(ss, field, "amount")) = rr[last].nic[field] - rr[first].nic[field]

Spans(ss, rr) ==
  ss # <<>> =>
    LET span == ss[Len(ss)].at - ss[1].at
    IN  /\ Sum(Parts(ss, "cpu", "amount")) = rr[Len(rr)].cpu - rr[1].cpu
        /\ Sum(Parts(ss, "cpu", "elapsed")) = span
        /\ \A field \in Fields :
             /\ Sum(Parts(ss, field, "elapsed")) <= span
             /\ ReadingsOf(rr) = DOMAIN ss => Sum(Parts(ss, field, "elapsed")) = span

\* The samples follow one another, and a rate is for the time since the last.
Timed(ss) ==
  \A i \in DOMAIN ss :
    /\ \A j \in DOMAIN ss : j < i => ss[j].at < ss[i].at
    /\ \A field \in Fields :
         ss[i][field] # None => i > 1 /\ ss[i][field].elapsed = ss[i].at - ss[i - 1].at

MonitorInv ==
  /\ HostInv /\ LoopInv /\ RememberedInv /\ BehindInv
  /\ Timed(samples) /\ Compares(samples, reads)
  /\ Telescopes(samples, reads, lastNic)
  /\ Spans(samples, reads)

\* None is none of the values it stands beside.
LEMMA NoneIsNoValue ==
  /\ None \notin Int /\ None \notin [amount : Int, elapsed : Int]
  /\ None \notin [Fields -> Int]
BY NoneAssumption, MonitorAssumption DEF Fields

LEMMA RateAt ==
  ASSUME NEW a \in Int, NEW e \in Int
  PROVE  /\ Rate(a, e) # None /\ Rate(a, e) \in RateOrNone
         /\ Rate(a, e).amount = a /\ Rate(a, e).elapsed = e
         /\ Rate(a, e)["amount"] = a /\ Rate(a, e)["elapsed"] = e
<1>1. Rate(a, e) \in [amount : Int, elapsed : Int]
  BY DEF Rate
<1>2. Rate(a, e) # None /\ Rate(a, e) \in RateOrNone
  BY <1>1, NoneIsNoValue DEF RateOrNone
<1>3. QED
  BY <1>2 DEF Rate

LEMMA RateParts ==
  ASSUME NEW r \in RateOrNone, r # None, NEW part \in {"amount", "elapsed"}
  PROVE  r[part] \in Int
<1>1. r \in [amount : Int, elapsed : Int]
  BY DEF RateOrNone
<1>2. QED
  BY <1>1

LEMMA FieldAt ==
  ASSUME NEW x \in Sample
  PROVE  /\ x.at \in Nat
         /\ \A field \in {"cpu", "rx", "tx"} : x[field] \in RateOrNone
<1>1. x.at \in Nat /\ x.cpu \in RateOrNone /\ x.rx \in RateOrNone /\ x.tx \in RateOrNone
  BY DEF Sample
<1>2. QED
  BY <1>1

\* What a sequence has after something was appended.
LEMMA AfterAppend ==
  ASSUME NEW S, NEW s \in Seq(S), NEW x \in S
  PROVE  /\ Len(s) \in Nat /\ DOMAIN s = 1 .. Len(s)
         /\ Append(s, x) \in Seq(S) /\ Len(Append(s, x)) = Len(s) + 1
         /\ DOMAIN Append(s, x) = 1 .. Len(s) + 1
         /\ Append(s, x)[Len(s) + 1] = x
         /\ \A i \in 1 .. Len(s) : s[i] \in S /\ Append(s, x)[i] = s[i]
OBVIOUS

PartOf(x, field, part) == IF x[field] # None THEN x[field][part] ELSE 0

LEMMA PartsAt ==
  ASSUME NEW ss \in Seq(Sample), NEW field \in {"cpu", "rx", "tx"},
         NEW part \in {"amount", "elapsed"}
  PROVE  /\ Parts(ss, field, part) \in [1 .. Len(ss) -> Int]
         /\ \A i \in 1 .. Len(ss) : Parts(ss, field, part)[i] = PartOf(ss[i], field, part)
         /\ Sum(Parts(ss, field, part)) \in Int
<1>1. DOMAIN ss = 1 .. Len(ss) /\ Len(ss) \in Nat /\ \A i \in 1 .. Len(ss) : ss[i] \in Sample
  OBVIOUS
<1>2. \A i \in 1 .. Len(ss) : PartOf(ss[i], field, part) \in Int
  BY <1>1, FieldAt, RateParts DEF PartOf
<1>3. Parts(ss, field, part) = [i \in 1 .. Len(ss) |-> PartOf(ss[i], field, part)]
  BY <1>1 DEF Parts, PartOf
<1>4. Parts(ss, field, part) \in [1 .. Len(ss) -> Int]
  BY <1>2, <1>3
<1>5. Parts(ss, field, part) \in Seq(Int)
  BY <1>1, <1>4, IntSequence
<1>6. QED
  BY <1>3, <1>4, <1>5, SumType

\* A sample adds its part.
LEMMA PartsAppend ==
  ASSUME NEW ss \in Seq(Sample), NEW x \in Sample,
         NEW field \in {"cpu", "rx", "tx"}, NEW part \in {"amount", "elapsed"}
  PROVE  /\ PartOf(x, field, part) \in Int
         /\ Sum(Parts(Append(ss, x), field, part))
              = Sum(Parts(ss, field, part)) + PartOf(x, field, part)
<1> DEFINE n == Len(ss)
           a == Append(ss, x)
           f == Parts(a, field, part)
           g == Parts(ss, field, part)
<1>1. /\ n \in Nat /\ a \in Seq(Sample) /\ Len(a) = n + 1 /\ a[n + 1] = x
      /\ \A i \in 1 .. n : a[i] = ss[i]
  BY AfterAppend
<1>2. /\ f \in [1 .. n + 1 -> Int]
      /\ \A i \in 1 .. n + 1 : f[i] = PartOf(a[i], field, part)
  <2>1. /\ f \in [1 .. Len(a) -> Int]
        /\ \A i \in 1 .. Len(a) : f[i] = PartOf(a[i], field, part)
    <3> HIDE DEF a
    <3>1. QED
      BY <1>1, PartsAt
  <2>2. QED
    <3> HIDE DEF a, n, f
    <3>1. QED
      BY <1>1, <2>1
<1>3. g \in [1 .. n -> Int] /\ \A i \in 1 .. n : g[i] = PartOf(ss[i], field, part)
  BY PartsAt
<1> HIDE DEF a, n, f, g
<1>4. \A i \in 1 .. n : g[i] = f[i]
  BY <1>1, <1>2, <1>3
<1>5. Sum(f) = Sum(g) + f[n + 1]
  BY <1>1, <1>2, <1>3, <1>4, SumLast
<1>6. f[n + 1] = PartOf(x, field, part) /\ f[n + 1] \in Int
  BY <1>1, <1>2
<1>7. QED
  BY <1>5, <1>6 DEF f, g, a

LEMMA PartsEmpty == \A field, part : Sum(Parts(<<>>, field, part)) = 0
<1>1. \A field, part : Parts(<<>>, field, part) = <<>>
  BY DEF Parts
<1>2. QED
  BY <1>1, SumAppend

\* The sums of the properties are those.
LEMMA TotalIsSum ==
  ASSUME samples \in Seq(Sample), NEW field, NEW part
  PROVE  Total(RatesOf(field), part) = Sum(Parts(samples, field, part))
<1> DEFINE rates == RatesOf(field)
<1>1. \A i \in DOMAIN samples :
        /\ i \in DOMAIN rates <=> samples[i][field] # None
        /\ samples[i][field] # None => rates[i] = samples[i][field]
  BY DEF RatesOf
<1> HIDE DEF rates
<1>2. [i \in DOMAIN samples |-> IF i \in DOMAIN rates THEN rates[i][part] ELSE 0]
        = Parts(samples, field, part)
  BY <1>1 DEF Parts
<1>3. QED
  BY <1>2 DEF Total, rates

LEMMA ReadingsAppend ==
  ASSUME NEW rr \in Seq(Read), NEW x \in Read
  PROVE  /\ ReadingsOf(rr) \subseteq 1 .. Len(rr)
         /\ x.nic = None => ReadingsOf(Append(rr, x)) = ReadingsOf(rr)
         /\ x.nic # None => ReadingsOf(Append(rr, x)) = ReadingsOf(rr) \cup {Len(rr) + 1}
<1>1. /\ Len(rr) \in Nat /\ DOMAIN rr = 1 .. Len(rr)
      /\ DOMAIN Append(rr, x) = 1 .. Len(rr) + 1
      /\ Append(rr, x)[Len(rr) + 1] = x
      /\ \A i \in 1 .. Len(rr) : Append(rr, x)[i] = rr[i]
  BY AfterAppend
<1>2. 1 .. Len(rr) + 1 = (1 .. Len(rr)) \cup {Len(rr) + 1}
  BY <1>1
<1> DEFINE n == Len(rr)
           a == Append(rr, x)
<1> HIDE DEF n, a
<1>3. ReadingsOf(rr) = {i \in 1 .. n : rr[i].nic # None}
  BY <1>1 DEF ReadingsOf, n
<1>4. ReadingsOf(a) = {i \in (1 .. n) \cup {n + 1} : a[i].nic # None}
  BY <1>1, <1>2 DEF ReadingsOf, n, a
<1>5. a[n + 1] = x /\ \A i \in 1 .. n : a[i] = rr[i]
  BY <1>1 DEF n, a
<1>6. /\ x.nic = None => ReadingsOf(a) = ReadingsOf(rr)
      /\ x.nic # None => ReadingsOf(a) = ReadingsOf(rr) \cup {n + 1}
  BY <1>3, <1>4, <1>5
<1>7. QED
  BY <1>3, <1>6 DEF n, a


\* What sample() appends.
TakenSample(nic) ==
  [at |-> sampledAt, cpu |-> CpuRate, rx |-> NicRate(nic, "rx"), tx |-> NicRate(nic, "tx")]

TakenRead(nic) == [cpu |-> cpuRead, nic |-> nic, traffic |-> used, era |-> era]

\* The last of the readings is remembered.
LEMMA RememberedReading ==
  ASSUME MonitorInv
  PROVE  \/ lastNic = None /\ ReadingsOf(reads) = {}
         \/ /\ lastNic # None /\ lastNic \in [Fields -> Int]
            /\ ReadingsOf(reads) # {}
<1>1. reads \in Seq(Read)
  BY DEF MonitorInv, RememberedInv
<1>2. ASSUME NEW m \in ReadingsOf(reads)
      PROVE  reads[m].nic # None /\ reads[m].nic \in [Fields -> Int]
  <2>1. m \in DOMAIN reads /\ reads[m].nic # None
    BY <1>2 DEF ReadingsOf
  <2>2. reads[m] \in Read
    BY <1>1, <2>1
  <2>3. QED
    BY <2>1, <2>2 DEF Read
<1>3. QED
  BY <1>2 DEF MonitorInv, Telescopes

LEMMA TakenReadAt ==
  ASSUME MonitorInv, step = "nic", NEW nic \in {None, Counters}
  PROVE  /\ TakenRead(nic) \in Read
         /\ TakenRead(nic).cpu = cpuRead /\ TakenRead(nic).nic = nic
         /\ TakenRead(nic).traffic = used /\ TakenRead(nic).era = era
         /\ nic # None => /\ nic \in [Fields -> Int]
                          /\ \A field \in Fields : nic[field] = used[field] - zero[field]
<1>1. /\ used \in [{"cpu", "rx", "tx"} -> Nat] /\ zero \in [Fields -> Nat]
      /\ era \in Nat /\ cpuRead \in Nat
  BY DEF MonitorInv, HostInv, LoopInv
<1>2. /\ Counters \in [Fields -> Int]
      /\ \A field \in Fields : Counters[field] = used[field] - zero[field]
  BY <1>1 DEF Counters, Fields
<1>3. nic \in {None} \cup [Fields -> Int]
  BY <1>2
<1>4. TakenRead(nic) \in Read
  BY <1>1, <1>3 DEF TakenRead, Read
<1>5. nic # None => nic = Counters
  OBVIOUS
<1>6. QED
  BY <1>2, <1>4, <1>5 DEF TakenRead

LEMMA TakenSampleAt ==
  ASSUME MonitorInv, step = "nic", NEW nic \in {None, Counters}
  PROVE  /\ TakenSample(nic) \in Sample
         /\ TakenSample(nic).at = sampledAt /\ sampledAt \in Nat
         /\ samples = <<>> => /\ TakenSample(nic)["cpu"] = None
                              /\ \A field \in Fields : TakenSample(nic)[field] = None
         /\ samples # <<>> =>
              LET elapsed == sampledAt - samples[Len(samples)].at
              IN  /\ samples[Len(samples)] \in Sample /\ elapsed > 0
                  /\ TakenSample(nic)["cpu"] = Rate(cpuRead - reads[Len(reads)].cpu, elapsed)
                  /\ reads[Len(reads)].cpu \in Nat
                  /\ \A field \in Fields :
                       TakenSample(nic)[field] =
                         IF nic = None \/ lastNic = None THEN None
                         ELSE Rate(nic[field] - lastNic[field], elapsed)
<1> DEFINE n == Len(samples)
           t == TakenSample(nic)
<1>1. /\ sampledAt \in Nat /\ cpuRead \in Nat
      /\ samples # <<>> => samples[n].at <= sampledAt - 1
  BY DEF MonitorInv, LoopInv
<1>2. /\ samples \in Seq(Sample) /\ reads \in Seq(Read) /\ Len(reads) = n
      /\ samples = <<>> => lastCpu = None
      /\ samples # <<>> => lastCpu = reads[Len(reads)].cpu /\ lastWall = samples[n].at
  BY DEF MonitorInv, RememberedInv
<1>3. /\ t.at = sampledAt /\ t["cpu"] = CpuRate
      /\ \A field \in Fields : t[field] = NicRate(nic, field)
  BY DEF TakenSample, Fields
<1>4. CASE samples = <<>>
  <2>1. CpuRate = None
    BY <1>2, <1>4 DEF CpuRate
  <2>2. \A field \in Fields : NicRate(nic, field) = None
    BY <1>4 DEF NicRate
  <2>3. t \in Sample
    BY <1>1, <2>1, <2>2 DEF TakenSample, Sample, RateOrNone, Fields
  <2>4. QED
    BY <1>1, <1>3, <1>4, <2>1, <2>2, <2>3
<1>5. CASE samples # <<>>
  <2> DEFINE elapsed == sampledAt - samples[n].at
  <2>1. n \in 1 .. n /\ Len(reads) \in 1 .. Len(reads)
    BY <1>2, <1>5, EmptySeq
  <2>2. samples[n] \in Sample /\ samples[n].at \in Nat
    BY <1>2, <2>1, FieldAt
  <2>3. reads[Len(reads)] \in Read
    BY <1>2, <2>1
  <2>4. lastCpu = reads[Len(reads)].cpu /\ lastCpu \in Nat /\ lastCpu # None
    BY <1>2, <1>5, <2>3, NoneAssumption DEF Read
  <2>5. elapsed \in Int /\ elapsed > 0 /\ ~ (sampledAt <= samples[n].at)
    BY <1>1, <1>5, <2>2
  <2>6. CpuRate = Rate(cpuRead - reads[Len(reads)].cpu, elapsed)
    BY <1>2, <1>5, <2>4, <2>5 DEF CpuRate
  <2>7. SeqExt!Last(samples) = samples[n]
    BY DEF SeqExt!Last
  <2>8. \A field \in Fields :
          NicRate(nic, field) =
            IF nic = None \/ lastNic = None THEN None
            ELSE Rate(nic[field] - lastNic[field], elapsed)
    BY <1>5, <2>5, <2>7 DEF NicRate
  <2>9. CpuRate \in RateOrNone
    BY <1>1, <2>4, <2>5, <2>6, RateAt
  <2>10. \A field \in Fields : NicRate(nic, field) \in RateOrNone
    <3> SUFFICES ASSUME NEW field \in Fields, nic # None, lastNic # None
                 PROVE  Rate(nic[field] - lastNic[field], elapsed) \in RateOrNone
      <4>1. None \in RateOrNone
        BY DEF RateOrNone
      <4>2. QED
        BY <2>8, <4>1
    <3>1. nic \in [Fields -> Int] /\ lastNic \in [Fields -> Int]
      BY TakenReadAt, RememberedReading
    <3>2. nic[field] - lastNic[field] \in Int
      BY <3>1
    <3> HIDE DEF elapsed
    <3>3. QED
      BY <2>5, <3>2, RateAt
  <2>11. t \in Sample
    BY <1>1, <2>9, <2>10 DEF TakenSample, Sample, Fields
  <2> HIDE DEF elapsed, t
  <2>12. QED
    BY <1>1, <1>3, <1>5, <2>2, <2>3, <2>4, <2>5, <2>6, <2>8, <2>11 DEF elapsed, t
<1>6. QED
  BY <1>4, <1>5


LEMMA ReadingAt ==
  ASSUME MonitorInv, NEW m \in ReadingsOf(reads)
  PROVE  /\ m \in 1 .. Len(reads) /\ m \in Nat
         /\ reads[m] \in Read /\ reads[m].nic # None /\ reads[m].nic \in [Fields -> Int]
         /\ reads[m].traffic \in [{"cpu", "rx", "tx"} -> Nat] /\ reads[m].era \in Nat
<1>1. reads \in Seq(Read)
  BY DEF MonitorInv, RememberedInv
<1>2. m \in 1 .. Len(reads) /\ reads[m].nic # None
  BY <1>1 DEF ReadingsOf
<1>3. reads[m] \in Read
  BY <1>1, <1>2
<1>4. QED
  BY <1>2, <1>3 DEF Read

\* The new rate compares with the reading that is remembered.
LEMMA ComparesTaken ==
  ASSUME MonitorInv, step = "nic", NEW nic \in {None, Counters}
  PROVE  Compares(Append(samples, TakenSample(nic)), Append(reads, TakenRead(nic)))
<1> DEFINE n == Len(samples)
           t == TakenSample(nic)
           r == TakenRead(nic)
           ss == Append(samples, t)
           rr == Append(reads, r)
<1>1. /\ samples \in Seq(Sample) /\ reads \in Seq(Read) /\ Len(reads) = n /\ n \in Nat
      /\ Compares(samples, reads) /\ Telescopes(samples, reads, lastNic)
  BY DEF MonitorInv, RememberedInv
<1>2. t \in Sample /\ r \in Read
  BY TakenSampleAt, TakenReadAt
<1>3. /\ DOMAIN ss = 1 .. n + 1 /\ ss[n + 1] = t
      /\ \A i \in 1 .. n : ss[i] = samples[i]
      /\ DOMAIN samples = 1 .. n
  <2> HIDE DEF t
  <2>1. QED
    BY <1>1, <1>2, AfterAppend
<1>4. rr[n + 1] = r /\ \A i \in 1 .. n : rr[i] = reads[i]
  <2> HIDE DEF r
  <2>1. QED
    BY <1>1, <1>2, AfterAppend
<1>5. /\ ReadingsOf(reads) \subseteq 1 .. n
      /\ ReadingsOf(reads) \subseteq ReadingsOf(rr)
      /\ ReadingsOf(rr) \subseteq ReadingsOf(reads) \cup {n + 1}
  <2> HIDE DEF r
  <2>1. /\ ReadingsOf(reads) \subseteq 1 .. Len(reads)
        /\ r.nic = None => ReadingsOf(rr) = ReadingsOf(reads)
        /\ r.nic # None => ReadingsOf(rr) = ReadingsOf(reads) \cup {Len(reads) + 1}
    BY <1>1, <1>2, ReadingsAppend
  <2> HIDE DEF rr, n
  <2>2. QED
    BY <1>1, <2>1
<1> HIDE DEF ss, rr, t, r
<1> SUFFICES ASSUME NEW i \in 1 .. n + 1, NEW field \in Fields, ss[i][field] # None
             PROVE  \E m \in ReadingsOf(rr) :
                      LET traffic == rr[i].traffic[field] - rr[m].traffic[field]
                      IN  /\ m < i /\ \A j \in ReadingsOf(rr) : j < i => j <= m
                          /\ ss[i][field].amount <= traffic
                          /\ rr[i].era = rr[m].era => ss[i][field].amount = traffic
  BY <1>3 DEF Compares, ss, rr, t, r
<1>6. CASE i \in 1 .. n
  <2>1. ss[i] = samples[i] /\ rr[i] = reads[i]
    BY <1>3, <1>4, <1>6
  <2>2. PICK m \in ReadingsOf(reads) :
          LET traffic == reads[i].traffic[field] - reads[m].traffic[field]
          IN  /\ m < i /\ \A j \in ReadingsOf(reads) : j < i => j <= m
              /\ samples[i][field].amount <= traffic
              /\ reads[i].era = reads[m].era => samples[i][field].amount = traffic
    BY <1>1, <1>3, <1>6, <2>1 DEF Compares
  <2>3. rr[m] = reads[m] /\ m \in ReadingsOf(rr)
    BY <1>4, <1>5
  <2>4. \A j \in ReadingsOf(rr) : j < i => j <= m
    <3> SUFFICES ASSUME NEW j \in ReadingsOf(rr), j < i PROVE j <= m
      OBVIOUS
    <3>1. j # n + 1
      BY <1>1, <1>6
    <3>2. j \in ReadingsOf(reads)
      BY <1>5, <3>1
    <3>3. QED
      BY <2>2, <3>2
  <2>5. QED
    BY <2>1, <2>2, <2>3, <2>4
<1>7. CASE i = n + 1
  <2>1. t[field] # None /\ ss[i] = t /\ rr[i] = r
    BY <1>3, <1>4, <1>7
  <2>2. samples # <<>>
    BY <2>1, TakenSampleAt DEF t
  <2>3. PICK elapsed \in Int : t[field] = IF nic = None \/ lastNic = None THEN None
                                          ELSE Rate(nic[field] - lastNic[field], elapsed)
    <3>1. sampledAt - samples[Len(samples)].at \in Int
      BY <2>2, TakenSampleAt, FieldAt
    <3>2. QED
      BY <2>2, <3>1, TakenSampleAt DEF t
  <2>4. nic # None /\ lastNic # None /\ t[field] = Rate(nic[field] - lastNic[field], elapsed)
    BY <2>1, <2>3
  <2>5. PICK m \in ReadingsOf(reads) :
          lastNic = reads[m].nic /\ \A j \in ReadingsOf(reads) : j <= m
    BY <1>1, <2>4 DEF Telescopes
  <2>6. /\ nic[field] = used[field] - zero[field]
        /\ r.traffic = used /\ r.era = era /\ nic \in [Fields -> Int]
    BY <2>4, TakenReadAt DEF r
  <2>7. PICK u \in Int, z \in Int, a \in Int, b \in Int :
          /\ u = used[field] /\ z = zero[field]
          /\ a = reads[m].nic[field] /\ b = reads[m].traffic[field]
    <3>1. used[field] \in Int /\ zero[field] \in Int
      BY DEF MonitorInv, HostInv, Fields
    <3>2. reads[m].nic[field] \in Int /\ reads[m].traffic[field] \in Int
      BY ReadingAt DEF Fields
    <3>3. QED
      BY <3>1, <3>2
  <2>8. b - a <= z /\ (reads[m].era = era => b - a = z)
    BY <2>5, <2>7 DEF MonitorInv, BehindInv, Behind
  <2>9. t[field].amount = (u - z) - a
    <3>1. nic[field] - lastNic[field] = (u - z) - a
      BY <2>5, <2>6, <2>7
    <3>2. t[field] = Rate((u - z) - a, elapsed)
      BY <2>4, <3>1
    <3>3. (u - z) - a \in Int
      OBVIOUS
    <3>4. QED
      BY <3>2, <3>3, RateAt
  <2>10. rr[m] = reads[m] /\ m \in ReadingsOf(rr) /\ m < i
    BY <1>1, <1>4, <1>5, <1>7
  <2>11. \A j \in ReadingsOf(rr) : j < i => j <= m
    <3> SUFFICES ASSUME NEW j \in ReadingsOf(rr), j < i PROVE j <= m
      OBVIOUS
    <3>1. j # n + 1
      BY <1>1, <1>7
    <3>2. j \in ReadingsOf(reads)
      BY <1>5, <3>1
    <3>3. QED
      BY <2>5, <3>2
  <2>12. rr[i].traffic[field] - rr[m].traffic[field] = u - b
    BY <2>1, <2>6, <2>7, <2>10
  <2>13. /\ t[field].amount <= u - b
         /\ rr[i].era = rr[m].era => t[field].amount = u - b
    <3>1. (u - z) - a <= u - b
      BY <2>8
    <3>2. reads[m].era = era => (u - z) - a = u - b
      BY <2>8
    <3>3. QED
      BY <2>1, <2>6, <2>9, <2>10, <3>1, <3>2
  <2>14. QED
    BY <2>1, <2>10, <2>11, <2>12, <2>13
<1>8. QED
  BY <1>1, <1>6, <1>7


\* The new sample is the latest, and its rates are for the time since the last.
LEMMA TimedTaken ==
  ASSUME MonitorInv, step = "nic", NEW nic \in {None, Counters}
  PROVE  Timed(Append(samples, TakenSample(nic)))
<1> DEFINE n == Len(samples)
           t == TakenSample(nic)
           ss == Append(samples, t)
<1>1. samples \in Seq(Sample) /\ n \in Nat /\ Timed(samples)
  BY DEF MonitorInv, RememberedInv
<1>2. t \in Sample /\ t.at = sampledAt /\ sampledAt \in Nat
  BY TakenSampleAt
<1>3. /\ DOMAIN ss = 1 .. n + 1 /\ ss[n + 1] = t
      /\ \A i \in 1 .. n : ss[i] = samples[i] /\ samples[i] \in Sample
      /\ DOMAIN samples = 1 .. n
  <2> HIDE DEF t
  <2>1. QED
    BY <1>1, <1>2, AfterAppend
<1>4. n # 0 => samples # <<>> /\ samples[n].at < sampledAt /\ samples[n].at \in Nat
  <2> SUFFICES ASSUME n # 0
               PROVE  samples # <<>> /\ samples[n].at < sampledAt /\ samples[n].at \in Nat
    OBVIOUS
  <2>1. samples # <<>> /\ n \in 1 .. n
    BY <1>1
  <2>2. samples[n].at \in Nat
    BY <1>3, <2>1, FieldAt
  <2>3. samples[n].at <= sampledAt - 1
    BY <2>1 DEF MonitorInv, LoopInv
  <2>4. QED
    BY <1>2, <2>1, <2>2, <2>3
<1>5. \A j \in 1 .. n : samples[j].at < sampledAt
  <2> SUFFICES ASSUME NEW j \in 1 .. n PROVE samples[j].at < sampledAt
    OBVIOUS
  <2>1. n # 0 /\ n \in 1 .. n /\ samples[j].at \in Nat
    BY <1>1, <1>3, FieldAt
  <2>2. j < n => samples[j].at < samples[n].at
    BY <1>1, <1>3, <2>1 DEF Timed
  <2>3. j = n \/ j < n
    BY <1>1
  <2>4. QED
    BY <1>2, <1>4, <2>1, <2>2, <2>3
<1>6. ASSUME NEW field \in Fields, t[field] # None
      PROVE  n # 0 /\ t[field].elapsed = sampledAt - samples[n].at
  <2>1. samples # <<>>
    BY <1>6, TakenSampleAt
  <2>2. n # 0
    BY <1>1, <2>1, EmptySeq
  <2> DEFINE elapsed == sampledAt - samples[n].at
  <2>3. t[field] = IF nic = None \/ lastNic = None THEN None
                   ELSE Rate(nic[field] - lastNic[field], elapsed)
    BY <2>1, TakenSampleAt
  <2>4. elapsed \in Int
    BY <1>2, <1>4, <2>2
  <2>5. nic # None /\ lastNic # None
    BY <1>6, <2>3
  <2>6. nic \in [Fields -> Int] /\ lastNic \in [Fields -> Int]
    BY <2>5, TakenReadAt, RememberedReading
  <2>7. nic[field] - lastNic[field] \in Int
    BY <2>6
  <2> HIDE DEF elapsed
  <2>8. t[field].elapsed = elapsed
    BY <2>3, <2>4, <2>5, <2>7, RateAt
  <2>9. QED
    BY <2>2, <2>8 DEF elapsed
<1> HIDE DEF ss, t
<1> SUFFICES ASSUME NEW i \in 1 .. n + 1
             PROVE  /\ \A j \in 1 .. n + 1 : j < i => ss[j].at < ss[i].at
                    /\ \A field \in Fields :
                         ss[i][field] # None =>
                           i > 1 /\ ss[i][field].elapsed = ss[i].at - ss[i - 1].at
  BY <1>3 DEF Timed, ss, t
<1>7. CASE i \in 1 .. n
  <2>1. \A j \in 1 .. n + 1 : j < i => j \in 1 .. n
    BY <1>1, <1>7
  <2>2. i > 1 => i - 1 \in 1 .. n
    BY <1>1, <1>7
  <2>3. /\ \A j \in 1 .. n : j < i => samples[j].at < samples[i].at
        /\ \A field \in Fields :
             samples[i][field] # None =>
               i > 1 /\ samples[i][field].elapsed = samples[i].at - samples[i - 1].at
    BY <1>1, <1>3, <1>7 DEF Timed
  <2>4. QED
    BY <1>3, <1>7, <2>1, <2>2, <2>3
<1>8. CASE i = n + 1
  <2>1. \A j \in 1 .. n + 1 : j < i => j \in 1 .. n
    BY <1>1, <1>8
  <2>2. ss[i] = t /\ \A j \in 1 .. n : ss[j] = samples[j]
    BY <1>3, <1>8
  <2>3. n # 0 => i > 1 /\ i - 1 = n /\ n \in 1 .. n
    BY <1>1, <1>8
  <2>4. QED
    BY <1>2, <1>5, <1>6, <2>1, <2>2, <2>3
<1>9. QED
  BY <1>1, <1>7, <1>8

\* What the invariant says of the sequences after a sample, in terms of those
\* before it.
LEMMA TakenAt ==
  ASSUME MonitorInv, step = "nic", NEW nic \in {None, Counters},
         NEW t, t = TakenSample(nic), NEW r, r = TakenRead(nic)
  PROVE  /\ samples \in Seq(Sample) /\ reads \in Seq(Read) /\ Len(reads) = Len(samples)
         /\ Len(samples) \in Nat /\ t \in Sample /\ r \in Read
         /\ DOMAIN samples = 1 .. Len(samples)
         /\ Append(samples, t) \in Seq(Sample) /\ Append(reads, r) \in Seq(Read)
         /\ Len(Append(samples, t)) = Len(samples) + 1
         /\ Len(Append(reads, r)) = Len(samples) + 1
         /\ DOMAIN Append(samples, t) = 1 .. Len(samples) + 1
         /\ Append(samples, t)[Len(samples) + 1] = t
         /\ Append(reads, r)[Len(samples) + 1] = r
         /\ \A i \in 1 .. Len(samples) :
              Append(samples, t)[i] = samples[i] /\ Append(reads, r)[i] = reads[i]
         /\ ReadingsOf(reads) \subseteq 1 .. Len(samples)
         /\ nic = None => ReadingsOf(Append(reads, r)) = ReadingsOf(reads)
         /\ nic # None =>
              ReadingsOf(Append(reads, r)) = ReadingsOf(reads) \cup {Len(samples) + 1}
<1>1. samples \in Seq(Sample) /\ reads \in Seq(Read) /\ Len(reads) = Len(samples)
  BY DEF MonitorInv, RememberedInv
<1>2. t \in Sample /\ r \in Read /\ r.nic = nic
  BY TakenSampleAt, TakenReadAt
<1>3. /\ Len(samples) \in Nat /\ DOMAIN samples = 1 .. Len(samples)
      /\ Append(samples, t) \in Seq(Sample)
      /\ Len(Append(samples, t)) = Len(samples) + 1
      /\ DOMAIN Append(samples, t) = 1 .. Len(samples) + 1
      /\ Append(samples, t)[Len(samples) + 1] = t
      /\ \A i \in 1 .. Len(samples) : Append(samples, t)[i] = samples[i]
  BY <1>1, <1>2, AfterAppend
<1>4. /\ Append(reads, r) \in Seq(Read) /\ Len(Append(reads, r)) = Len(reads) + 1
      /\ Append(reads, r)[Len(reads) + 1] = r
      /\ \A i \in 1 .. Len(reads) : Append(reads, r)[i] = reads[i]
  BY <1>1, <1>2, AfterAppend
<1>5. /\ ReadingsOf(reads) \subseteq 1 .. Len(reads)
      /\ nic = None => ReadingsOf(Append(reads, r)) = ReadingsOf(reads)
      /\ nic # None => ReadingsOf(Append(reads, r)) = ReadingsOf(reads) \cup {Len(reads) + 1}
  BY <1>1, <1>2, ReadingsAppend
<1>6. QED
  BY <1>1, <1>2, <1>3, <1>4, <1>5

\* The new rate continues the telescope.
LEMMA TelescopesTaken ==
  ASSUME MonitorInv, step = "nic", NEW nic \in {None, Counters}
  PROVE  Telescopes(Append(samples, TakenSample(nic)), Append(reads, TakenRead(nic)),
                    Remembered(nic))
<1>1. PICK t, r : t = TakenSample(nic) /\ r = TakenRead(nic)
  OBVIOUS
<1> DEFINE n == Len(samples)
           ss == Append(samples, t)
           rr == Append(reads, r)
<1>2. Telescopes(samples, reads, lastNic)
  BY DEF MonitorInv
<1>3. /\ samples \in Seq(Sample) /\ n \in Nat /\ t \in Sample
      /\ rr[n + 1] = r /\ \A i \in 1 .. n : rr[i] = reads[i]
      /\ ReadingsOf(reads) \subseteq 1 .. n
      /\ nic = None => ReadingsOf(rr) = ReadingsOf(reads)
      /\ nic # None => ReadingsOf(rr) = ReadingsOf(reads) \cup {n + 1}
  BY <1>1, TakenAt
<1>4. \A field \in Fields :
        /\ PartOf(t, field, "amount") \in Int
        /\ Sum(Parts(ss, field, "amount"))
             = Sum(Parts(samples, field, "amount")) + PartOf(t, field, "amount")
        /\ Sum(Parts(samples, field, "amount")) \in Int
  <2> SUFFICES ASSUME NEW field \in {"cpu", "rx", "tx"}, NEW part \in {"amount"}
               PROVE  /\ PartOf(t, field, part) \in Int
                      /\ Sum(Parts(ss, field, part))
                           = Sum(Parts(samples, field, part)) + PartOf(t, field, part)
                      /\ Sum(Parts(samples, field, part)) \in Int
    BY DEF Fields
  <2>1. Sum(Parts(samples, field, part)) \in Int
    BY <1>3, PartsAt
  <2>2. QED
    BY <1>3, <2>1, PartsAppend
<1>5. r.nic = nic /\ (nic # None => nic \in [Fields -> Int])
  BY <1>1, TakenReadAt
<1> HIDE DEF ss, rr, n
<1>6. SUFFICES Telescopes(ss, rr, Remembered(nic))
  BY <1>1 DEF ss, rr
<1>7. \/ lastNic = None /\ ReadingsOf(reads) = {}
      \/ lastNic # None /\ lastNic \in [Fields -> Int] /\ ReadingsOf(reads) # {}
  BY RememberedReading
<1>8. nic = None \/ lastNic = None => \A field \in Fields : PartOf(t, field, "amount") = 0
  <2> SUFFICES ASSUME nic = None \/ lastNic = None, NEW field \in Fields
               PROVE  t[field] = None
    BY DEF PartOf
  <2>1. CASE samples = <<>>
    BY <1>1, <2>1, TakenSampleAt
  <2>2. CASE samples # <<>>
    BY <1>1, <2>2, TakenSampleAt
  <2>3. QED
    BY <2>1, <2>2
<1>9. \A field \in Fields :
        nic = None \/ lastNic = None =>
          Sum(Parts(ss, field, "amount")) = Sum(Parts(samples, field, "amount"))
  BY <1>4, <1>8
<1>10. CASE nic = None
  <2>1. ReadingsOf(rr) = ReadingsOf(reads) /\ Remembered(nic) = lastNic
    BY <1>3, <1>10 DEF Remembered
  <2>2. \A i \in ReadingsOf(reads) : rr[i] = reads[i]
    BY <1>3
  <2>3. QED
    BY <1>2, <1>9, <1>10, <2>1, <2>2 DEF Telescopes
<1>11. CASE nic # None /\ lastNic = None
  <2>1. ReadingsOf(rr) = {n + 1} /\ Remembered(nic) = nic /\ rr[n + 1].nic = nic
    BY <1>3, <1>5, <1>7, <1>11 DEF Remembered
  <2>2. \A field \in Fields : Sum(Parts(ss, field, "amount")) = 0
    <3>1. \A field \in Fields : Sum(Parts(samples, field, "amount")) = 0
      BY <1>2, <1>7, <1>11 DEF Telescopes
    <3>2. QED
      BY <1>9, <1>11, <3>1
  <2>3. \A field \in Fields : nic[field] - nic[field] = 0
    BY <1>5, <1>11
  <2>4. n + 1 \in ReadingsOf(rr) /\ \A j \in ReadingsOf(rr) : n + 1 <= j /\ j <= n + 1
    BY <1>3, <2>1
  <2>5. QED
    BY <2>1, <2>2, <2>3, <2>4 DEF Telescopes
<1>12. CASE nic # None /\ lastNic # None
  <2>1. PICK first \in ReadingsOf(reads), last \in ReadingsOf(reads) :
          /\ \A j \in ReadingsOf(reads) : first <= j /\ j <= last
          /\ lastNic = reads[last].nic
          /\ \A field \in Fields :
               Sum(Parts(samples, field, "amount"))
                 = reads[last].nic[field] - reads[first].nic[field]
    BY <1>2, <1>12 DEF Telescopes
  <2>2. /\ ReadingsOf(rr) = ReadingsOf(reads) \cup {n + 1} /\ Remembered(nic) = nic
        /\ rr[n + 1].nic = nic /\ rr[first] = reads[first]
        /\ first \in ReadingsOf(rr) /\ n + 1 \in ReadingsOf(rr)
    BY <1>3, <1>5, <1>12 DEF Remembered
  <2>3. \A j \in ReadingsOf(rr) : first <= j /\ j <= n + 1
    BY <1>3, <2>1, <2>2
  <2>4. ASSUME NEW field \in Fields
        PROVE  Sum(Parts(ss, field, "amount"))
                 = rr[n + 1].nic[field] - rr[first].nic[field]
    <3>1. PICK a \in Int, b \in Int, c \in Int :
            a = nic[field] /\ b = lastNic[field] /\ c = reads[first].nic[field]
      <4>1. nic[field] \in Int /\ lastNic[field] \in Int
        BY <1>5, <1>7, <1>12
      <4>2. reads[first].nic[field] \in Int
        BY ReadingAt
      <4>3. QED
        BY <4>1, <4>2
    <3>2. samples # <<>>
      <4>1. first \in 1 .. n
        BY <1>3
      <4>2. n # 0
        BY <1>3, <4>1
      <4>3. QED
        BY <4>2 DEF n
    <3>3. PartOf(t, field, "amount") = a - b
      <4>1. sampledAt - samples[Len(samples)].at \in Int
        BY <3>2, TakenSampleAt, FieldAt
      <4>2. t[field] = Rate(nic[field] - lastNic[field], sampledAt - samples[Len(samples)].at)
        BY <1>1, <1>12, <3>2, TakenSampleAt
      <4>3. t[field] = Rate(a - b, sampledAt - samples[Len(samples)].at) /\ a - b \in Int
        BY <3>1, <4>2
      <4>4. QED
        BY <4>1, <4>3, RateAt DEF PartOf
    <3>4. Sum(Parts(samples, field, "amount")) = b - c
      BY <2>1, <3>1
    <3>5. Sum(Parts(ss, field, "amount")) = (b - c) + (a - b)
      BY <1>4, <3>3, <3>4
    <3>6. QED
      BY <2>2, <3>1, <3>5
  <2>5. QED
    BY <2>2, <2>3, <2>4 DEF Telescopes
<1>13. QED
  BY <1>10, <1>11, <1>12

\* The new rates continue the spans.
LEMMA SpansTaken ==
  ASSUME MonitorInv, step = "nic", NEW nic \in {None, Counters}
  PROVE  Spans(Append(samples, TakenSample(nic)), Append(reads, TakenRead(nic)))
<1>1. PICK t, r : t = TakenSample(nic) /\ r = TakenRead(nic)
  OBVIOUS
<1> DEFINE n == Len(samples)
           ss == Append(samples, t)
           rr == Append(reads, r)
<1>2. Spans(samples, reads)
  BY DEF MonitorInv
<1>3. /\ samples \in Seq(Sample) /\ n \in Nat /\ t \in Sample /\ r \in Read
      /\ ss[n + 1] = t /\ rr[n + 1] = r
      /\ Len(ss) = n + 1 /\ Len(rr) = n + 1 /\ DOMAIN ss = 1 .. n + 1
      /\ DOMAIN samples = 1 .. n /\ Len(reads) = n
      /\ \A i \in 1 .. n : ss[i] = samples[i] /\ rr[i] = reads[i]
      /\ ReadingsOf(reads) \subseteq 1 .. n
      /\ nic = None => ReadingsOf(rr) = ReadingsOf(reads)
      /\ nic # None => ReadingsOf(rr) = ReadingsOf(reads) \cup {n + 1}
      /\ reads \in Seq(Read)
  BY <1>1, TakenAt
<1>4. \A field \in {"cpu", "rx", "tx"}, part \in {"amount", "elapsed"} :
        /\ PartOf(t, field, part) \in Int
        /\ Sum(Parts(ss, field, part))
             = Sum(Parts(samples, field, part)) + PartOf(t, field, part)
        /\ Sum(Parts(samples, field, part)) \in Int
  <2> SUFFICES ASSUME NEW field \in {"cpu", "rx", "tx"}, NEW part \in {"amount", "elapsed"}
               PROVE  /\ PartOf(t, field, part) \in Int
                      /\ Sum(Parts(ss, field, part))
                           = Sum(Parts(samples, field, part)) + PartOf(t, field, part)
                      /\ Sum(Parts(samples, field, part)) \in Int
    OBVIOUS
  <2>1. Sum(Parts(samples, field, part)) \in Int
    BY <1>3, PartsAt
  <2>2. QED
    BY <1>3, <2>1, PartsAppend
<1>5. r.cpu = cpuRead /\ t.at = sampledAt /\ cpuRead \in Int /\ sampledAt \in Int
  <2>1. r.cpu = cpuRead /\ t.at = sampledAt
    BY <1>1, TakenReadAt, TakenSampleAt
  <2>2. QED
    BY <2>1 DEF MonitorInv, LoopInv
<1>6. CASE samples = <<>>
  <2>1. n = 0
    BY <1>6
  <2>2. \A field \in {"cpu", "rx", "tx"}, part \in {"amount", "elapsed"} :
          PartOf(t, field, part) = 0
    BY <1>1, <1>6, TakenSampleAt DEF PartOf, Fields
  <2>3. \A field \in {"cpu", "rx", "tx"}, part \in {"amount", "elapsed"} :
          Sum(Parts(ss, field, part)) = 0
    <3>1. \A field, part : Sum(Parts(samples, field, part)) = 0
      BY <1>6, PartsEmpty
    <3> HIDE DEF ss
    <3>2. QED
      BY <1>4, <2>2, <3>1
  <2> HIDE DEF ss, rr, n
  <2>4. ss[Len(ss)].at - ss[1].at = 0 /\ rr[Len(rr)].cpu - rr[1].cpu = 0
    BY <1>3, <1>5, <2>1
  <2>5. Spans(ss, rr)
    BY <2>3, <2>4 DEF Spans, Fields
  <2>6. QED
    BY <1>1, <2>5 DEF ss, rr
<1>7. CASE samples # <<>>
  <2>1. n \in 1 .. n /\ 1 \in 1 .. n
    BY <1>3, <1>7, EmptySeq
  <2>2. PICK a \in Int, b \in Int, c \in Int, d \in Int :
          /\ a = samples[n].at /\ b = samples[1].at /\ c = reads[n].cpu /\ d = reads[1].cpu
    <3>1. samples[n].at \in Int /\ samples[1].at \in Int
      BY <1>3, <2>1, FieldAt
    <3>2. reads[n] \in Read /\ reads[1] \in Read
      BY <1>3, <2>1
    <3>3. reads[n].cpu \in Int /\ reads[1].cpu \in Int
      BY <3>2 DEF Read
    <3>4. QED
      BY <3>1, <3>3
  <2>3. PICK e \in Int : e = sampledAt - a /\ e > 0
    BY <1>5, <1>7, <2>2, TakenSampleAt
  <2>4. /\ t["cpu"] = Rate(cpuRead - c, e)
        /\ \A field \in Fields :
             t[field] = IF nic = None \/ lastNic = None THEN None
                        ELSE Rate(nic[field] - lastNic[field], e)
    BY <1>1, <1>3, <1>7, <2>2, <2>3, TakenSampleAt
  <2>5. PartOf(t, "cpu", "amount") = cpuRead - c /\ PartOf(t, "cpu", "elapsed") = e
    <3>1. cpuRead - c \in Int
      BY <1>5
    <3>2. QED
      BY <2>4, <3>1, RateAt DEF PartOf
  <2>6. \A field \in Fields :
          PartOf(t, field, "elapsed") = IF nic = None \/ lastNic = None THEN 0 ELSE e
    <3> SUFFICES ASSUME NEW field \in Fields
                 PROVE  PartOf(t, field, "elapsed")
                          = IF nic = None \/ lastNic = None THEN 0 ELSE e
      OBVIOUS
    <3>1. CASE nic = None \/ lastNic = None
      BY <2>4, <3>1 DEF PartOf
    <3>2. CASE ~ (nic = None \/ lastNic = None)
      <4>1. nic \in [Fields -> Int] /\ lastNic \in [Fields -> Int]
        BY <3>2, TakenReadAt, RememberedReading
      <4>2. nic[field] - lastNic[field] \in Int
        BY <4>1
      <4>3. t[field] = Rate(nic[field] - lastNic[field], e)
        BY <2>4, <3>2
      <4>4. QED
        BY <3>2, <4>2, <4>3, RateAt DEF PartOf
    <3>3. QED
      BY <3>1, <3>2
  <2>7. /\ Sum(Parts(samples, "cpu", "amount")) = c - d
        /\ Sum(Parts(samples, "cpu", "elapsed")) = a - b
        /\ \A field \in Fields :
             /\ Sum(Parts(samples, field, "elapsed")) <= a - b
             /\ ReadingsOf(reads) = DOMAIN samples =>
                  Sum(Parts(samples, field, "elapsed")) = a - b
    BY <1>2, <1>3, <1>7, <2>2 DEF Spans
  <2> HIDE DEF ss, rr, n
  <2>8. /\ ss[Len(ss)].at - ss[1].at = sampledAt - b
        /\ rr[Len(rr)].cpu - rr[1].cpu = cpuRead - d
    BY <1>3, <1>5, <2>1, <2>2
  <2>9. Sum(Parts(ss, "cpu", "amount")) = cpuRead - d
    <3>1. Sum(Parts(ss, "cpu", "amount")) = (c - d) + (cpuRead - c)
      BY <1>4, <2>5, <2>7
    <3>2. QED
      BY <1>5, <3>1
  <2>10. Sum(Parts(ss, "cpu", "elapsed")) = sampledAt - b
    <3>1. Sum(Parts(ss, "cpu", "elapsed")) = (a - b) + e
      BY <1>4, <2>5, <2>7
    <3>2. QED
      BY <1>5, <2>3, <3>1
  <2>11. ASSUME NEW field \in Fields
         PROVE  /\ Sum(Parts(ss, field, "elapsed")) <= sampledAt - b
                /\ ReadingsOf(rr) = DOMAIN ss =>
                     Sum(Parts(ss, field, "elapsed")) = sampledAt - b
    <3>1. PICK x \in Int, y \in Int :
            /\ x = Sum(Parts(samples, field, "elapsed")) /\ y = PartOf(t, field, "elapsed")
            /\ Sum(Parts(ss, field, "elapsed")) = x + y
      BY <1>4 DEF Fields
    <3>2. x <= a - b /\ (y = 0 \/ y = e)
      BY <2>6, <2>7, <3>1
    <3>3. x + y <= sampledAt - b
      BY <1>5, <2>3, <3>2
    <3>4. ASSUME ReadingsOf(rr) = DOMAIN ss PROVE x + y = sampledAt - b
      <4>1. n + 1 \in ReadingsOf(rr) /\ n \in ReadingsOf(rr) /\ 1 .. n \subseteq ReadingsOf(rr)
        BY <1>3, <2>1, <3>4
      <4>2. n + 1 \notin ReadingsOf(reads) /\ n # n + 1
        BY <1>3
      <4>3. nic # None
        BY <1>3, <4>1, <4>2
      <4>4. 1 .. n \subseteq ReadingsOf(reads)
        <5>1. \A i \in 1 .. n : i # n + 1
          BY <1>3
        <5>2. QED
          BY <1>3, <4>1, <4>3, <5>1
      <4>5. ReadingsOf(reads) = DOMAIN samples /\ ReadingsOf(reads) # {}
        BY <1>3, <2>1, <4>4
      <4>6. lastNic # None
        BY <4>5, RememberedReading
      <4>7. y = e /\ x = a - b
        BY <2>6, <2>7, <3>1, <4>3, <4>5, <4>6
      <4>8. QED
        BY <1>5, <2>3, <4>7
    <3>5. QED
      BY <3>1, <3>3, <3>4
  <2>12. Spans(ss, rr)
    BY <2>8, <2>9, <2>10, <2>11 DEF Spans
  <2>13. QED
    BY <1>1, <2>12 DEF ss, rr
<1>8. QED
  BY <1>6, <1>7


\* What a step keeps that appends no sample.
KeptInv ==
  /\ RememberedInv /\ Timed(samples) /\ Compares(samples, reads)
  /\ Telescopes(samples, reads, lastNic) /\ Spans(samples, reads)

LEMMA NoSample ==
  ASSUME MonitorInv, UNCHANGED objectVars
  PROVE  KeptInv'
<1>1. KeptInv
  BY DEF MonitorInv, KeptInv
<1>2. /\ samples' = samples /\ reads' = reads /\ lastNic' = lastNic
      /\ lastCpu' = lastCpu /\ lastWall' = lastWall
  BY DEF objectVars
<1>3. RememberedInv'
  BY <1>1, <1>2 DEF KeptInv, RememberedInv
<1>4. Timed(samples') /\ Compares(samples', reads') /\ Spans(samples', reads')
  BY <1>1, <1>2, Zenon DEF KeptInv
<1>5. Telescopes(samples', reads', lastNic')
  BY <1>1, <1>2, Zenon DEF KeptInv
<1>6. QED
  BY <1>3, <1>4, <1>5 DEF KeptInv

\* What a step keeps that leaves the host alone.
LEMMA NoHost ==
  ASSUME MonitorInv, UNCHANGED hostVars
  PROVE  HostInv' /\ (reads' = reads => BehindInv')
<1>1. HostInv /\ BehindInv /\ now' = now /\ used' = used /\ zero' = zero /\ era' = era
  BY DEF MonitorInv, hostVars
<1>2. QED
  BY <1>1 DEF HostInv, BehindInv

LEMMA MonitorParts ==
  MonitorInv' <=> HostInv' /\ LoopInv' /\ BehindInv' /\ KeptInv'
BY DEF MonitorInv, KeptInv

LEMMA MonitorStarts == MonitorInit => MonitorInv
<1> SUFFICES ASSUME MonitorInit PROVE MonitorInv
  OBVIOUS
<1>1. HostInv
  BY DEF MonitorInit, HostInv, Fields
<1>2. LoopInv
  BY DEF MonitorInit, LoopInv
<1>3. samples = <<>> /\ reads = <<>> /\ lastNic = None /\ lastCpu = None
  BY DEF MonitorInit
<1>4. RememberedInv
  BY <1>3 DEF RememberedInv
<1>5. ReadingsOf(reads) = {}
  BY <1>3 DEF ReadingsOf
<1>6. BehindInv
  BY <1>5 DEF BehindInv
<1>7. Compares(samples, reads) /\ Timed(samples)
  BY <1>3 DEF Compares, Timed
<1>8. Telescopes(samples, reads, lastNic)
  BY <1>3, <1>5, PartsEmpty DEF Telescopes
<1>9. Spans(samples, reads)
  BY <1>3 DEF Spans
<1>10. QED
  BY <1>1, <1>2, <1>4, <1>6, <1>7, <1>8, <1>9 DEF MonitorInv

\* A sample keeps the invariant.
LEMMA ReadNicKeeps ==
  ASSUME MonitorInv, ReadNic
  PROVE  MonitorInv'
<1>1. step = "nic" /\ step' = "sampled" /\ lastCpu' = cpuRead /\ lastWall' = sampledAt
  BY DEF ReadNic
<1>2. PICK nic \in {None, Counters} :
        /\ samples' = Append(samples, TakenSample(nic))
        /\ reads' = Append(reads, TakenRead(nic))
        /\ lastNic' = Remembered(nic)
  BY DEF ReadNic, TakenSample, TakenRead
<1>3. UNCHANGED hostVars /\ lastSample' = lastSample
  BY DEF ReadNic
<1>4. PICK t, r : t = TakenSample(nic) /\ r = TakenRead(nic)
  OBVIOUS
<1> DEFINE n == Len(samples)
<1>5. /\ n \in Nat /\ Len(reads) = n
      /\ samples' \in Seq(Sample) /\ reads' \in Seq(Read)
      /\ Len(samples') = n + 1 /\ Len(reads') = n + 1
      /\ samples'[n + 1] = t /\ reads'[n + 1] = r
      /\ \A i \in 1 .. n : reads'[i] = reads[i]
      /\ ReadingsOf(reads) \subseteq 1 .. n
      /\ nic = None => ReadingsOf(reads') = ReadingsOf(reads)
      /\ nic # None => ReadingsOf(reads') = ReadingsOf(reads) \cup {n + 1}
  BY <1>1, <1>2, <1>4, TakenAt
<1> HIDE DEF n
<1>6. t.at = sampledAt /\ r.cpu = cpuRead
  BY <1>1, <1>4, TakenSampleAt, TakenReadAt
<1>7. HostInv'
  BY <1>3, NoHost
<1>8. samples' # <<>>
  <2>1. n + 1 # 0
    BY <1>5
  <2>2. QED
    BY <1>5, <2>1
<1>9. LoopInv'
  <2>1. now' = now /\ sampledAt <= now /\ lastSample \in Nat \cup {None}
    BY <1>1, <1>3 DEF hostVars, MonitorInv, LoopInv
  <2>2. samples'[Len(samples')].at <= now'
    BY <1>5, <1>6, <2>1
  <2>3. QED
    BY <1>1, <1>3, <2>1, <2>2 DEF LoopInv
<1>10. RememberedInv'
  BY <1>1, <1>5, <1>6, <1>8 DEF RememberedInv
<1>11. BehindInv'
  <2> SUFFICES ASSUME NEW i \in ReadingsOf(reads'), NEW field \in Fields
               PROVE  /\ Behind(reads'[i], field) <= zero[field]
                      /\ reads'[i].era <= era
                      /\ reads'[i].era = era => Behind(reads'[i], field) = zero[field]
    <3>1. zero' = zero /\ era' = era
      BY <1>3 DEF hostVars
    <3>2. QED
      BY <3>1 DEF BehindInv, Behind
  <2>1. CASE i \in ReadingsOf(reads)
    <3>1. reads'[i] = reads[i]
      BY <1>5, <2>1
    <3>2. QED
      BY <2>1, <3>1 DEF MonitorInv, BehindInv
  <2>2. CASE i = n + 1 /\ nic # None
    <3>1. /\ r.nic = nic /\ r.traffic = used /\ r.era = era
          /\ nic[field] = used[field] - zero[field]
      BY <1>1, <1>4, <2>2, TakenReadAt
    <3>2. era \in Nat /\ used[field] \in Nat /\ zero[field] \in Nat
      BY DEF MonitorInv, HostInv, Fields
    <3>3. Behind(r, field) = zero[field]
      BY <3>1, <3>2 DEF Behind
    <3>4. QED
      BY <1>5, <2>2, <3>1, <3>2, <3>3
  <2>3. QED
    BY <1>5, <2>1, <2>2
<1>12. Compares(samples', reads') /\ Timed(samples')
  BY <1>1, <1>2, ComparesTaken, TimedTaken
<1>13. Telescopes(samples', reads', lastNic')
  BY <1>1, <1>2, TelescopesTaken
<1>14. Spans(samples', reads')
  BY <1>1, <1>2, SpansTaken
<1>15. KeptInv'
  BY <1>10, <1>12, <1>13, <1>14 DEF KeptInv
<1>16. QED
  BY <1>7, <1>9, <1>11, <1>15, MonitorParts

\* The invariant of SystemMonitor: what is remembered is what was read last,
\* and the sums over the samples continue with it.
THEOREM MonitorInductive == MonitorSpec => []MonitorInv
<1>1. MonitorInit => MonitorInv
  BY MonitorStarts
<1>2. MonitorInv /\ [MonitorNext]_monitorVars => MonitorInv'
  <2> SUFFICES ASSUME MonitorInv, [MonitorNext]_monitorVars PROVE MonitorInv'
    OBVIOUS
  <2>1. CASE BeginSample
    <3>1. /\ UNCHANGED hostVars /\ UNCHANGED objectVars /\ reads' = reads
          /\ step = "loop" /\ step' = "cpu" /\ sampledAt' = now /\ now' = now
          /\ samples' = samples /\ lastSample' = lastSample /\ Due
      BY <2>1 DEF BeginSample, hostVars, objectVars
    <3>2. /\ lastSample \in Nat \cup {None} /\ now \in Nat
          /\ samples # <<>> => lastSample # None /\ samples[Len(samples)].at <= lastSample
      BY <3>1 DEF MonitorInv, LoopInv, HostInv
    <3>3. samples # <<>> => samples[Len(samples)].at <= now - 1
      <4> SUFFICES ASSUME samples # <<>> PROVE samples[Len(samples)].at <= now - 1
        OBVIOUS
      <4>1. lastSample \in Nat /\ now - lastSample >= Interval /\ Interval >= 1
        BY <3>1, <3>2, MonitorAssumption DEF Due
      <4>2. samples[Len(samples)].at \in Nat
        <5>1. samples \in Seq(Sample) /\ Len(samples) \in 1 .. Len(samples)
          BY EmptySeq DEF MonitorInv, RememberedInv
        <5>2. samples[Len(samples)] \in Sample
          BY <5>1
        <5>3. QED
          BY <5>2, FieldAt
      <4>3. Interval \in Nat
        BY MonitorAssumption
      <4>4. QED
        BY <3>2, <4>1, <4>2, <4>3
    <3>4. LoopInv'
      BY <3>1, <3>2, <3>3 DEF LoopInv
    <3>5. QED
      BY <3>1, <3>4, NoSample, NoHost, MonitorParts
  <2>2. CASE EndSample
    <3>1. /\ UNCHANGED hostVars /\ UNCHANGED objectVars /\ reads' = reads
          /\ step = "sampled" /\ step' = "loop" /\ lastSample' = now
          /\ samples' = samples
      BY <2>2 DEF EndSample, hostVars, objectVars
    <3>2. now \in Nat /\ (samples # <<>> => samples[Len(samples)].at <= now)
      BY <3>1 DEF MonitorInv, LoopInv, HostInv
    <3>3. now # None
      BY <3>2, NoneAssumption
    <3>4. LoopInv'
      BY <3>1, <3>2, <3>3 DEF LoopInv
    <3>5. QED
      BY <3>1, <3>4, NoSample, NoHost, MonitorParts
  <2>3. CASE ReadCpu
    <3>1. /\ UNCHANGED hostVars /\ UNCHANGED objectVars /\ reads' = reads
          /\ step = "cpu" /\ step' = "nic" /\ cpuRead' = used["cpu"]
          /\ samples' = samples /\ lastSample' = lastSample /\ sampledAt' = sampledAt
          /\ now' = now
      BY <2>3 DEF ReadCpu, hostVars, objectVars
    <3>2. used["cpu"] \in Nat
      BY DEF MonitorInv, HostInv
    <3>3. LoopInv'
      BY <3>1, <3>2 DEF MonitorInv, LoopInv
    <3>4. QED
      BY <3>1, <3>3, NoSample, NoHost, MonitorParts
  <2>4. CASE ReadNic
    BY <2>4, ReadNicKeeps
  <2>5. CASE Finish
    <3>1. /\ UNCHANGED hostVars /\ UNCHANGED objectVars /\ reads' = reads
          /\ step' = "done" /\ lastSample' = lastSample
      BY <2>5 DEF Finish, objectVars
    <3>2. LoopInv'
      BY <3>1 DEF MonitorInv, LoopInv
    <3>3. QED
      BY <3>1, <3>2, NoSample, NoHost, MonitorParts
  <2>6. CASE Tick
    <3>1. PICK load \in Loads : used' = [f \in DOMAIN used |-> used[f] + load[f]]
      BY <2>6 DEF Tick
    <3>2. /\ now' = now + 1 /\ zero' = zero /\ era' = era /\ step' = step
          /\ lastSample' = lastSample /\ sampledAt' = sampledAt /\ cpuRead' = cpuRead
          /\ UNCHANGED objectVars /\ samples' = samples /\ reads' = reads
      BY <2>6 DEF Tick, objectVars, sampleVars
    <3>3. /\ load["cpu"] \in Nat /\ load["rx"] \in Nat /\ load["tx"] \in Nat
      <4>1. load \in [cpu : Nat, rx : Nat, tx : Nat]
        BY MonitorAssumption
      <4>2. QED
        BY <4>1
    <3>4. HostInv'
      <4>1. HostInv
        BY DEF MonitorInv
      <4>2. used' \in [{"cpu", "rx", "tx"} -> Nat]
        BY <3>1, <3>3, <4>1 DEF HostInv
      <4>3. \A f \in Fields : used'[f] = used[f] + load[f] /\ load[f] \in Nat
        BY <3>1, <3>3, <4>1 DEF HostInv, Fields
      <4>4. \A f \in Fields : zero'[f] <= used'[f]
        BY <3>2, <4>1, <4>3 DEF HostInv, Fields
      <4>5. QED
        BY <3>2, <4>1, <4>2, <4>4 DEF HostInv
    <3>5. LoopInv'
      <4>1. now \in Nat /\ LoopInv
        BY DEF MonitorInv, HostInv
      <4>2. samples # <<>> => samples[Len(samples)].at \in Nat
        <5>1. samples \in Seq(Sample) /\ (samples # <<>> => Len(samples) \in 1 .. Len(samples))
          BY EmptySeq DEF MonitorInv, RememberedInv
        <5>2. samples # <<>> => samples[Len(samples)] \in Sample
          BY <5>1
        <5>3. QED
          BY <5>2, FieldAt
      <4>3. QED
        BY <3>2, <4>1, <4>2 DEF LoopInv
    <3>6. BehindInv'
      BY <3>2 DEF MonitorInv, BehindInv
    <3>7. QED
      BY <3>2, <3>4, <3>5, <3>6, NoSample, MonitorParts
  <2>7. CASE Restart
    <3>1. /\ era' = era + 1 /\ zero' = [f \in DOMAIN zero |-> used[f]]
          /\ now' = now /\ used' = used /\ step' = step
          /\ lastSample' = lastSample /\ sampledAt' = sampledAt /\ cpuRead' = cpuRead
          /\ UNCHANGED objectVars /\ samples' = samples /\ reads' = reads
      BY <2>7 DEF Restart, objectVars, sampleVars
    <3>2. HostInv
      BY DEF MonitorInv
    <3>3. zero' \in [Fields -> Nat] /\ \A f \in Fields : zero'[f] = used[f]
      BY <3>1, <3>2 DEF HostInv, Fields
    <3>4. HostInv'
      BY <3>1, <3>2, <3>3 DEF HostInv, Fields
    <3>5. LoopInv'
      BY <3>1 DEF MonitorInv, LoopInv
    <3>6. BehindInv'
      <4> SUFFICES ASSUME NEW i \in ReadingsOf(reads), NEW f \in Fields
                   PROVE  /\ Behind(reads[i], f) <= zero'[f]
                          /\ reads[i].era <= era'
                          /\ reads[i].era # era'
        BY <3>1 DEF BehindInv
      <4>1. Behind(reads[i], f) <= zero[f] /\ reads[i].era <= era
        BY DEF MonitorInv, BehindInv
      <4>2. reads[i].era \in Nat /\ Behind(reads[i], f) \in Int
        BY ReadingAt DEF Behind, Fields
      <4>3. zero[f] <= used[f] /\ zero[f] \in Nat /\ used[f] \in Nat /\ era \in Nat
        BY <3>2 DEF HostInv, Fields
      <4>4. Behind(reads[i], f) <= used[f]
        BY <4>1, <4>2, <4>3
      <4>5. QED
        BY <3>1, <3>3, <4>1, <4>2, <4>3, <4>4
    <3>7. QED
      BY <3>1, <3>4, <3>5, <3>6, NoSample, MonitorParts
  <2>8. CASE UNCHANGED monitorVars
    <3>1. /\ UNCHANGED hostVars /\ UNCHANGED objectVars /\ reads' = reads
          /\ step' = step /\ lastSample' = lastSample /\ sampledAt' = sampledAt
          /\ cpuRead' = cpuRead /\ samples' = samples /\ now' = now
      BY <2>8 DEF monitorVars, hostVars, objectVars, sampleVars
    <3>2. LoopInv'
      BY <3>1 DEF MonitorInv, LoopInv
    <3>3. QED
      BY <3>1, <3>2, NoSample, NoHost, MonitorParts
  <2>9. QED
    BY <2>1, <2>2, <2>3, <2>4, <2>5, <2>6, <2>7, <2>8 DEF MonitorNext
<1>3. QED
  BY <1>1, <1>2, PTL DEF MonitorSpec


LEMMA Extremes ==
  ASSUME NEW S, S \subseteq Nat, NEW m \in S
  PROVE  /\ (\A j \in S : j <= m) => SeqExt!Max(S) = m
         /\ (\A j \in S : m <= j) => SeqExt!Min(S) = m
<1>1. ASSUME \A j \in S : j <= m PROVE SeqExt!Max(S) = m
  <2>1. \A x \in S : (\A j \in S : x >= j) => x = m
    BY <1>1
  <2>2. \A j \in S : m >= j
    BY <1>1
  <2>3. QED
    BY <2>1, <2>2 DEF SeqExt!Max
<1>2. ASSUME \A j \in S : m <= j PROVE SeqExt!Min(S) = m
  <2>1. \A x \in S : (\A j \in S : x <= j) => x = m
    BY <1>2
  <2>2. QED
    BY <1>2, <2>1 DEF SeqExt!Min
<1>3. QED
  BY <1>1, <1>2

LEMMA ReadingsAre ==
  ASSUME MonitorInv
  PROVE  Readings = ReadingsOf(reads) /\ Readings \subseteq Nat
<1>1. Readings = ReadingsOf(reads)
  BY DEF Readings, ReadingsOf
<1>2. QED
  BY <1>1, ReadingAt

\* What LastReadBefore chooses is the latest of the earlier readings.
LEMMA LatestBefore ==
  ASSUME MonitorInv, NEW i, NEW m \in ReadingsOf(reads), m < i,
         \A j \in ReadingsOf(reads) : j < i => j <= m
  PROVE  LastReadBefore(i) = m
<1> DEFINE earlier == {j \in Readings : j < i}
<1>1. earlier \subseteq Nat /\ m \in earlier /\ \A j \in earlier : j <= m
  BY ReadingsAre
<1>2. LastReadBefore(i) = SeqExt!Max(earlier)
  BY DEF LastReadBefore
<1> HIDE DEF earlier
<1>3. QED
  BY <1>1, <1>2, Extremes

\* No rate overstates the traffic, for any load, whatever readings fail and
\* however often the interface is created anew.
THEOREM RatesNotOverstated == MonitorSpec => []TrafficNotOverstated
<1>1. MonitorInv => TrafficNotOverstated
  <2> SUFFICES ASSUME MonitorInv, NEW i \in DOMAIN samples, NEW field \in {"rx", "tx"},
                      samples[i][field] # None
               PROVE  LET before == reads[LastReadBefore(i)]
                          traffic == reads[i].traffic[field] - before.traffic[field]
                      IN  /\ samples[i][field].amount <= traffic
                          /\ reads[i].era = before.era => samples[i][field].amount = traffic
    BY DEF TrafficNotOverstated
  <2>1. PICK m \in ReadingsOf(reads) :
          LET traffic == reads[i].traffic[field] - reads[m].traffic[field]
          IN  /\ m < i /\ \A j \in ReadingsOf(reads) : j < i => j <= m
              /\ samples[i][field].amount <= traffic
              /\ reads[i].era = reads[m].era => samples[i][field].amount = traffic
    BY DEF MonitorInv, Compares, Fields
  <2>2. LastReadBefore(i) = m
    BY <2>1, LatestBefore
  <2>3. QED
    BY <2>1, <2>2
<1>2. QED
  BY <1>1, MonitorInductive, PTL

\* Everything between the first reading and the last is counted once.
THEOREM CountedOnce == MonitorSpec => []EverythingCountedOnce
<1>1. MonitorInv => EverythingCountedOnce
  <2> SUFFICES ASSUME MonitorInv PROVE EverythingCountedOnce
    OBVIOUS
  <2>1. samples \in Seq(Sample) /\ reads \in Seq(Read) /\ Len(reads) = Len(samples)
    BY DEF MonitorInv, RememberedInv
  <2>2. ASSUME samples # <<>>
        PROVE  /\ Total(RatesOf("cpu"), "amount") = SeqExt!Last(reads).cpu - reads[1].cpu
               /\ Total(RatesOf("cpu"), "elapsed") = SeqExt!Last(samples).at - samples[1].at
    <3>1. /\ Total(RatesOf("cpu"), "amount") = Sum(Parts(samples, "cpu", "amount"))
          /\ Total(RatesOf("cpu"), "elapsed") = Sum(Parts(samples, "cpu", "elapsed"))
      BY <2>1, TotalIsSum
    <3>2. /\ SeqExt!Last(reads) = reads[Len(reads)]
          /\ SeqExt!Last(samples) = samples[Len(samples)]
      BY DEF SeqExt!Last
    <3>3. QED
      BY <2>2, <3>1, <3>2 DEF MonitorInv, Spans
  <2>3. ASSUME NEW field \in {"rx", "tx"}, Readings # {}
        PROVE  Total(RatesOf(field), "amount") =
                 reads[SeqExt!Max(Readings)].nic[field] - reads[SeqExt!Min(Readings)].nic[field]
    <3>1. Readings = ReadingsOf(reads) /\ Readings \subseteq Nat
      BY ReadingsAre
    <3>2. PICK first \in Readings, last \in Readings :
            /\ \A j \in Readings : first <= j /\ j <= last
            /\ Sum(Parts(samples, field, "amount"))
                 = reads[last].nic[field] - reads[first].nic[field]
      BY <2>3, <3>1 DEF MonitorInv, Telescopes, Fields
    <3>3. SeqExt!Max(Readings) = last /\ SeqExt!Min(Readings) = first
      BY <3>1, <3>2, Extremes
    <3>4. Total(RatesOf(field), "amount") = Sum(Parts(samples, field, "amount"))
      BY <2>1, TotalIsSum
    <3>5. QED
      BY <3>2, <3>3, <3>4
  <2>4. QED
    BY <2>2, <2>3 DEF EverythingCountedOnce
<1>2. QED
  BY <1>1, MonitorInductive, PTL

\* A rate is for no more than the time since the reading before it, and for all
\* of it exactly if that was in the sample before.
LEMMA RateTime ==
  ASSUME MonitorInv, NEW i \in DOMAIN samples, NEW field \in Fields,
         samples[i][field] # None
  PROVE  LET between == samples[i].at - samples[LastReadBefore(i)].at
         IN  /\ samples[i][field].elapsed \in 1 .. between
             /\ samples[i][field].elapsed = between <=> LastReadBefore(i) = i - 1
<1>1. /\ samples \in Seq(Sample) /\ DOMAIN samples = 1 .. Len(samples)
      /\ Len(samples) \in Nat /\ Len(reads) = Len(samples)
  BY DEF MonitorInv, RememberedInv
<1>2. PICK m \in ReadingsOf(reads) : m < i /\ \A j \in ReadingsOf(reads) : j < i => j <= m
  BY DEF MonitorInv, Compares
<1>3. LastReadBefore(i) = m
  BY <1>2, LatestBefore
<1>4. m \in 1 .. Len(samples) /\ i - 1 \in 1 .. Len(samples) /\ i \in Nat /\ m <= i - 1
  BY <1>1, <1>2, ReadingAt
<1>5. PICK a \in Nat, b \in Nat, c \in Nat :
        a = samples[m].at /\ b = samples[i - 1].at /\ c = samples[i].at
  BY <1>1, <1>4, FieldAt
<1>6. /\ samples[i][field].elapsed = c - b /\ b < c
      /\ m < i - 1 => a < b
      /\ m = i - 1 => a = b
  <2>1. Timed(samples)
    BY DEF MonitorInv
  <2>2. samples[i][field].elapsed = c - b
    BY <1>5, <2>1 DEF Timed
  <2>3. samples[i - 1].at < samples[i].at
    <3>1. i - 1 < i
      BY <1>4
    <3>2. QED
      BY <1>1, <1>4, <2>1, <3>1 DEF Timed
  <2>4. m < i - 1 => samples[m].at < samples[i - 1].at
    BY <1>1, <1>4, <2>1 DEF Timed
  <2>5. QED
    BY <1>5, <2>2, <2>3, <2>4
<1>7. a <= b /\ (a = b <=> m = i - 1)
  BY <1>4, <1>5, <1>6
<1>8. c - b \in 1 .. c - a /\ (c - b = c - a <=> m = i - 1)
  BY <1>5, <1>6, <1>7
<1>9. QED
  BY <1>3, <1>5, <1>6, <1>8

\* RateTimesFit: the times of the rates do not overlap and fill the run but for
\* what failed readings leave out, for a run of any length.
THEOREM RatesSpanTheRun == MonitorSpec => []RateTimesFit
<1>1. MonitorInv => RateTimesFit
  <2> SUFFICES ASSUME MonitorInv, NEW field \in {"rx", "tx"}
               PROVE  /\ \A i \in DOMAIN samples :
                           samples[i][field] # None =>
                             LET between == samples[i].at - samples[LastReadBefore(i)].at
                             IN  /\ samples[i][field].elapsed \in 1 .. between
                                 /\ samples[i][field].elapsed = between
                                      <=> LastReadBefore(i) = i - 1
                      /\ samples # <<>> =>
                           LET span == SeqExt!Last(samples).at - samples[1].at
                               time == Total(RatesOf(field), "elapsed")
                           IN  time <= span /\ (Readings = DOMAIN samples => time = span)
    BY DEF RateTimesFit
  <2>1. samples \in Seq(Sample) /\ Readings = ReadingsOf(reads) /\ field \in Fields
    BY ReadingsAre DEF MonitorInv, RememberedInv, Fields
  <2>2. Total(RatesOf(field), "elapsed") = Sum(Parts(samples, field, "elapsed"))
    BY <2>1, TotalIsSum
  <2>3. SeqExt!Last(samples) = samples[Len(samples)]
    BY DEF SeqExt!Last
  <2>4. samples # <<>> =>
          LET span == SeqExt!Last(samples).at - samples[1].at
              time == Total(RatesOf(field), "elapsed")
          IN  time <= span /\ (Readings = DOMAIN samples => time = span)
    BY <2>1, <2>2, <2>3 DEF MonitorInv, Spans
  <2>5. QED
    BY <2>1, <2>4, RateTime
<1>2. QED
  BY <1>1, MonitorInductive, PTL
=============================================================================
