--------------------------- MODULE EdgeScan_proofs ---------------------------
(***************************************************************************)
(* Proofs about the scan, for any events and markets, any forecasts, any   *)
(* threshold and order sizes: a tick's picks are the best of what its rows *)
(* offer, on their own day's weather, with an edge that survives the fees, *)
(* and the prices of a ladder add up to one but for mixing the regimes.    *)
(***************************************************************************)
EXTENDS EdgeScan, Sums_proofs, SequenceTheorems, WellFoundedInduction

-----------------------------------------------------------------------------
\* The greatest and the least of a finite set.
LEMMA FiniteMax ==
  ASSUME NEW S, S \subseteq Int, IsFiniteSet(S), S # {}
  PROVE  Max(S) \in S /\ \A y \in S : y <= Max(S)
<1> DEFINE above == [x \in S |-> {y \in S : y > x}]
           T == {above[x] : x \in S}
           R == StrictSubsetOrdering(S)
<1>1. T \subseteq FiniteSubsetsOf(S)
  BY FS_Subset DEF FiniteSubsetsOf
<1>2. T # {}
  OBVIOUS
<1>3. IsWellFoundedOn(R, FiniteSubsetsOf(S))
  BY FS_StrictSubsetOrderingWellFounded
<1> HIDE DEF R, T
<1>4. \E A \in T : \A B \in T : ~(<<B, A>> \in R)
  BY <1>1, <1>2, <1>3, WFMin
<1>5. PICK x \in S : \A y \in S : ~(<<above[y], above[x]>> \in R)
  BY <1>4 DEF T
<1>6. \A y \in S : y <= x
  <2> SUFFICES ASSUME NEW y \in S, y > x PROVE FALSE
    OBVIOUS
  <2>1. above[y] \subseteq above[x] /\ y \in above[x] /\ y \notin above[y]
    <3>1. y \in above[x] /\ y \notin above[y]
      OBVIOUS
    <3>2. ASSUME NEW z \in S, z > y PROVE z > x
      BY <3>2
    <3>3. QED
      BY <3>1, <3>2
  <2>2. above[y] \in SUBSET S /\ above[x] \in SUBSET S /\ above[y] # above[x]
    BY <2>1
  <2> HIDE DEF above
  <2>3. <<above[y], above[x]>> \in R
    BY <2>1, <2>2 DEF R, StrictSubsetOrdering
  <2>4. QED
    BY <1>5, <2>3
<1>7. \E z \in S : \A y \in S : z >= y
  BY <1>6
<1>8. QED
  BY <1>7 DEF Max

LEMMA FiniteMin ==
  ASSUME NEW S, S \subseteq Int, IsFiniteSet(S), S # {}
  PROVE  Min(S) \in S /\ \A y \in S : Min(S) <= y
<1> DEFINE below == [x \in S |-> {y \in S : y < x}]
           T == {below[x] : x \in S}
           R == StrictSubsetOrdering(S)
<1>1. T \subseteq FiniteSubsetsOf(S)
  BY FS_Subset DEF FiniteSubsetsOf
<1>2. T # {}
  OBVIOUS
<1>3. IsWellFoundedOn(R, FiniteSubsetsOf(S))
  BY FS_StrictSubsetOrderingWellFounded
<1> HIDE DEF R, T
<1>4. \E A \in T : \A B \in T : ~(<<B, A>> \in R)
  BY <1>1, <1>2, <1>3, WFMin
<1>5. PICK x \in S : \A y \in S : ~(<<below[y], below[x]>> \in R)
  BY <1>4 DEF T
<1>6. \A y \in S : x <= y
  <2> SUFFICES ASSUME NEW y \in S, y < x PROVE FALSE
    OBVIOUS
  <2>1. below[y] \subseteq below[x] /\ y \in below[x] /\ y \notin below[y]
    <3>1. y \in below[x] /\ y \notin below[y]
      OBVIOUS
    <3>2. ASSUME NEW z \in S, z < y PROVE z < x
      BY <3>2
    <3>3. QED
      BY <3>1, <3>2
  <2>2. below[y] \in SUBSET S /\ below[x] \in SUBSET S /\ below[y] # below[x]
    BY <2>1
  <2> HIDE DEF below
  <2>3. <<below[y], below[x]>> \in R
    BY <2>1, <2>2 DEF R, StrictSubsetOrdering
  <2>4. QED
    BY <1>5, <2>3
<1>7. \E z \in S : \A y \in S : z =< y
  BY <1>6
<1>8. QED
  BY <1>7 DEF Min

\* A set of numbers up to N has a least one, whose predecessor is not in it.
LEMMA LeastNumber ==
  ASSUME NEW N \in Nat, NEW Bad \in SUBSET (0..N), Bad # {}
  PROVE  \E m \in Bad : m # 0 => m - 1 \in (0..N) \ Bad
<1>1. IsFiniteSet(Bad)
  <2>1. IsFiniteSet(0..N) /\ Bad \subseteq 0..N
    BY FS_Interval
  <2>2. QED
    BY <2>1, FS_Subset
<1>2. PICK m \in Bad : \A n \in Bad : m <= n
  <2>1. Bad \subseteq Int
    OBVIOUS
  <2>2. QED
    BY <1>1, <2>1, FiniteMin
<1>3. m \in 0..N /\ (m # 0 => m - 1 \in 0..N)
  OBVIOUS
<1>4. m - 1 \notin Bad
  BY <1>2, <1>3
<1>5. QED
  BY <1>3, <1>4

\* The total of a function on a finite set, added up one value after the other,
\* is the sum of its values.
LEMMA TotalIsSum ==
  ASSUME NEW S, IsFiniteSet(S), NEW f \in [S -> Nat]
  PROVE  Total(f) = SumOf(f, S)
<1> DEFINE one(s) == CHOOSE x \in s : TRUE
           IsTotal(g, Sets) == g = [s \in Sets |-> IF s = {} THEN 0
                                                   ELSE f[one(s)] + g[s \ {one(s)}]]
           N == Cardinality(S)
           UpTo(n) == {s \in SUBSET S : Cardinality(s) <= n}
           iter == CHOOSE g : IsTotal(g, SUBSET S)
<1>1. Total(f) = iter[S]
  BY DEF Total, MapThenSumSet, MapThenFoldSet
<1>2. N \in Nat /\ \A s \in SUBSET S : IsFiniteSet(s) /\ Cardinality(s) \in 0..N
  BY FS_Subset, FS_CardinalityType
<1>3. \A s \in SUBSET S : s # {} => /\ one(s) \in s
                                    /\ s \ {one(s)} \in SUBSET S
                                    /\ Cardinality(s \ {one(s)}) = Cardinality(s) - 1
  BY <1>2, FS_RemoveElement
<1>4. \A s \in SUBSET S : Cardinality(s) = 0 <=> s = {}
  BY <1>2, FS_EmptySet
<1> HIDE DEF one
\* A function that adds up exists for the sets of up to n elements, for every n.
<1>5. \E g : IsTotal(g, SUBSET S)
  <2> DEFINE Bad == {n \in 0..N : ~\E g : IsTotal(g, UpTo(n))}
  <2>1. UpTo(N) = SUBSET S
    BY <1>2
  <2>2. ASSUME Bad # {} PROVE FALSE
    <3>1. \E m \in Bad : m # 0 => m - 1 \in (0..N) \ Bad
      <4>1. Bad \in SUBSET (0..N) /\ N \in Nat
        BY <1>2
      <4> HIDE DEF Bad, N
      <4>2. QED
        BY <2>2, <4>1, LeastNumber
    <3>2. PICK m \in Bad : m # 0 => m - 1 \in (0..N) \ Bad
      BY <3>1
    <3>3. CASE m = 0
      <4> DEFINE g == [s \in UpTo(0) |-> 0]
      <4>1. \A s \in UpTo(0) : s = {}
        BY <1>2, <1>4
      <4>2. IsTotal(g, UpTo(0))
        BY <4>1
      <4>3. QED
        BY <3>1, <3>3, <4>2
    <3>4. CASE m # 0
      <4>1. PICK g : IsTotal(g, UpTo(m - 1))
        BY <3>2, <3>4
      <4> DEFINE h == [s \in UpTo(m) |-> IF s = {} THEN 0 ELSE f[one(s)] + g[s \ {one(s)}]]
      <4>2. \A s \in UpTo(m - 1) : g[s] = IF s = {} THEN 0 ELSE f[one(s)] + g[s \ {one(s)}]
        BY <4>1
      <4>3. \A s \in UpTo(m) : s # {} => s \ {one(s)} \in UpTo(m - 1) /\ s \ {one(s)} \in UpTo(m)
        BY <1>2, <1>3, <3>2
      <4>4. \A s \in UpTo(m - 1) : h[s] = g[s]
        <5>1. UpTo(m - 1) \subseteq UpTo(m)
          BY <1>2, <3>2
        <5> HIDE DEF UpTo
        <5>2. QED
          BY <4>2, <5>1
      <4> HIDE DEF UpTo
      <4>5. h = [s \in UpTo(m) |-> IF s = {} THEN 0 ELSE f[one(s)] + h[s \ {one(s)}]]
        BY <4>3, <4>4
      <4>6. QED
        BY <3>1, <4>5
    <3>5. QED
      BY <3>3, <3>4
  <2>3. N \in 0..N
    BY <1>2
  <2>4. \E g : IsTotal(g, UpTo(N))
    BY <2>2, <2>3
  <2>5. QED
    BY <2>1, <2>4
<1>6. IsTotal(iter, SUBSET S)
  BY <1>5
<1> HIDE DEF iter
<1>7. iter[{}] = 0 /\ \A s \in SUBSET S : s # {} => iter[s] = f[one(s)] + iter[s \ {one(s)}]
  BY <1>6
\* So it is the sum: no least n has a set of n elements with another one.
<1>8. \A s \in SUBSET S : iter[s] = SumOf(f, s)
  <2> DEFINE Bad == {n \in 0..N : \E s \in SUBSET S : /\ Cardinality(s) = n
                                                      /\ iter[s] # SumOf(f, s)}
  <2>1. ASSUME Bad # {} PROVE FALSE
    <3>1. \E m \in Bad : m # 0 => m - 1 \in (0..N) \ Bad
      <4>1. Bad \in SUBSET (0..N) /\ N \in Nat
        BY <1>2
      <4> HIDE DEF Bad, N
      <4>2. QED
        BY <2>1, <4>1, LeastNumber
    <3>2. PICK m \in Bad : m # 0 => m - 1 \in (0..N) \ Bad
      BY <3>1
    <3>3. PICK s \in SUBSET S : Cardinality(s) = m /\ iter[s] # SumOf(f, s)
      BY <3>1
    <3>4. s # {}
      <4>1. iter[{}] = 0 /\ SumOf(f, {}) = 0
        BY <1>7, SumEmpty
      <4>2. QED
        BY <3>3, <4>1
    <3>5. m # 0
      BY <1>4, <3>3, <3>4
    <3> DEFINE x == one(s)
               rest == s \ {x}
    <3>6. x \in s /\ rest \in SUBSET S /\ Cardinality(rest) = m - 1 /\ IsFiniteSet(rest)
      BY <1>2, <1>3, <3>3, <3>4
    <3>7. iter[s] = f[x] + iter[rest]
      BY <1>7, <3>4
    <3>8. iter[rest] = SumOf(f, rest)
      BY <3>2, <3>5, <3>6
    <3>9. SumOf(f, s) = SumOf(f, rest) + f[x]
      <4>1. s = rest \cup {x} /\ x \notin rest /\ NatOn(f, rest) /\ f[x] \in Nat
        BY <3>6 DEF NatOn
      <4> HIDE DEF rest, x
      <4>2. QED
        BY <3>6, <4>1, SumAdd
    <3>10. SumOf(f, rest) \in Nat /\ f[x] \in Nat
      <4>1. NatOn(f, rest) /\ f[x] \in Nat
        BY <3>6 DEF NatOn
      <4>2. QED
        BY <3>6, <4>1, SumType
    <3> HIDE DEF rest, x
    <3>11. QED
      BY <3>3, <3>7, <3>8, <3>9, <3>10
  <2>2. QED
    BY <1>2, <2>1
<1>9. QED
  BY <1>1, <1>8

\* The total of the values in 0..b of a function on a finite set.
LEMMA TotalBounds ==
  ASSUME NEW S, IsFiniteSet(S), NEW b \in Nat, NEW f \in [S -> 0..b]
  PROVE  Total(f) \in 0..(b * Cardinality(S))
<1>1. f \in [S -> Nat] /\ NatOn(f, S) /\ \A x \in S : 0 <= f[x] /\ f[x] <= b
  BY DEF NatOn
<1>2. Total(f) = SumOf(f, S) /\ SumOf(f, S) \in Nat
  BY <1>1, TotalIsSum, SumType
<1>3. SumOf(f, S) <= Cardinality(S) * b
  BY <1>1, SumBetween
<1>4. Cardinality(S) \in Nat
  BY FS_CardinalityType
<1>5. QED
  BY <1>2, <1>3, <1>4

\* Values that are nowhere greater have no greater total.
LEMMA TotalMonotone ==
  ASSUME NEW S, IsFiniteSet(S), NEW f \in [S -> Nat], NEW g \in [S -> Nat],
         \A x \in S : f[x] <= g[x]
  PROVE  Total(f) \in Nat /\ Total(g) \in Nat /\ Total(f) <= Total(g)
<1>1. NatOn(f, S) /\ NatOn(g, S)
  BY DEF NatOn
<1>2. SumOf(f, S) <= SumOf(g, S)
  BY <1>1, SumMonotone
<1>3. QED
  BY <1>1, <1>2, TotalIsSum, SumType

-----------------------------------------------------------------------------
\* Division, rounded up: the least number of b's that make up a.
LEMMA CeilDivLeast ==
  ASSUME NEW a \in Nat, NEW b \in Nat \ {0}
  PROVE  /\ CeilDiv(a, b) \in Nat
         /\ a <= CeilDiv(a, b) * b
         /\ \A k \in Int : a <= k * b => CeilDiv(a, b) <= k
<1> DEFINE q == (-a) \div b
<1>1. q \in Int /\ q * b <= -a /\ -a < q * b + b
  OBVIOUS
<1> HIDE DEF q
<1>2. (-q) * b = -(q * b) /\ (-q) \in Int
  BY <1>1
<1>3. a <= (-q) * b
  BY <1>1, <1>2
<1>4. ASSUME NEW k \in Int, a <= k * b PROVE -q <= k
  <2> SUFFICES ASSUME k + 1 <= -q PROVE FALSE
    BY <1>1
  <2>1. (k + 1) * b <= (-q) * b
    BY <1>2
  <2>2. (k + 1) * b = k * b + b
    OBVIOUS
  <2>3. k * b + b <= -(q * b) /\ -(q * b) < a + b
    <3>1. q * b \in Int /\ k * b \in Int
      BY <1>1
    <3>2. QED
      BY <1>1, <1>2, <2>1, <2>2, <3>1
  <2>4. QED
    <3>1. q * b \in Int /\ k * b \in Int
      BY <1>1
    <3>2. QED
      BY <1>4, <2>3, <3>1
<1>5. -q >= 0
  <2>1. CASE -q <= -1
    <3>1. (-q) * b <= -b
      BY <1>1, <2>1
    <3>2. QED
      BY <1>1, <1>3, <3>1
  <2>2. QED
    BY <1>1, <2>1
<1>6. QED
  BY <1>1, <1>3, <1>4, <1>5 DEF CeilDiv, q

\* The fee of n contracts is at most n times the fee of one: it is rounded up
\* once for the whole order (fees.py:45-51).
LEMMA FeeOfMany ==
  ASSUME NEW price \in 0..100, NEW n \in Nat, n >= 1
  PROVE  /\ TakerFee(1, price) \in Nat /\ TakerFee(n, price) \in Nat
         /\ TakerFee(n, price) <= n * TakerFee(1, price)
<1> DEFINE spread == price * (100 - price)
           a == TakerRate * spread
           M == 1000000
           one == CeilDiv(a, M)
           many == CeilDiv(n * a, M)
<1>1. spread \in Nat /\ a \in Nat /\ n * a \in Nat
  BY DEF TakerRate
<1>2. TakerFee(1, price) = one
  <2>1. TakerRate * 1 * price * (100 - price) = a
    BY DEF TakerRate
  <2> HIDE DEF a
  <2>2. QED
    BY <2>1 DEF TakerFee, FeeCents
<1>3. TakerFee(n, price) = many
  <2>1. TakerRate * n * price * (100 - price) = n * a
    BY DEF TakerRate
  <2> HIDE DEF a
  <2>2. QED
    BY <2>1 DEF TakerFee, FeeCents
<1> HIDE DEF a
<1>4. one \in Nat /\ a <= one * M
  BY <1>1, CeilDivLeast
<1>5. many \in Nat /\ \A k \in Int : n * a <= k * M => many <= k
  BY <1>1, CeilDivLeast
<1> HIDE DEF one, many
<1>6. n * a <= (n * one) * M /\ n * one \in Nat
  <2>1. n * a <= n * (one * M)
    BY <1>1, <1>4
  <2>2. n * (one * M) = (n * one) * M
    BY <1>4
  <2>3. QED
    BY <1>4, <2>1, <2>2
<1>7. many <= n * one
  BY <1>5, <1>6
<1>8. QED
  BY <1>2, <1>3, <1>4, <1>5, <1>7

-----------------------------------------------------------------------------
\* What the scan is given: an ensemble is the whole-degree maxima of finitely
\* many members, a kernel has the upper half of a distribution.
IsEnsemble(xs) == IsFiniteSet(DOMAIN xs) /\ xs \in [DOMAIN xs -> Int]
IsKernel(k) ==
  k \in Seq((One \div 2)..One) /\ \A c, d \in DOMAIN k : c <= d => k[c] <= k[d]

\* No more members pass a test than there are.
LEMMA CountBounds ==
  ASSUME NEW xs, IsEnsemble(xs), NEW T \in SUBSET DOMAIN xs
  PROVE  Size(xs) \in Nat /\ Cardinality(T) \in 0..Size(xs)
BY FS_Subset, FS_CardinalityType DEF IsEnsemble, Size

\* The members that pass a test and those that do not are all of them.
LEMMA CountComplement ==
  ASSUME NEW xs, IsEnsemble(xs), NEW A \in SUBSET DOMAIN xs
  PROVE  Cardinality(A) + Cardinality(DOMAIN xs \ A) = Size(xs)
<1> DEFINE D == DOMAIN xs
<1>1. IsFiniteSet(A) /\ IsFiniteSet(D \ A) /\ Size(xs) = Cardinality(D)
  BY FS_Subset DEF IsEnsemble, Size
<1>2. Cardinality(A \cup (D \ A)) = Cardinality(A) + Cardinality(D \ A) - Cardinality(A \cap (D \ A))
  BY <1>1, FS_Union
<1>3. A \cup (D \ A) = D /\ A \cap (D \ A) = {}
  OBVIOUS
<1>4. Cardinality({}) = 0
  BY FS_EmptySet
<1>5. Cardinality(A \cup (D \ A)) = Size(xs) /\ Cardinality(A \cap (D \ A)) = 0
  BY <1>1, <1>3, <1>4, Zenon
<1>6. Cardinality(A) \in Nat /\ Cardinality(D \ A) \in Nat /\ Size(xs) \in Nat
  BY <1>1, FS_CardinalityType, CountBounds
<1> HIDE DEF D
<1>7. Cardinality(A) + Cardinality(D \ A) = Size(xs)
  BY <1>2, <1>5, <1>6
<1>8. QED
  BY <1>7 DEF D

\* An ensemble that is not empty has a positive size.
LEMMA SizePositive ==
  ASSUME NEW xs, IsEnsemble(xs), DOMAIN xs # {}
  PROVE  Size(xs) \in Nat \ {0}
BY FS_EmptySet, FS_CardinalityType DEF IsEnsemble, Size

\* A fraction of a whole, rounded down, is one of its parts.
LEMMA Fraction ==
  ASSUME NEW a \in Nat, NEW b \in Nat \ {0}, NEW whole \in Nat, a <= whole * b
  PROVE  a \div b \in 0..whole
<1> DEFINE q == a \div b
<1>1. q \in Int /\ q * b <= a /\ a < q * b + b
  OBVIOUS
<1> HIDE DEF q
<1>2. q >= 0
  <2> SUFFICES ASSUME q <= -1 PROVE FALSE
    BY <1>1
  <2>1. q * b <= -b
    BY <1>1
  <2>2. QED
    BY <1>1, <2>1
<1>3. q <= whole
  <2> SUFFICES ASSUME whole + 1 <= q PROVE FALSE
    BY <1>1
  <2>1. (whole + 1) * b <= q * b /\ (whole + 1) * b = whole * b + b
    BY <1>1
  <2>2. QED
    BY <1>1, <2>1
<1>4. QED
  BY <1>1, <1>2, <1>3 DEF q

\* A quotient is at most what its numerator stays within, and at least what it
\* reaches.
LEMMA DivAround ==
  ASSUME NEW a \in Int, NEW b \in Nat \ {0}, NEW k \in Int
  PROVE  /\ a <= k * b => a \div b <= k
         /\ k * b <= a => k <= a \div b
<1> DEFINE q == a \div b
<1>1. q \in Int /\ q * b <= a /\ a < q * b + b
  OBVIOUS
<1> HIDE DEF q
<1>2. ASSUME a <= k * b PROVE q <= k
  <2> SUFFICES ASSUME k + 1 <= q PROVE FALSE
    BY <1>1
  <2>1. (k + 1) * b <= q * b /\ (k + 1) * b = k * b + b
    BY <1>1
  <2>2. k * b \in Int /\ q * b \in Int
    BY <1>1
  <2>3. QED
    BY <1>1, <1>2, <2>1, <2>2
<1>3. ASSUME k * b <= a PROVE k <= q
  <2> SUFFICES ASSUME q + 1 <= k PROVE FALSE
    BY <1>1
  <2>1. (q + 1) * b <= k * b /\ (q + 1) * b = q * b + b
    BY <1>1
  <2>2. k * b \in Int /\ q * b \in Int
    BY <1>1
  <2>3. QED
    BY <1>1, <1>3, <2>1, <2>2
<1>4. QED
  BY <1>2, <1>3 DEF q

\* A greater dividend has no smaller quotient.
LEMMA DivMonotone ==
  ASSUME NEW a \in Int, NEW c \in Int, a <= c, NEW b \in Nat \ {0}
  PROVE  a \div b <= c \div b
<1> DEFINE q == a \div b
<1>1. q \in Int /\ q * b <= a /\ q * b \in Int
  OBVIOUS
<1> HIDE DEF q
<1>2. q <= c \div b
  BY <1>1, DivAround
<1>3. QED
  BY <1>2 DEF q

\* Laplace's smoothing gives a probability.
LEMMA LaplaceBounds ==
  ASSUME NEW n \in Nat, NEW k \in 0..n
  PROVE  Laplace(k, n) \in 0..One
<1>1. /\ One * (2 * k + 1) \in Nat /\ 2 * (n + 1) \in Nat \ {0} /\ One \in Nat
      /\ One * (2 * k + 1) <= One * (2 * (n + 1))
  BY DEF One
<1>2. QED
  BY <1>1, Fraction DEF Laplace

LEMMA SequenceValues ==
  ASSUME NEW S, NEW seq \in Seq(S)
  PROVE  DOMAIN seq = 1..Len(seq) /\ \A i \in DOMAIN seq : seq[i] \in S
OBVIOUS

\* The normal distribution of a kernel gives probabilities.
LEMMA PhiBounds ==
  ASSUME NEW k, IsKernel(k), NEW d \in Int
  PROVE  Phi(k, d) \in 0..One
<1> DEFINE upper == IF Abs(d) \in DOMAIN k THEN k[Abs(d)] ELSE One
<1>1. upper \in (One \div 2)..One
  <2>1. \A c \in DOMAIN k : k[c] \in (One \div 2)..One
    BY SequenceValues DEF IsKernel
  <2>2. One \in (One \div 2)..One
    BY DEF One
  <2>3. QED
    BY <2>1, <2>2
<1>2. d > 0 \/ d = 0 \/ d < 0
  OBVIOUS
<1> HIDE DEF upper
<1>3. upper \in 0..One /\ One - upper \in 0..One /\ One \div 2 \in 0..One
  <2>1. One \in Nat /\ One \div 2 \in Nat /\ One \div 2 <= One
    BY DEF One
  <2>2. QED
    BY <1>1, <2>1
<1>4. Phi(k, d) = CASE d > 0 -> upper [] d = 0 -> One \div 2 [] d < 0 -> One - upper
  BY DEF Phi, upper
<1>5. QED
  BY <1>2, <1>3, <1>4

\* The kernel density of an ensemble gives probabilities: it is the mean of
\* values within their bounds.
LEMMA KdeBounds ==
  ASSUME NEW k, IsKernel(k), NEW xs, IsEnsemble(xs), DOMAIN xs # {}, NEW strike \in Int
  PROVE  KdeCdf(k, xs, strike) \in 0..One
<1> DEFINE f == [m \in DOMAIN xs |-> Phi(k, strike - xs[m])]
<1>1. f \in [DOMAIN xs -> 0..One]
  BY PhiBounds DEF IsEnsemble
<1>2. One \in Nat /\ IsFiniteSet(DOMAIN xs)
  BY DEF One, IsEnsemble
<1> HIDE DEF f
<1>3. Total(f) \in 0..(One * Size(xs))
  BY <1>1, <1>2, TotalBounds DEF Size
<1>4. Size(xs) \in Nat \ {0}
  BY SizePositive
<1>5. Total(f) \in Nat /\ Total(f) <= One * Size(xs)
  BY <1>2, <1>3, <1>4
<1>6. Total(f) \div Size(xs) \in 0..One
  BY <1>2, <1>4, <1>5, Fraction
<1>7. QED
  BY <1>6 DEF KdeCdf, f

\* The normal distribution of a kernel does not fall, to the left of its middle
\* or to the right.
LEMMA PhiMonotone ==
  ASSUME NEW k, IsKernel(k), NEW c \in Int, NEW d \in Int, c <= d
  PROVE  Phi(k, c) <= Phi(k, d)
<1> DEFINE Upper(n) == IF n \in DOMAIN k THEN k[n] ELSE One
           half == One \div 2
<1>1. half \in Nat /\ One \in Nat /\ 2 * half = One
  BY DEF One
<1>2. \A x \in Int : x > 0 => Phi(k, x) = Upper(x)
  BY DEF Phi, Abs
<1>3. \A x \in Int : x < 0 => Phi(k, x) = One - Upper(-x)
  BY DEF Phi, Abs
<1>4. Phi(k, 0) = half
  BY DEF Phi
<1>5. \A n \in Int : Upper(n) \in Int /\ half <= Upper(n) /\ Upper(n) <= One
  <2>1. \A n \in DOMAIN k : k[n] \in half..One
    BY SequenceValues DEF IsKernel
  <2>2. half <= One
    BY <1>1
  <2> HIDE DEF half
  <2>3. QED
    BY <1>1, <2>1, <2>2
<1>6. ASSUME NEW m \in Nat \ {0}, NEW n \in Nat, m <= n PROVE Upper(m) <= Upper(n)
  <2>1. CASE n \in DOMAIN k
    <3>1. m \in DOMAIN k
      <4>1. DOMAIN k = 1..Len(k)
        BY SequenceValues DEF IsKernel
      <4>2. QED
        BY <1>6, <2>1, <4>1
    <3>2. QED
      BY <1>6, <2>1, <3>1 DEF IsKernel
  <2>2. CASE n \notin DOMAIN k
    <3>1. Upper(n) = One /\ Upper(m) <= One
      BY <1>5, <2>2
    <3>2. QED
      BY <3>1
  <2>3. QED
    BY <2>1, <2>2
<1> HIDE DEF Upper, half
<1>7. CASE c > 0
  BY <1>2, <1>6, <1>7
<1>8. CASE c = 0
  <2>1. CASE d = 0
    BY <1>1, <1>4, <1>8, <2>1
  <2>2. CASE d > 0
    BY <1>2, <1>4, <1>5, <1>8, <2>2
  <2>3. QED
    BY <1>8, <2>1, <2>2
<1>9. CASE c < 0 /\ d < 0
  <2>1. Upper(-d) <= Upper(-c)
    BY <1>6, <1>9
  <2>2. Upper(-d) \in Int /\ Upper(-c) \in Int
    BY <1>5
  <2>3. QED
    BY <1>1, <1>3, <1>9, <2>1, <2>2
<1>10. CASE c < 0 /\ d >= 0
  <2>1. Phi(k, c) \in Int /\ Phi(k, c) <= half
    <3>1. Upper(-c) \in Int /\ half <= Upper(-c)
      BY <1>5
    <3>2. QED
      BY <1>1, <1>3, <1>10, <3>1
  <2>2. Phi(k, d) \in Int /\ half <= Phi(k, d)
    BY <1>1, <1>2, <1>4, <1>5, <1>10
  <2>3. QED
    BY <1>1, <2>1, <2>2
<1>11. QED
  BY <1>7, <1>8, <1>9, <1>10

\* Neither does the kernel density's (distributions.py:65-85).
LEMMA KdeMonotone ==
  ASSUME NEW k, IsKernel(k), NEW xs, IsEnsemble(xs), DOMAIN xs # {},
         NEW a \in Int, NEW b \in Int, a <= b
  PROVE  KdeCdf(k, xs, a) <= KdeCdf(k, xs, b)
<1> DEFINE D == DOMAIN xs
           f == [m \in D |-> Phi(k, a - xs[m])]
           g == [m \in D |-> Phi(k, b - xs[m])]
<1>1. IsFiniteSet(D) /\ \A m \in D : xs[m] \in Int
  BY DEF IsEnsemble
<1>2. ASSUME NEW m \in D
      PROVE  f[m] \in Nat /\ g[m] \in Nat /\ f[m] <= g[m]
  <2>1. a - xs[m] \in Int /\ b - xs[m] \in Int /\ a - xs[m] <= b - xs[m]
    BY <1>1
  <2>2. Phi(k, a - xs[m]) \in 0..One /\ Phi(k, b - xs[m]) \in 0..One
    BY <2>1, PhiBounds
  <2>3. Phi(k, a - xs[m]) <= Phi(k, b - xs[m])
    BY <2>1, PhiMonotone
  <2>4. \A p \in 0..One : p \in Nat
    BY DEF One
  <2>5. QED
    BY <2>2, <2>3, <2>4
<1>3. f \in [D -> Nat] /\ g \in [D -> Nat]
  BY <1>2
<1> HIDE DEF f, g
<1>4. Total(f) \in Nat /\ Total(g) \in Nat /\ Total(f) <= Total(g)
  <2> HIDE DEF D
  <2>1. QED
    BY <1>1, <1>2, <1>3, TotalMonotone
<1>5. Size(xs) \in Nat \ {0}
  BY SizePositive
<1>6. Total(f) \div Size(xs) <= Total(g) \div Size(xs)
  BY <1>4, <1>5, DivMonotone
<1>7. QED
  BY <1>6 DEF KdeCdf, f, g

\* Complements and differences of probabilities are probabilities.
LEMMA Complements ==
  ASSUME NEW p \in 0..One, NEW q \in 0..One
  PROVE  One - p \in 0..One /\ Abs(p - q) \in 0..One
<1>1. One \in Nat
  BY DEF One
<1>2. QED
  BY <1>1 DEF Abs

\* Whatever its type and regime, a contract's fair probability is one, unless
\* its metadata is missing (threshold.py:16-84).
LEMMA FairBounds ==
  ASSUME NEW k, IsKernel(k), NEW xs, IsEnsemble(xs), DOMAIN xs # {},
         NEW c \in [type: {"less", "between", "greater"}, floor: Int, cap: Int]
  PROVE  ContractProbability(c, k, xs) \in (0..One) \cup {None}
<1>1. Strike(c) \in Int /\ c.floor \in Int /\ c.cap \in Int
  BY DEF Strike
<1>2. ASSUME NEW strike \in Int
      PROVE  ProbGreater(k, xs, strike) \in 0..One /\ ProbLess(k, xs, strike) \in 0..One
  <2>1. KdeCdf(k, xs, strike) \in 0..One
    BY KdeBounds
  <2>2. EcdfGreater(xs, strike) \in 0..One
    <3> DEFINE T == {m \in DOMAIN xs : xs[m] > strike}
    <3>1. Size(xs) \in Nat /\ Cardinality(T) \in 0..Size(xs)
      BY CountBounds
    <3>2. EcdfGreater(xs, strike) = Laplace(Cardinality(T), Size(xs))
      BY DEF EcdfGreater, Count
    <3>3. QED
      BY <3>1, <3>2, LaplaceBounds
  <2>3. ProbGreater(k, xs, strike) \in 0..One
    <3>1. One - KdeCdf(k, xs, strike) \in 0..One
      BY <2>1, Complements
    <3>2. QED
      BY <2>2, <3>1 DEF ProbGreater
  <2>4. ProbLess(k, xs, strike) \in 0..One
    BY <2>3, Complements DEF ProbLess
  <2>5. QED
    BY <2>3, <2>4
<1>3. ASSUME NEW low \in Int, NEW high \in Int
      PROVE  ProbBetween(k, xs, low, high) \in 0..One
  <2> DEFINE T == {m \in DOMAIN xs : low <= xs[m] /\ xs[m] <= high}
  <2>1. Size(xs) \in Nat /\ Cardinality(T) \in 0..Size(xs)
    BY CountBounds
  <2>2. Laplace(Cardinality(T), Size(xs)) \in 0..One
    BY <2>1, LaplaceBounds
  <2>3. KdeCdf(k, xs, low) \in 0..One /\ KdeCdf(k, xs, high) \in 0..One
    BY KdeBounds
  <2>4. KdeBetween(k, xs, low, high) \in 0..One
    BY <2>3, Complements DEF KdeBetween
  <2>5. ProbBetween(k, xs, low, high) \in
          {Laplace(Cardinality(T), Size(xs)), KdeBetween(k, xs, low, high)}
    BY DEF ProbBetween, Count
  <2>6. QED
    BY <2>2, <2>4, <2>5
<1>4. c.type = "less" \/ c.type = "between" \/ c.type = "greater"
  OBVIOUS
<1>5. QED
  BY <1>1, <1>2, <1>3, <1>4 DEF ContractProbability

-----------------------------------------------------------------------------
\* The inputs a tick may have.
Inputs ==
  /\ quote \in [Ticker -> [bid: Price \cup {None}, ask: Price \cup {None}]]
  /\ contract \in [Ticker -> [type: {"less", "between", "greater"}, floor: Int, cap: Int]]
  /\ hours \in [Ticker -> Nat \cup {None}]
  /\ \A e \in Event : IsEnsemble(samples[e])
  /\ periods \in Seq([day: Int, daytime: BOOLEAN, temp: Int, unit: {"C", "F"}])
  /\ \A e \in Event : IsKernel(kernel[e])
  /\ today \in Int

\* The event of a market is one of the tick's.
LEMMA EventOfMarket ==
  ASSUME NEW t \in Ticker
  PROVE  EventOf[t] \in Event /\ t \in MarketsOf(EventOf[t])
BY MarketsAssumption DEF Ticker

\* The values of a function on a finite set are finitely many.
LEMMA ImageIsFinite ==
  ASSUME NEW S, IsFiniteSet(S), NEW f
  PROVE  IsFiniteSet({f[x] : x \in S})
<1> DEFINE T == {f[x] : x \in S}
           g == [x \in S |-> f[x]]
<1>1. g \in Surjection(S, T)
  BY DEF Surjection
<1>2. QED
  BY <1>1, FS_Surjection

LEMMA RangeOfSequence ==
  ASSUME NEW S, NEW seq \in Seq(S)
  PROVE  IsFiniteSet(Range(seq)) /\ Range(seq) \subseteq S
<1>1. DOMAIN seq = 1..Len(seq) /\ Len(seq) \in Int
  OBVIOUS
<1>2. IsFiniteSet(1..Len(seq))
  BY <1>1, FS_Interval
<1>3. IsFiniteSet({seq[i] : i \in DOMAIN seq})
  BY <1>1, <1>2, ImageIsFinite
<1>4. \A i \in DOMAIN seq : seq[i] \in S
  OBVIOUS
<1>5. QED
  BY <1>3, <1>4, Zenon DEF Range

\* parse_daily_max gives an ensemble (openmeteo.py:106-140).
LEMMA SamplesAreEnsemble ==
  ASSUME NEW columns \in Forecasts, NEW day
  PROVE  IsEnsemble(Samples(columns, day))
<1>1. ASSUME NEW m \in DOMAIN columns
      PROVE  Readings(columns[m], day) \subseteq Int /\ IsFiniteSet(Readings(columns[m], day))
  <2> DEFINE own == {x \in Range(columns[m]) : x.day = day /\ x.temp # None}
             temp == [x \in own |-> x.temp]
  <2>1. columns[m] \in Seq([day: Int, temp: Int])
    BY InputsAssumption
  <2>2. IsFiniteSet(Range(columns[m])) /\ Range(columns[m]) \subseteq [day: Int, temp: Int]
    BY <2>1, RangeOfSequence
  <2>3. IsFiniteSet(own) /\ own \subseteq [day: Int, temp: Int]
    BY <2>2, FS_Subset
  <2>4. Readings(columns[m], day) = {temp[x] : x \in own}
    BY DEF Readings
  <2> HIDE DEF own
  <2>5. IsFiniteSet({temp[x] : x \in own})
    BY <2>3, ImageIsFinite
  <2>6. QED
    BY <2>3, <2>4, <2>5
<1> DEFINE having == {m \in DOMAIN columns : Readings(columns[m], day) # {}}
<1>2. IsFiniteSet(having)
  BY InputsAssumption, FS_Subset
<1>3. \A m \in having : Max(Readings(columns[m], day)) \in Int
  BY <1>1, FiniteMax
<1>4. QED
  BY <1>2, <1>3 DEF Samples, IsEnsemble

\* The best price of a book is a price, and what it costs to take is one.
LEMMA EnrichedType ==
  ASSUME NEW m \in [listed: [bid: Price \cup {None}, ask: Price \cup {None}],
                    book: [yes: SUBSET Price, no: SUBSET Price]]
  PROVE  Enriched(m) \in [bid: Price \cup {None}, ask: Price \cup {None}]
<1>1. ASSUME NEW prices \in SUBSET Price
      PROVE  Best(prices) \in Price \cup {None}
  <2>1. IsFiniteSet(Price) /\ Price \subseteq Int
    <3>1. 0 \in Int /\ 100 \in Int
      OBVIOUS
    <3>2. IsFiniteSet(0..100)
      BY <3>1, FS_Interval, Zenon
    <3>3. QED
      BY <3>2 DEF Price
  <2>2. IsFiniteSet(prices) /\ prices \subseteq Int
    BY <2>1, FS_Subset
  <2>3. prices # {} => Max(prices) \in prices
    BY <2>2, FiniteMax
  <2>4. QED
    BY <2>3 DEF Best
<1>2. \A x \in Price : 100 - x \in Price
  BY DEF Price
<1>3. BestYesAsk(m.book) \in Price \cup {None}
  <2>1. Best(m.book.no) \in Price \cup {None}
    BY <1>1
  <2>2. QED
    BY <1>2, <2>1 DEF BestYesAsk
<1>4. Best(m.book.yes) \in Price \cup {None}
  BY <1>1
<1>5. m.listed.bid \in Price \cup {None} /\ m.listed.ask \in Price \cup {None}
  OBVIOUS
<1>6. QED
  BY <1>3, <1>4, <1>5 DEF Enriched

LEMMA InitInputs == Init => Inputs
<1> SUFFICES ASSUME Init PROVE Inputs
  OBVIOUS
<1>1. quote \in [Ticker -> [bid: Price \cup {None}, ask: Price \cup {None}]]
  <2>1. PICK known \in [Ticker -> UNION Range(Listings)] :
          /\ \A t \in Ticker : known[t] \in Listings[t]
          /\ quote = [t \in Ticker |-> Enriched(known[t])]
    BY DEF Init
  <2>2. \A t \in Ticker : known[t] \in [listed: [bid: Price \cup {None}, ask: Price \cup {None}],
                                        book: [yes: SUBSET Price, no: SUBSET Price]]
    BY <2>1, InputsAssumption
  <2>3. \A t \in Ticker :
          Enriched(known[t]) \in [bid: Price \cup {None}, ask: Price \cup {None}]
    BY <2>2, EnrichedType
  <2>4. QED
    BY <2>1, <2>3
<1>2. contract \in [Ticker -> [type: {"less", "between", "greater"}, floor: Int, cap: Int]]
  BY LaddersAssumption DEF Init
<1>3. hours \in [Ticker -> Nat \cup {None}]
  BY InputsAssumption DEF Init
<1>4. \A e \in Event : IsEnsemble(samples[e])
  <2>1. PICK columns \in Forecasts : samples = [e \in Event |-> Samples(columns, DayOf[e])]
    BY DEF Init
  <2>2. QED
    BY <2>1, SamplesAreEnsemble
<1>5. periods \in Seq([day: Int, daytime: BOOLEAN, temp: Int, unit: {"C", "F"}])
  BY InputsAssumption DEF Init
<1>6. \A e \in Event : IsKernel(kernel[e])
  BY KernelAssumption DEF Init, IsKernel
<1>7. today \in Int
  <2>1. \A e \in Event : DayOf[e] \in Int
    BY InputsAssumption
  <2>2. today \in {DayOf[e] : e \in Event}
    BY InputsAssumption DEF Init, Range
  <2>3. QED
    BY <2>1, <2>2
<1>8. QED
  BY <1>1, <1>2, <1>3, <1>4, <1>5, <1>6, <1>7 DEF Inputs

\* A tick's inputs do not change while it scans.
LEMMA InputsStay == [Next]_vars => UNCHANGED inputs
BY DEF Next, vars, ScanEvent, Pick, Persist

LEMMA InputsKept == Inputs /\ UNCHANGED inputs => Inputs'
BY DEF Inputs, inputs

\* Every market with a forecast has a fair probability or none.
LEMMA FairType ==
  ASSUME Inputs, NEW t \in Ticker
  PROVE  Fair(t) \in (0..One) \cup {None}
<1>1. EventOf[t] \in Event
  BY EventOfMarket
<1>2. IsEnsemble(samples[EventOf[t]]) /\ IsKernel(kernel[EventOf[t]])
  BY <1>1 DEF Inputs
<1>3. contract[t] \in [type: {"less", "between", "greater"}, floor: Int, cap: Int]
  BY DEF Inputs
<1>4. QED
  BY <1>2, <1>3, FairBounds DEF Fair

-----------------------------------------------------------------------------
\* The ramp at the close at most doubles the threshold, and a ramp of no hours
\* leaves it alone (detector.py:48-65).
LEMMA RampBounds ==
  ASSUME NEW h \in Nat
  PROVE  EffectiveEdgeMin(EdgeMin, h, DecayHours) \in EdgeMin..(2 * EdgeMin)
<1>1. DecayHours \in Nat \ {0} /\ EdgeMin \in Nat \ {0}
  BY DecayAssumption
<1>2. CASE h >= DecayHours
  BY <1>1, <1>2 DEF EffectiveEdgeMin
<1>3. CASE h < DecayHours
  <2> DEFINE left == DecayHours - h
  <2>1. left \in Nat /\ left <= DecayHours
    BY <1>1, <1>3
  <2> HIDE DEF left
  <2>2. EdgeMin * left \in Nat /\ EdgeMin * left <= EdgeMin * DecayHours
    BY <1>1, <2>1
  <2>3. (EdgeMin * left) \div DecayHours \in 0..EdgeMin
    BY <1>1, <2>2, Fraction
  <2>4. EffectiveEdgeMin(EdgeMin, h, DecayHours) = EdgeMin + (EdgeMin * left) \div DecayHours
    BY <1>1, <1>3 DEF EffectiveEdgeMin, left
  <2>5. QED
    BY <1>1, <2>3, <2>4
<1>4. QED
  BY <1>1, <1>2, <1>3

LEMMA NoRamp == ASSUME NEW b PROVE EffectiveEdgeMin(b, 0, 0) = b
BY DEF EffectiveEdgeMin

\* What evaluate says of a market: at most one candidate a side, each held to
\* the same threshold.
LEMMA CandidateFacts ==
  ASSUME NEW p \in 0..One, NEW b, NEW h, NEW d,
         NEW q \in [bid: Price \cup {None}, ask: Price \cup {None}],
         NEW c \in Evaluate(p, q, b, h, d)
  PROVE  LET min == EffectiveEdgeMin(b, h, d)
         IN \/ /\ q.ask \in Price /\ c = Candidate("buy_yes", p, q.ask, min)
               /\ c.side = "buy_yes"
               /\ c.net = p - 100 * q.ask - TakerFeeRate(q.ask)
            \/ /\ q.bid \in Price /\ c = Candidate("buy_no", 10000 - p, 100 - q.bid, min)
               /\ c.side = "buy_no"
               /\ c.net = 10000 - p - 100 * (100 - q.bid) - TakerFeeRate(100 - q.bid)
<1> DEFINE min == EffectiveEdgeMin(b, h, d)
           yes == Candidate("buy_yes", p, q.ask, min)
           no == Candidate("buy_no", 10000 - p, Implied(q).buyNo, min)
<1>1. yes.side = "buy_yes" /\ no.side = "buy_no"
  BY DEF Candidate
<1>2. c \in {yes, no}
  BY DEF Evaluate, Implied
<1>3. CASE c = yes
  <2>1. q.ask # None
    BY <1>1, <1>3 DEF Evaluate, Implied
  <2>2. QED
    BY <1>1, <1>3, <2>1 DEF Candidate
<1>4. CASE c = no
  <2>1. Implied(q).buyNo # None
    BY <1>1, <1>4 DEF Evaluate
  <2>2. q.bid # None /\ Implied(q).buyNo = 100 - q.bid
    BY <2>1 DEF Implied
  <2>3. QED
    BY <1>1, <1>4, <2>2 DEF Candidate
<1>5. QED
  BY <1>2, <1>3, <1>4

\* The fee of one contract is a number of hundredths of a cent.
LEMMA FeeRateType ==
  ASSUME NEW price \in Price
  PROVE  TakerFeeRate(price) \in Nat
<1>1. price \in 0..100 /\ 1 \in Nat /\ 1 >= 1
  BY DEF Price
<1>2. TakerFee(1, price) \in Nat
  BY <1>1, FeeOfMany, Zenon
<1>3. QED
  BY <1>2 DEF TakerFeeRate

LEMMA CandidateTypes ==
  ASSUME NEW p \in 0..One, NEW b, NEW h, NEW d, EffectiveEdgeMin(b, h, d) \in Int,
         NEW q \in [bid: Price \cup {None}, ask: Price \cup {None}],
         NEW c \in Evaluate(p, q, b, h, d)
  PROVE  /\ c.net \in Int /\ c.side \in {"buy_yes", "buy_no"}
         /\ c.min = EffectiveEdgeMin(b, h, d) /\ (c.flagged => c.net > c.min)
<1>1. c.min = EffectiveEdgeMin(b, h, d) /\ c.flagged = (c.net > c.min)
  BY CandidateFacts DEF Candidate
<1>2. p \in Int /\ \A x \in Price : x \in Int /\ 100 - x \in Price
  BY DEF One, Price
<1>3. \A x \in Price : TakerFeeRate(x) \in Int /\ TakerFeeRate(100 - x) \in Int
  BY <1>2, FeeRateType
<1>4. c.net \in Int /\ c.side \in {"buy_yes", "buy_no"}
  BY <1>2, <1>3, CandidateFacts
<1>5. QED
  BY <1>1, <1>4

\* The best of what is flagged is flagged, and none has a higher net edge.
LEMMA BestIsBest ==
  ASSUME NEW p \in 0..One, NEW b, NEW h, NEW d, EffectiveEdgeMin(b, h, d) \in Int,
         NEW q \in [bid: Price \cup {None}, ask: Price \cup {None}],
         Flagged(Evaluate(p, q, b, h, d)) # {}
  PROVE  LET best == BestFlagged(Evaluate(p, q, b, h, d))
         IN /\ best \in Flagged(Evaluate(p, q, b, h, d))
            /\ \A c \in Flagged(Evaluate(p, q, b, h, d)) : c.net <= best.net
<1> DEFINE F == Flagged(Evaluate(p, q, b, h, d))
           Wins(c, e) == c.net > e.net \/ (c.net = e.net /\ (c.side = "buy_yes" \/ c = e))
<1>1. F \subseteq Evaluate(p, q, b, h, d)
  BY DEF Flagged
<1>2. \A c \in F : c.net \in Int /\ c.side \in {"buy_yes", "buy_no"}
  BY <1>1, CandidateTypes
<1>3. \A c, e \in F : c.side = e.side => c = e
  BY <1>1, CandidateFacts
<1> HIDE DEF F
<1>4. \E c \in F : \A e \in F : Wins(c, e)
  <2>1. PICK x \in F : TRUE
    BY DEF F
  <2>2. \/ \A e \in F : Wins(x, e)
        \/ \E y \in F : ~Wins(x, y)
    OBVIOUS
  <2>3. ASSUME NEW y \in F, ~Wins(x, y) PROVE \A e \in F : Wins(y, e)
    <3>1. x # y /\ x.side # y.side /\ y.net >= x.net
      BY <1>2, <1>3, <2>3
    <3>2. Wins(y, x) /\ Wins(y, y)
      BY <1>2, <2>3, <3>1
    <3>3. \A e \in F : e = x \/ e = y
      BY <1>2, <1>3, <3>1
    <3>4. QED
      BY <3>2, <3>3
  <2>4. QED
    BY <2>1, <2>2, <2>3
<1>5. BestFlagged(Evaluate(p, q, b, h, d)) = CHOOSE c \in F : \A e \in F : Wins(c, e)
  BY DEF BestFlagged, F
<1> DEFINE best == CHOOSE c \in F : \A e \in F : Wins(c, e)
<1>6. best \in F /\ \A e \in F : Wins(best, e)
  BY <1>4
<1> HIDE DEF best
<1>7. \A c \in F : c.net <= best.net
  BY <1>2, <1>6
<1>8. QED
  BY <1>5, <1>6, <1>7 DEF best, F

-----------------------------------------------------------------------------
\* A market's candidates, and those it offers to trade.
CandidatesOf(t) ==
  Evaluate(Fair(t), quote[t], EdgeMin, hours[t], DecayHours)
OffersOf(t) ==
  LET e == EventOf[t]
  IN IF Condition(e) # "usable" \/ hours[t] = None \/ Undershoots(e) \/ Fair(t) = None
     THEN {} ELSE Flagged(CandidatesOf(t))
Threshold(t) == EffectiveEdgeMin(EdgeMin, hours[t], DecayHours)

LEMMA OffersByMarket ==
  ASSUME NEW e \in Event
  PROVE  Offers(e) = UNION {{[ticker |-> t, side |-> c.side, net |-> c.net] : c \in OffersOf(t)} :
                            t \in MarketsOf(e)}
<1>1. \A t \in MarketsOf(e) : EventOf[t] = e
  BY MarketsAssumption
<1>2. CASE Condition(e) # "usable" \/ Undershoots(e)
  BY <1>1, <1>2 DEF Offers, OffersOf
<1>3. CASE ~(Condition(e) # "usable" \/ Undershoots(e))
  <2>1. \A t \in MarketsOf(e) : OffersOf(t) = IF Fair(t) = None \/ hours[t] = None THEN {} ELSE
          Flagged(Evaluate(Fair(t), quote[t], EdgeMin, hours[t], DecayHours))
    BY <1>1, <1>3 DEF OffersOf, CandidatesOf
  <2>2. Offers(e) = UNION {{[ticker |-> t, side |-> c.side, net |-> c.net] :
                              c \in Flagged(Evaluate(Fair(t), quote[t], EdgeMin, hours[t], DecayHours))} :
                            t \in {u \in MarketsOf(e) : Fair(u) # None /\ hours[u] # None}}
    BY <1>3 DEF Offers
  <2>3. QED
    BY <2>1, <2>2
<1>4. QED
  BY <1>2, <1>3

\* What makes an offer: the market has a fair probability and a time to its
\* close, and its event a usable forecast.
LEMMA OfferFacts ==
  ASSUME Inputs, NEW t \in Ticker, OffersOf(t) # {}
  PROVE  /\ Fair(t) \in 0..One /\ hours[t] \in Nat /\ Fair(t) # None
         /\ quote[t] \in [bid: Price \cup {None}, ask: Price \cup {None}]
         /\ Threshold(t) \in EdgeMin..(2 * EdgeMin) /\ Threshold(t) \in Int
         /\ Condition(EventOf[t]) = "usable" /\ ~Undershoots(EventOf[t])
         /\ OffersOf(t) = Flagged(CandidatesOf(t))
<1>1. Fair(t) \in (0..One) \cup {None} /\ EventOf[t] \in Event
  BY FairType, EventOfMarket
<1>2. /\ Fair(t) # None /\ hours[t] # None
      /\ Condition(EventOf[t]) = "usable" /\ ~Undershoots(EventOf[t])
      /\ OffersOf(t) = Flagged(CandidatesOf(t))
  BY DEF OffersOf
<1>3. hours[t] \in Nat
  BY <1>1, <1>2 DEF Inputs
<1>4. quote[t] \in [bid: Price \cup {None}, ask: Price \cup {None}]
  BY DEF Inputs
<1>5. Threshold(t) \in EdgeMin..(2 * EdgeMin)
  BY <1>3, RampBounds DEF Threshold
<1>6. Threshold(t) \in Int
  BY <1>5, DecayAssumption
<1>7. QED
  BY <1>1, <1>2, <1>3, <1>4, <1>5, <1>6

\* The best of a market's offers.
LEMMA BestOffer ==
  ASSUME Inputs, NEW t \in Ticker, OffersOf(t) # {}
  PROVE  /\ BestFlagged(CandidatesOf(t)) \in OffersOf(t)
         /\ \A c \in OffersOf(t) : c.net <= BestFlagged(CandidatesOf(t)).net
         /\ \A c \in OffersOf(t) :
              c.net \in Int /\ c.side \in {"buy_yes", "buy_no"} /\ c.min = Threshold(t)
<1>1. /\ Fair(t) \in 0..One /\ Threshold(t) \in Int
      /\ quote[t] \in [bid: Price \cup {None}, ask: Price \cup {None}]
      /\ OffersOf(t) = Flagged(CandidatesOf(t))
  BY OfferFacts
<1>2. \A c \in CandidatesOf(t) :
        c.net \in Int /\ c.side \in {"buy_yes", "buy_no"} /\ c.min = Threshold(t)
  BY <1>1, CandidateTypes DEF CandidatesOf, Threshold
<1>3. Flagged(CandidatesOf(t)) \subseteq CandidatesOf(t)
  BY DEF Flagged
<1>4. /\ BestFlagged(CandidatesOf(t)) \in Flagged(CandidatesOf(t))
      /\ \A c \in Flagged(CandidatesOf(t)) : c.net <= BestFlagged(CandidatesOf(t)).net
  BY <1>1, BestIsBest DEF CandidatesOf, Threshold
<1>5. QED
  BY <1>1, <1>2, <1>3, <1>4

\* A market's row of the table flags a side exactly when the market has an
\* offer, its best one's.
LEMMA RowFields ==
  ASSUME Inputs, NEW t \in Ticker
  PROVE  /\ TableRow(t).ticker = t /\ TableRow(t).fair = Fair(t)
         /\ TableRow(t).min = None \/ TableRow(t).min \in EdgeMin..(2 * EdgeMin)
         /\ TableRow(t).side \in {"buy_yes", "buy_no", "none"}
         /\ OffersOf(t) = {} => TableRow(t).side = "none"
         /\ OffersOf(t) # {} => /\ TableRow(t).side = BestFlagged(CandidatesOf(t)).side
                                /\ TableRow(t).min = Threshold(t)
<1> DEFINE e == EventOf[t]
           evaluated == Fair(t) # None /\ hours[t] # None /\ Condition(e) = "usable"
           cands == IF evaluated THEN CandidatesOf(t) ELSE {}
           side == IF Flagged(cands) = {} THEN "none" ELSE BestFlagged(cands).side
           min == IF cands = {} THEN None ELSE Threshold(t)
<1>1. Row(t) = [ticker |-> t, fair |-> Fair(t), side |-> side, min |-> min]
  BY DEF Row, CandidatesOf, Threshold
<1>2. TableRow(t) = [ticker |-> t, fair |-> Fair(t),
                     side |-> IF Undershoots(e) THEN "none" ELSE side, min |-> min]
  <2> HIDE DEF side, min
  <2>1. QED
    BY <1>1 DEF TableRow
<1>3. OffersOf(t) = IF evaluated /\ ~Undershoots(e) THEN Flagged(CandidatesOf(t)) ELSE {}
  BY DEF OffersOf
<1>4. Flagged({}) = {}
  BY DEF Flagged
<1>5. OffersOf(t) = {} => TableRow(t).side = "none"
  BY <1>2, <1>3, <1>4
<1>6. OffersOf(t) # {} => /\ TableRow(t).side = BestFlagged(CandidatesOf(t)).side
                          /\ TableRow(t).min = Threshold(t)
  BY <1>2, <1>3, <1>4
<1>7. min = None \/ min \in EdgeMin..(2 * EdgeMin)
  <2>1. evaluated => hours[t] \in Nat
    BY DEF Inputs
  <2>2. QED
    BY <2>1, RampBounds DEF Threshold
<1>8. OffersOf(t) # {} => BestFlagged(CandidatesOf(t)).side \in {"buy_yes", "buy_no"}
  BY BestOffer
<1>9. QED
  BY <1>2, <1>5, <1>6, <1>7, <1>8

\* Evaluated once more from its row, a market comes to its best offer again
\* (loop.py:80-137): the threshold in the row keeps its ramp and gets no second.
LEMMA PickOfRow ==
  ASSUME Inputs, NEW t \in Ticker
  PROVE  /\ OffersOf(t) = {} => PickOf(TableRow(t)) = NoPick
         /\ OffersOf(t) # {} =>
              LET best == BestFlagged(CandidatesOf(t))
              IN PickOf(TableRow(t)) = [ticker |-> t, side |-> best.side,
                                        net |-> best.net, min |-> Threshold(t)]
<1>1. CASE OffersOf(t) = {}
  <2>1. TableRow(t).side = "none"
    BY <1>1, RowFields
  <2>2. QED
    BY <1>1, <2>1 DEF PickOf
<1>2. CASE OffersOf(t) # {}
  <2> DEFINE r == TableRow(t)
             best == BestFlagged(CandidatesOf(t))
             again == Evaluate(r.fair, quote[r.ticker], IF r.min = None THEN 0 ELSE r.min, 0, 0)
  <2>1. /\ r.ticker = t /\ r.fair = Fair(t) /\ r.side = best.side /\ r.min = Threshold(t)
    BY <1>2, RowFields
  <2>2. /\ Fair(t) # None /\ Threshold(t) \in EdgeMin..(2 * EdgeMin)
        /\ OffersOf(t) = Flagged(CandidatesOf(t))
    BY <1>2, OfferFacts
  <2>3. best \in OffersOf(t) /\ best.side \in {"buy_yes", "buy_no"} /\ best.min = Threshold(t)
    BY <1>2, BestOffer
  <2> HIDE DEF r, best
  <2>4. r.min # None
    BY <2>1, <2>2, DecayAssumption DEF None
  <2>5. again = CandidatesOf(t)
    BY <2>1, <2>4, NoRamp DEF Evaluate, CandidatesOf, Threshold
  <2>6. PickOf(r) = [ticker |-> t, side |-> best.side, net |-> best.net, min |-> best.min]
    <3>1. r.side # "none"
      BY <2>1, <2>3
    <3>2. Flagged(again) # {}
      BY <1>2, <2>2, <2>5
    <3>3. BestFlagged(again) = best
      BY <2>5 DEF best
    <3> HIDE DEF again
    <3>4. PickOf(r) = IF r.side = "none" \/ r.fair = None \/ Flagged(again) = {} THEN NoPick
                      ELSE [ticker |-> r.ticker, side |-> BestFlagged(again).side,
                            net |-> BestFlagged(again).net, min |-> BestFlagged(again).min]
      BY DEF PickOf, again
    <3>5. QED
      BY <2>1, <2>2, <3>1, <3>2, <3>3, <3>4
  <2>7. QED
    BY <1>2, <2>3, <2>6 DEF r, best
<1>3. QED
  BY <1>1, <1>2

-----------------------------------------------------------------------------
\* The pick of a market's row.
PickOfMarket(t) == PickOf(TableRow(t))

\* All that the scan says of a market follows from the tick's inputs.
LEMMA MarketStays ==
  ASSUME UNCHANGED inputs, NEW t \in Ticker
  PROVE  /\ TableRow(t)' = TableRow(t) /\ OffersOf(t)' = OffersOf(t)
         /\ PickOfMarket(t)' = PickOfMarket(t)
<1>1. /\ quote' = quote /\ contract' = contract /\ hours' = hours /\ samples' = samples
      /\ periods' = periods /\ kernel' = kernel /\ today' = today
  BY DEF inputs
<1>2. ASSUME NEW u PROVE Fair(u)' = Fair(u)
  BY <1>1 DEF Fair
<1>3. ASSUME NEW e PROVE Condition(e)' = Condition(e)
  BY <1>1 DEF Condition, Past, Diverges
<1>4. ASSUME NEW e PROVE Undershoots(e)' = Undershoots(e)
  <2>1. {<<u, Fair(u)'>> : u \in MarketsOf(e)} = {<<u, Fair(u)>> : u \in MarketsOf(e)}
    BY <1>2
  <2>2. QED
    BY <1>1, <1>3, <2>1 DEF Undershoots
<1>5. TableRow(t)' = TableRow(t)
  <2>1. Row(t)' = Row(t)
    BY <1>1, <1>2, <1>3 DEF Row
  <2>2. QED
    BY <1>4, <2>1 DEF TableRow
<1>6. OffersOf(t)' = OffersOf(t)
  BY <1>1, <1>2, <1>3, <1>4 DEF OffersOf, CandidatesOf
<1>7. PickOfMarket(t)' = PickOfMarket(t)
  BY <1>1, <1>5 DEF PickOfMarket, PickOf
<1>8. QED
  BY <1>5, <1>6, <1>7

-----------------------------------------------------------------------------
\* The rows are those of markets of the events scanned, and every market of a
\* scanned event of today or later has one.
RowsInv ==
  /\ scanned \in 0..Len(Events)
  /\ rows \in Seq({TableRow(t) : t \in Ticker})
  /\ \A k \in 1..scanned : ~Past(Events[k]) =>
       \A t \in MarketsOf(Events[k]) : \E i \in 1..Len(rows) : rows[i] = TableRow(t)

PickType == [ticker: Ticker \cup {"none"}, side: {"buy_yes", "buy_no", "none"},
             net: Int, min: Nat]

\* An event's pick is that of a row looked at, and no row of the event looked
\* at has a better one.
PicksInv ==
  /\ next \in 1..(Len(rows) + 1) /\ (scanned < Len(Events) => next = 1)
  /\ picks \in [Event -> PickType]
  /\ \A e \in Event : picks[e] = NoPick \/
       \E i \in 1..(next - 1) : \E t \in MarketsOf(e) :
         rows[i] = TableRow(t) /\ OffersOf(t) # {} /\ picks[e] = PickOfMarket(t)
  /\ \A i \in 1..(next - 1) : \A t \in Ticker :
       rows[i] = TableRow(t) /\ OffersOf(t) # {}
         => picks[EventOf[t]] # NoPick /\ PickOfMarket(t).net <= picks[EventOf[t]].net

\* The table is saved once, whole, with the sides its rows flag.
SavedInv ==
  saved = <<>> \/
    /\ scanned = Len(Events)
    /\ saved = [i \in DOMAIN rows |->
                  [ticker |-> rows[i].ticker, fair |-> rows[i].fair, flagged |-> rows[i].side]]

ScanInv == Inputs /\ RowsInv /\ PicksInv /\ SavedInv

LEMMA InitScan == Init => ScanInv
<1> SUFFICES ASSUME Init PROVE ScanInv
  OBVIOUS
<1>1. Inputs
  BY InitInputs
<1>2. Len(Events) \in Nat
  BY MarketsAssumption
<1>3. rows = <<>> /\ Len(rows) = 0 /\ scanned = 0 /\ next = 1 /\ saved = <<>>
  BY DEF Init
<1>4. RowsInv
  BY <1>2, <1>3 DEF RowsInv
<1>5. picks \in [Event -> PickType] /\ \A e \in Event : picks[e] = NoPick
  <2>1. NoPick \in PickType
    BY DEF NoPick, PickType
  <2>2. QED
    BY <2>1 DEF Init
<1>6. PicksInv
  BY <1>3, <1>5 DEF PicksInv
<1>7. QED
  BY <1>1, <1>3, <1>4, <1>6 DEF ScanInv, SavedInv

\* The events in order are the tick's events, and their markets its markets.
LEMMA EventsInOrder ==
  /\ Len(Events) \in Nat
  /\ \A k \in 1..Len(Events) : Events[k] \in Event /\ MarketsOf(Events[k]) \subseteq Ticker
  /\ \A e \in Event : \E k \in 1..Len(Events) : Events[k] = e
<1>1. Events \in Seq(Event)
  BY MarketsAssumption
<1>2. DOMAIN Events = 1..Len(Events) /\ Len(Events) \in Nat
  BY <1>1
<1>3. \A k \in 1..Len(Events) : Events[k] \in Event
  BY <1>1
<1>4. \A e \in Event : MarketsOf(e) \subseteq Ticker
  BY DEF Ticker
<1>5. \A e \in Event : \E k \in 1..Len(Events) : Events[k] = e
  BY <1>2 DEF Event, Range
<1>6. QED
  BY <1>2, <1>3, <1>4, <1>5

\* Steps that leave the rows alone.
LEMMA RowsKept ==
  ASSUME RowsInv, UNCHANGED <<inputs, scanned, rows>>
  PROVE  RowsInv'
<1>1. \A t \in Ticker : TableRow(t)' = TableRow(t)
  BY MarketStays
<1>2. {TableRow(t)' : t \in Ticker} = {TableRow(t) : t \in Ticker}
  BY <1>1
<1>3. today' = today
  BY DEF inputs
<1>4. \A k \in 1..scanned : \A t \in MarketsOf(Events[k]) : t \in Ticker
  BY EventsInOrder DEF RowsInv
<1>5. QED
  BY <1>1, <1>2, <1>3, <1>4 DEF RowsInv, Past

\* The next event's rows join the table; the ones of a past event do not.
LEMMA ScanEventStep ==
  ASSUME ScanInv, ScanEvent
  PROVE  RowsInv' /\ PicksInv' /\ SavedInv'
<1> DEFINE T == {TableRow(t) : t \in Ticker}
           e == Events[scanned + 1]
<1>1. /\ scanned \in 0..Len(Events) /\ Len(Events) \in Nat /\ scanned < Len(Events)
      /\ scanned' = scanned + 1 /\ UNCHANGED inputs
      /\ next' = next /\ picks' = picks /\ saved' = saved
      /\ rows' = IF Past(e) THEN rows ELSE rows \o RowsOf(e)
  BY EventsInOrder DEF ScanEvent, ScanInv, RowsInv
<1>2. e \in Event /\ MarketsOf(e) \subseteq Ticker
  BY <1>1, EventsInOrder
<1>3. \A t \in Ticker : TableRow(t)' = TableRow(t) /\ OffersOf(t)' = OffersOf(t)
  BY <1>1, MarketStays
<1>4. {TableRow(t)' : t \in Ticker} = T
  BY <1>3
<1>5. rows \in Seq(T)
  BY DEF ScanInv, RowsInv
<1>6. /\ RowsOf(e) \in Seq(T)
      /\ \A t \in MarketsOf(e) : \E i \in 1..Len(RowsOf(e)) : RowsOf(e)[i] = TableRow(t)
  <2>1. Listed[e] \in Seq(Ticker) /\ MarketsOf(e) = {Listed[e][i] : i \in 1..Len(Listed[e])}
    BY <1>2, MarketsAssumption DEF MarketsOf, Range
  <2>2. RowsOf(e) = [i \in 1..Len(Listed[e]) |-> TableRow(Listed[e][i])]
        /\ Len(Listed[e]) \in Nat /\ \A i \in 1..Len(Listed[e]) : Listed[e][i] \in Ticker
    BY <2>1 DEF RowsOf
  <2>3. RowsOf(e) \in Seq(T) /\ Len(RowsOf(e)) = Len(Listed[e])
    BY <2>2
  <2>4. QED
    BY <2>1, <2>2, <2>3
<1> HIDE DEF T, e
<1>7. rows' \in Seq(T) /\ Len(rows) \in Nat /\ Len(rows') \in Nat /\ Len(rows) <= Len(rows')
      /\ \A i \in 1..Len(rows) : rows'[i] = rows[i]
  BY <1>1, <1>5, <1>6
<1>8. ~Past(e) => \A t \in MarketsOf(e) : \E i \in 1..Len(rows') : rows'[i] = TableRow(t)
  <2>1. SUFFICES ASSUME ~Past(e), NEW t \in MarketsOf(e)
                 PROVE  \E i \in 1..Len(rows') : rows'[i] = TableRow(t)
    OBVIOUS
  <2>2. PICK i \in 1..Len(RowsOf(e)) : RowsOf(e)[i] = TableRow(t)
    BY <1>6
  <2>3. rows' = rows \o RowsOf(e)
    BY <1>1, <2>1
  <2>4. Len(rows) + i \in 1..Len(rows') /\ rows'[Len(rows) + i] = RowsOf(e)[i]
    BY <1>5, <1>6, <2>3
  <2>5. QED
    BY <2>2, <2>4
<1>9. RowsInv'
  <2>1. rows' \in Seq({TableRow(t)' : t \in Ticker})
    BY <1>4, <1>7
  <2>2. ASSUME NEW k \in 1..scanned', ~Past(Events[k])', NEW t \in MarketsOf(Events[k])
        PROVE  \E i \in 1..Len(rows') : rows'[i] = TableRow(t)'
    <3>1. ~Past(Events[k]) /\ t \in Ticker
      BY <1>1, <2>2, EventsInOrder DEF Past, inputs
    <3>2. CASE k = scanned + 1
      BY <1>3, <1>8, <2>2, <3>1, <3>2 DEF e
    <3>3. CASE k # scanned + 1
      <4>1. k \in 1..scanned
        BY <1>1, <2>2, <3>3
      <4>2. PICK i \in 1..Len(rows) : rows[i] = TableRow(t)
        BY <2>2, <3>1, <4>1 DEF ScanInv, RowsInv
      <4>3. i \in 1..Len(rows') /\ rows'[i] = rows[i]
        BY <1>7, <4>2
      <4>4. QED
        BY <1>3, <3>1, <4>2, <4>3
    <3>4. QED
      BY <3>2, <3>3
  <2>3. scanned' \in 0..Len(Events)
    BY <1>1
  <2>4. QED
    BY <2>1, <2>2, <2>3 DEF RowsInv
<1>10. next = 1 /\ next' = 1 /\ picks \in [Event -> PickType]
  BY <1>1 DEF ScanInv, PicksInv
<1>11. PicksInv'
  <2>1. \A d \in Event : picks[d] = NoPick
    BY <1>10 DEF ScanInv, PicksInv
  <2>2. 1 \in 1..(Len(rows') + 1) /\ 1..(1 - 1) = {}
    BY <1>7
  <2>3. QED
    BY <1>1, <1>10, <2>1, <2>2 DEF PicksInv
<1>12. SavedInv'
  BY <1>1 DEF ScanInv, SavedInv
<1>13. QED
  BY <1>9, <1>11, <1>12

\* A market with an offer makes a pick.
LEMMA PickOfOffer ==
  ASSUME Inputs, NEW t \in Ticker, OffersOf(t) # {}
  PROVE  /\ PickOfMarket(t) # NoPick /\ PickOfMarket(t).ticker = t
         /\ PickOfMarket(t).net \in Int
         /\ PickOfMarket(t) \in PickType
<1> DEFINE best == BestFlagged(CandidatesOf(t))
<1>1. PickOfMarket(t) = [ticker |-> t, side |-> best.side, net |-> best.net, min |-> Threshold(t)]
  BY PickOfRow DEF PickOfMarket
<1>2. best.net \in Int /\ best.side \in {"buy_yes", "buy_no"}
  BY BestOffer
<1>3. Threshold(t) \in Nat
  BY OfferFacts, DecayAssumption
<1> HIDE DEF best
<1>4. PickOfMarket(t).side # "none"
  BY <1>1, <1>2
<1>5. QED
  BY <1>1, <1>2, <1>3, <1>4 DEF NoPick, PickType

\* One more row is looked at, and its pick kept if it is better than its event's.
LEMMA PickStep ==
  ASSUME ScanInv, Pick
  PROVE  PicksInv'
<1>1. /\ scanned = Len(Events) /\ next \in 1..Len(rows) /\ Len(rows) \in Nat
      /\ next' = next + 1 /\ UNCHANGED <<inputs, scanned, rows, saved>>
  BY DEF Pick, ScanInv, PicksInv, RowsInv
<1>2. PICK u \in Ticker : rows[next] = TableRow(u)
  BY <1>1 DEF ScanInv, RowsInv
<1>3. \A t \in Ticker : TableRow(t).ticker = t
  BY RowFields DEF ScanInv
<1>4. \A t \in Ticker : TableRow(t)' = TableRow(t) /\ OffersOf(t)' = OffersOf(t)
                        /\ PickOfMarket(t)' = PickOfMarket(t)
  BY <1>1, MarketStays
<1>5. \A t \in Ticker : rows[next] = TableRow(t) => t = u
  BY <1>2, <1>3
<1>6. PickOf(rows[next]) = PickOfMarket(u) /\ rows[next].ticker = u
  BY <1>2, <1>3 DEF PickOfMarket
<1>7. EventOf[u] \in Event /\ u \in MarketsOf(EventOf[u])
  BY EventOfMarket
<1>8. \A e \in Event : \A t \in MarketsOf(e) : t \in Ticker /\ EventOf[t] = e
  BY MarketsAssumption DEF Ticker
<1>9. picks \in [Event -> PickType]
  BY DEF ScanInv, PicksInv
<1> DEFINE e == EventOf[u]
           p == PickOfMarket(u)
           better == p # NoPick /\ (picks[e] = NoPick \/ p.net > picks[e].net)
<1>10. picks' = IF better THEN [picks EXCEPT ![e] = p] ELSE picks
  <2>1. p # NoPick => p.ticker = u
    BY PickOfOffer, PickOfRow DEF PickOfMarket, ScanInv
  <2>2. QED
    BY <1>6, <2>1 DEF Pick
<1>11. next' \in 1..(Len(rows') + 1) /\ (scanned' < Len(Events) => next' = 1)
  BY <1>1, EventsInOrder
<1>12. better => OffersOf(u) # {}
  BY PickOfRow DEF PickOfMarket, ScanInv
<1>13. picks' \in [Event -> PickType]
  <2>1. better => p \in PickType
    BY <1>12, PickOfOffer DEF ScanInv
  <2> HIDE DEF better, p, e
  <2>2. QED
    BY <1>9, <1>10, <2>1
<1>14. OffersOf(u) # {} => p # NoPick /\ p.net \in Int
  BY PickOfOffer DEF ScanInv
<1>15. \A d \in Event : picks'[d] = IF better /\ d = e THEN p ELSE picks[d]
  <2> HIDE DEF better, e, p
  <2>1. QED
    BY <1>9, <1>10
<1> HIDE DEF p
<1>16. \A d \in Event : picks'[d] = NoPick \/
         \E i \in 1..(next' - 1) : \E t \in MarketsOf(d) :
           rows'[i] = TableRow(t)' /\ OffersOf(t)' # {} /\ picks'[d] = PickOfMarket(t)'
  <2> SUFFICES ASSUME NEW d \in Event, picks'[d] # NoPick
               PROVE  \E i \in 1..(next' - 1) : \E t \in MarketsOf(d) :
                        rows'[i] = TableRow(t)' /\ OffersOf(t)' # {} /\ picks'[d] = PickOfMarket(t)'
    OBVIOUS
  <2>1. CASE better /\ d = e
    <3>1. next \in 1..(next' - 1)
      BY <1>1
    <3>2. u \in MarketsOf(d) /\ picks'[d] = PickOfMarket(u) /\ OffersOf(u) # {}
      BY <1>7, <1>12, <1>15, <2>1 DEF p
    <3>3. QED
      BY <1>1, <1>2, <1>4, <3>1, <3>2
  <2>2. CASE ~(better /\ d = e)
    <3>1. picks'[d] = picks[d]
      BY <1>15, <2>2
    <3>2. PICK i \in 1..(next - 1) : \E t \in MarketsOf(d) :
            rows[i] = TableRow(t) /\ OffersOf(t) # {} /\ picks[d] = PickOfMarket(t)
      BY <3>1 DEF ScanInv, PicksInv
    <3>3. i \in 1..(next' - 1)
      BY <1>1
    <3>4. QED
      BY <1>1, <1>4, <1>8, <3>1, <3>2, <3>3
  <2>3. QED
    BY <2>1, <2>2
<1>17. ASSUME NEW i \in 1..(next' - 1), NEW t \in Ticker,
              rows'[i] = TableRow(t)', OffersOf(t)' # {}
       PROVE  /\ picks'[EventOf[t]] # NoPick
              /\ PickOfMarket(t).net <= picks'[EventOf[t]].net
  <2>1. rows[i] = TableRow(t) /\ OffersOf(t) # {} /\ EventOf[t] \in Event
    BY <1>1, <1>4, <1>17, EventOfMarket
  <2>2. PickOfMarket(t).net \in Int
    BY <2>1, PickOfOffer DEF ScanInv
  <2>3. picks[EventOf[t]] # NoPick => picks[EventOf[t]].net \in Int
    <3>1. SUFFICES ASSUME picks[EventOf[t]] # NoPick PROVE picks[EventOf[t]].net \in Int
      OBVIOUS
    <3>2. PICK j \in 1..(next - 1) : \E v \in MarketsOf(EventOf[t]) :
            rows[j] = TableRow(v) /\ OffersOf(v) # {} /\ picks[EventOf[t]] = PickOfMarket(v)
      BY <2>1, <3>1 DEF ScanInv, PicksInv
    <3>3. QED
      BY <1>8, <2>1, <3>2, PickOfOffer DEF ScanInv
  <2>4. CASE i = next
    <3>1. t = u
      BY <1>5, <2>1, <2>4
    <3>2. p # NoPick /\ p.net \in Int /\ p = PickOfMarket(t) /\ EventOf[t] = e
      BY <1>14, <2>1, <3>1 DEF p
    <3>3. CASE better
      BY <1>15, <2>1, <3>2, <3>3
    <3>4. CASE ~better
      BY <1>15, <2>1, <2>3, <3>2, <3>4
    <3>5. QED
      BY <3>3, <3>4
  <2>5. CASE i # next
    <3>1. i \in 1..(next - 1)
      BY <1>1, <2>5
    <3>2. picks[EventOf[t]] # NoPick /\ PickOfMarket(t).net <= picks[EventOf[t]].net
      BY <2>1, <3>1 DEF ScanInv, PicksInv
    <3>3. CASE better /\ EventOf[t] = e
      <4>1. p # NoPick /\ p.net \in Int /\ picks[e].net \in Int /\ p.net > picks[e].net
        BY <1>12, <1>14, <2>3, <3>2, <3>3
      <4>2. picks'[EventOf[t]] = p
        BY <1>15, <2>1, <3>3
      <4>3. QED
        BY <2>2, <3>2, <3>3, <4>1, <4>2
    <3>4. CASE ~(better /\ EventOf[t] = e)
      BY <1>15, <2>1, <3>2, <3>4
    <3>5. QED
      BY <3>3, <3>4
  <2>6. QED
    BY <2>4, <2>5
<1>18. \A i \in 1..(next' - 1) : \A t \in Ticker :
         rows'[i] = TableRow(t)' /\ OffersOf(t)' # {}
           => picks'[EventOf[t]] # NoPick /\ PickOfMarket(t)'.net <= picks'[EventOf[t]].net
  BY <1>4, <1>17
<1>19. QED
  <2> HIDE DEF better, e
  <2>1. QED
    BY <1>11, <1>13, <1>16, <1>18 DEF PicksInv

\* Steps that leave the picks alone, and what they are picks of.
LEMMA PicksKept ==
  ASSUME PicksInv, UNCHANGED <<inputs, scanned, rows, next, picks>>
  PROVE  PicksInv'
<1>1. \A t \in Ticker : TableRow(t)' = TableRow(t) /\ OffersOf(t)' = OffersOf(t)
                        /\ PickOfMarket(t)' = PickOfMarket(t)
  BY MarketStays
<1>2. \A e \in Event : \A t \in MarketsOf(e) : t \in Ticker
  BY DEF Ticker
<1>3. \A e \in Event : picks'[e] = NoPick \/
        \E i \in 1..(next' - 1) : \E t \in MarketsOf(e) :
          rows'[i] = TableRow(t)' /\ OffersOf(t)' # {} /\ picks'[e] = PickOfMarket(t)'
  BY <1>1, <1>2 DEF PicksInv
<1>4. \A i \in 1..(next' - 1) : \A t \in Ticker :
        rows'[i] = TableRow(t)' /\ OffersOf(t)' # {}
          => picks'[EventOf[t]] # NoPick /\ PickOfMarket(t)'.net <= picks'[EventOf[t]].net
  BY <1>1 DEF PicksInv
<1>5. QED
  BY <1>3, <1>4 DEF PicksInv

LEMMA ScanNext == ScanInv /\ [Next]_vars => ScanInv'
<1> SUFFICES ASSUME ScanInv, [Next]_vars PROVE ScanInv'
  OBVIOUS
<1>1. Inputs'
  BY InputsStay, InputsKept DEF ScanInv
<1>2. CASE ScanEvent
  BY <1>1, <1>2, ScanEventStep DEF ScanInv
<1>3. CASE Pick
  <2>1. PicksInv'
    BY <1>3, PickStep
  <2>2. RowsInv'
    BY <1>3, RowsKept DEF ScanInv, Pick
  <2>3. SavedInv'
    BY <1>3 DEF ScanInv, SavedInv, Pick
  <2>4. QED
    BY <1>1, <2>1, <2>2, <2>3 DEF ScanInv
<1>4. CASE Persist
  <2>1. PicksInv'
    BY <1>4, PicksKept DEF ScanInv, Persist
  <2>2. RowsInv'
    BY <1>4, RowsKept DEF ScanInv, Persist
  <2>3. SavedInv'
    BY <1>4 DEF SavedInv, Persist
  <2>4. QED
    BY <1>1, <2>1, <2>2, <2>3 DEF ScanInv
<1>5. CASE UNCHANGED vars
  <2>1. PicksInv'
    BY <1>5, PicksKept DEF ScanInv, vars
  <2>2. RowsInv'
    BY <1>5, RowsKept DEF ScanInv, vars
  <2>3. SavedInv'
    BY <1>5 DEF ScanInv, SavedInv, vars
  <2>4. QED
    BY <1>1, <2>1, <2>2, <2>3 DEF ScanInv
<1>6. QED
  BY <1>2, <1>3, <1>4, <1>5 DEF Next

LEMMA ScanAlways == Spec => []ScanInv
BY InitScan, ScanNext, PTL DEF Spec

-----------------------------------------------------------------------------
\* Every variable has its type in every reachable state.
THEOREM TypeCorrect == Spec => []TypeOK
<1>1. ScanInv => TypeOK
  <2> SUFFICES ASSUME ScanInv PROVE TypeOK
    OBVIOUS
  <2>1. scanned \in 0..Len(Events) /\ next \in 1..(Len(rows) + 1)
    BY DEF ScanInv, RowsInv, PicksInv
  <2>2. rows \in Seq({TableRow(t) : t \in Ticker})
    BY DEF ScanInv, RowsInv
  <2>3. ASSUME NEW r \in Range(rows)
        PROVE  /\ r.ticker \in Ticker /\ r.fair \in (0..One) \cup {None}
               /\ r.side \in {"buy_yes", "buy_no", "none"}
               /\ r.min = None \/ r.min \in EdgeMin..(2 * EdgeMin)
    <3>1. PICK t \in Ticker : r = TableRow(t)
      BY <2>2 DEF Range
    <3>2. Inputs
      BY DEF ScanInv
    <3>3. QED
      BY <3>1, <3>2, RowFields, FairType
  <2>4. picks \in [Event -> [ticker: Ticker \cup {"none"}, side: {"buy_yes", "buy_no", "none"},
                             net: Int, min: Nat]]
    BY DEF ScanInv, PicksInv, PickType
  <2>5. saved = <<>> \/ Len(saved) = Len(rows)
    BY <2>2 DEF ScanInv, SavedInv
  <2>6. QED
    BY <2>1, <2>3, <2>4, <2>5 DEF TypeOK
<1>2. QED
  BY <1>1, ScanAlways, PTL

-----------------------------------------------------------------------------
\* Once the scan is done, an event's pick is one of its markets' picks, and no
\* market of it with an offer has a better one.
LEMMA DonePicks ==
  ASSUME ScanInv, Done, NEW e \in Event
  PROVE  /\ picks[e] # NoPick =>
              \E t \in MarketsOf(e) : /\ OffersOf(t) # {} /\ picks[e] = PickOfMarket(t)
                                      /\ \E i \in 1..Len(rows) : rows[i] = TableRow(t)
         /\ \A t \in MarketsOf(e) : OffersOf(t) # {} =>
              picks[e] # NoPick /\ PickOfMarket(t).net <= picks[e].net
<1>1. scanned = Len(Events) /\ Len(rows) \in Nat /\ next = Len(rows) + 1
  <2>1. scanned = Len(Events) /\ next > Len(rows)
    BY DEF Done
  <2>2. RowsInv /\ PicksInv
    BY DEF ScanInv
  <2>3. Len(rows) \in Nat /\ next \in 1..(Len(rows) + 1)
    <3>1. rows \in Seq({TableRow(t) : t \in Ticker})
      BY <2>2, Zenon DEF RowsInv
    <3>2. next \in 1..(Len(rows) + 1)
      BY <2>2, Zenon DEF PicksInv
    <3>3. QED
      BY <3>1, <3>2
  <2>4. QED
    BY <2>1, <2>3
<1>2. picks[e] # NoPick =>
        \E t \in MarketsOf(e) : /\ OffersOf(t) # {} /\ picks[e] = PickOfMarket(t)
                                /\ \E i \in 1..Len(rows) : rows[i] = TableRow(t)
  BY <1>1 DEF ScanInv, PicksInv
<1>3. ASSUME NEW t \in MarketsOf(e), OffersOf(t) # {}
      PROVE  picks[e] # NoPick /\ PickOfMarket(t).net <= picks[e].net
  <2>1. t \in Ticker /\ EventOf[t] = e
    BY MarketsAssumption DEF Ticker
  <2>2. ~Past(e)
    BY <1>3, <2>1, OfferFacts DEF ScanInv, Condition
  <2>3. PICK k \in 1..Len(Events) : Events[k] = e
    BY EventsInOrder
  <2>4. PICK i \in 1..Len(rows) : rows[i] = TableRow(t)
    BY <1>1, <2>2, <2>3 DEF ScanInv, RowsInv
  <2>5. i \in 1..(next - 1)
    BY <1>1
  <2>6. QED
    BY <1>3, <2>1, <2>4, <2>5 DEF ScanInv, PicksInv
<1>4. QED
  BY <1>2, <1>3

\* The pick of an event, in terms of what its market offers.
LEMMA PickFacts ==
  ASSUME ScanInv, Done, NEW e \in Event, picks[e] # NoPick
  PROVE  \E t \in MarketsOf(e) :
           /\ OffersOf(t) # {} /\ t \in Ticker /\ EventOf[t] = e
           /\ BestFlagged(CandidatesOf(t)) \in OffersOf(t)
           /\ picks[e] = [ticker |-> t, side |-> BestFlagged(CandidatesOf(t)).side,
                          net |-> BestFlagged(CandidatesOf(t)).net, min |-> Threshold(t)]
           /\ \E i \in 1..Len(rows) : rows[i] = TableRow(t)
<1>1. PICK t \in MarketsOf(e) : /\ OffersOf(t) # {} /\ picks[e] = PickOfMarket(t)
                                /\ \E i \in 1..Len(rows) : rows[i] = TableRow(t)
  BY DonePicks
<1>2. t \in Ticker /\ EventOf[t] = e
  BY MarketsAssumption DEF Ticker
<1>3. BestFlagged(CandidatesOf(t)) \in OffersOf(t)
  BY <1>1, <1>2, BestOffer DEF ScanInv
<1>4. PickOfMarket(t) = [ticker |-> t, side |-> BestFlagged(CandidatesOf(t)).side,
                         net |-> BestFlagged(CandidatesOf(t)).net, min |-> Threshold(t)]
  BY <1>1, <1>2, PickOfRow DEF ScanInv, PickOfMarket
<1>5. QED
  BY <1>1, <1>2, <1>3, <1>4

\* The scan and the choice among its rows come to each event's best offer, for
\* any listing, forecasts and quotes (loop.py:80-137).
THEOREM PicksAlwaysBest == Spec => []PicksAreBest
<1>1. ScanInv => PicksAreBest
  <2>1. SUFFICES ASSUME ScanInv, Done, NEW e \in Event
                 PROVE  LET p == picks[e]
                        IN IF Offers(e) = {} THEN p = NoPick
                           ELSE /\ [ticker |-> p.ticker, side |-> p.side, net |-> p.net] \in Offers(e)
                                /\ \A o \in Offers(e) : o.net <= p.net
                                /\ \E r \in Range(saved) : r.ticker = p.ticker /\ r.flagged = p.side
    BY DEF PicksAreBest
  <2>2. Offers(e) = UNION {{[ticker |-> t, side |-> c.side, net |-> c.net] : c \in OffersOf(t)} :
                           t \in MarketsOf(e)}
    BY OffersByMarket
  <2>3. \A t \in MarketsOf(e) : t \in Ticker /\ EventOf[t] = e
    BY MarketsAssumption DEF Ticker
  <2>4. CASE Offers(e) = {}
    <3>1. ASSUME NEW t \in MarketsOf(e), NEW c \in OffersOf(t) PROVE FALSE
      <4>1. [ticker |-> t, side |-> c.side, net |-> c.net] \in Offers(e)
        BY <2>2, <3>1
      <4>2. QED
        BY <2>4, <4>1
    <3>2. picks[e] = NoPick
      BY <2>1, <3>1, DonePicks
    <3>3. QED
      BY <2>4, <3>2
  <2>5. CASE Offers(e) # {}
    <3>1. PICK u \in MarketsOf(e) : OffersOf(u) # {}
      BY <2>2, <2>5
    <3>2. picks[e] # NoPick
      BY <2>1, <3>1, DonePicks
    <3>3. PICK t \in MarketsOf(e) :
            /\ OffersOf(t) # {} /\ t \in Ticker /\ EventOf[t] = e
            /\ BestFlagged(CandidatesOf(t)) \in OffersOf(t)
            /\ picks[e] = [ticker |-> t, side |-> BestFlagged(CandidatesOf(t)).side,
                           net |-> BestFlagged(CandidatesOf(t)).net, min |-> Threshold(t)]
            /\ \E i \in 1..Len(rows) : rows[i] = TableRow(t)
      BY <2>1, <3>2, PickFacts
    <3>4. [ticker |-> picks[e].ticker, side |-> picks[e].side, net |-> picks[e].net] \in Offers(e)
      BY <2>2, <3>3
    <3>5. ASSUME NEW o \in Offers(e) PROVE o.net <= picks[e].net
      <4>1. PICK v \in MarketsOf(e) :
              o \in {[ticker |-> v, side |-> c.side, net |-> c.net] : c \in OffersOf(v)}
        BY <2>2
      <4>2. PICK c \in OffersOf(v) : o.net = c.net
        BY <4>1
      <4>3. OffersOf(v) # {} /\ v \in Ticker
        BY <2>3, <4>2
      <4>4. c.net <= BestFlagged(CandidatesOf(v)).net /\ c.net \in Int
            /\ BestFlagged(CandidatesOf(v)).net \in Int
        BY <2>1, <4>2, <4>3, BestOffer DEF ScanInv
      <4>5. PickOfMarket(v).net = BestFlagged(CandidatesOf(v)).net
        BY <2>1, <4>3, PickOfRow DEF ScanInv, PickOfMarket
      <4>6. PickOfMarket(v).net <= picks[e].net
        BY <2>1, <4>3, DonePicks
      <4>7. picks[e].net \in Int
        BY <2>1, <3>3, BestOffer DEF ScanInv
      <4>8. QED
        BY <4>2, <4>4, <4>5, <4>6, <4>7
    <3>6. \E r \in Range(saved) : r.ticker = picks[e].ticker /\ r.flagged = picks[e].side
      <4>1. PICK i \in 1..Len(rows) : rows[i] = TableRow(t)
        BY <3>3
      <4>2. DOMAIN rows = 1..Len(rows) /\ Len(rows) \in Nat
        BY <2>1 DEF ScanInv, RowsInv
      <4>3. saved # <<>>
        BY <2>1, <4>1, <4>2 DEF Done
      <4>4. saved = [j \in DOMAIN rows |-> [ticker |-> rows[j].ticker, fair |-> rows[j].fair,
                                            flagged |-> rows[j].side]]
        BY <2>1, <4>3 DEF ScanInv, SavedInv
      <4>5. i \in DOMAIN saved /\ saved[i].ticker = rows[i].ticker /\ saved[i].flagged = rows[i].side
        BY <4>2, <4>4
      <4>6. rows[i].ticker = t /\ rows[i].side = BestFlagged(CandidatesOf(t)).side
        BY <2>1, <3>3, <4>1, RowFields DEF ScanInv
      <4>7. QED
        BY <3>3, <4>5, <4>6 DEF Range
    <3>7. QED
      BY <2>5, <3>4, <3>5, <3>6
  <2>6. QED
    BY <2>4, <2>5
<1>2. QED
  BY <1>1, ScanAlways, PTL

\* What a pick is worth: its probability less its cost and fee is more than its
\* market's threshold.
LEMMA PickEdge ==
  ASSUME ScanInv, Done, NEW e \in Event, picks[e] # NoPick
  PROVE  \E t \in Ticker :
           /\ picks[e].ticker = t /\ EventOf[t] = e /\ Fair(t) \in 0..One
           /\ hours[t] \in Nat /\ Condition(e) = "usable"
           /\ Threshold(t) \in EdgeMin..(2 * EdgeMin)
           /\ \/ /\ picks[e].side = "buy_yes" /\ quote[t].ask \in Price
                 /\ Fair(t) - 100 * quote[t].ask - TakerFeeRate(quote[t].ask) > Threshold(t)
              \/ /\ picks[e].side = "buy_no" /\ quote[t].bid \in Price
                 /\ 10000 - Fair(t) - 100 * (100 - quote[t].bid)
                      - TakerFeeRate(100 - quote[t].bid) > Threshold(t)
<1>1. PICK t \in MarketsOf(e) :
        /\ OffersOf(t) # {} /\ t \in Ticker /\ EventOf[t] = e
        /\ BestFlagged(CandidatesOf(t)) \in OffersOf(t)
        /\ picks[e] = [ticker |-> t, side |-> BestFlagged(CandidatesOf(t)).side,
                       net |-> BestFlagged(CandidatesOf(t)).net, min |-> Threshold(t)]
  BY PickFacts
<1>2. /\ Fair(t) \in 0..One /\ hours[t] \in Nat /\ Condition(e) = "usable"
      /\ quote[t] \in [bid: Price \cup {None}, ask: Price \cup {None}]
      /\ Threshold(t) \in EdgeMin..(2 * EdgeMin) /\ Threshold(t) \in Int
      /\ OffersOf(t) = Flagged(CandidatesOf(t))
  BY <1>1, OfferFacts DEF ScanInv
<1> DEFINE best == BestFlagged(CandidatesOf(t))
<1>3. best \in CandidatesOf(t) /\ best.flagged
  BY <1>1, <1>2 DEF Flagged
<1>4. picks[e].ticker = t /\ picks[e].side = best.side
  BY <1>1
<1> HIDE DEF best
<1>5. (best.flagged => best.net > best.min) /\ best.min = Threshold(t)
  BY <1>2, <1>3, CandidateTypes DEF CandidatesOf, Threshold
<1>6. best.net > Threshold(t)
  BY <1>3, <1>5
<1>7. \/ /\ quote[t].ask \in Price /\ best.side = "buy_yes"
         /\ best.net = Fair(t) - 100 * quote[t].ask - TakerFeeRate(quote[t].ask)
      \/ /\ quote[t].bid \in Price /\ best.side = "buy_no"
         /\ best.net = 10000 - Fair(t) - 100 * (100 - quote[t].bid)
                         - TakerFeeRate(100 - quote[t].bid)
  BY <1>2, <1>3, CandidateFacts DEF CandidatesOf
<1>8. QED
  BY <1>1, <1>2, <1>4, <1>6, <1>7

\* An edge per contract that clears a threshold clears it for n of them, the
\* fee of the whole order taken off (detector.py:7-8, fees.py:45-51).
LEMMA EdgeOfMany ==
  ASSUME NEW p \in Int, NEW cost \in Price, NEW min \in Int,
         p - 100 * cost - TakerFeeRate(cost) > min, NEW n \in Nat, n >= 1
  PROVE  n * p - 100 * n * cost - 100 * TakerFee(n, cost) > n * min
<1> DEFINE fee == TakerFee(1, cost)
           fees == TakerFee(n, cost)
           net == p - 100 * cost - 100 * fee
<1>1. cost \in 0..100 /\ cost \in Int
  BY DEF Price
<1>2. fee \in Nat /\ fees \in Nat /\ fees <= n * fee
  BY <1>1, FeeOfMany
<1>3. net > min
  BY DEF TakerFeeRate
<1> HIDE DEF fee, fees
<1>4. net \in Int /\ n * net > n * min
  <2>1. net \in Int /\ net >= min + 1
    BY <1>1, <1>2, <1>3
  <2> HIDE DEF net
  <2>2. n * net >= n * (min + 1) /\ n * (min + 1) = n * min + n
    BY <2>1
  <2>3. n * net \in Int /\ n * min \in Int
    BY <2>1
  <2>4. QED
    BY <2>1, <2>2, <2>3
<1>5. n * net = n * p - 100 * n * cost - 100 * (n * fee)
  BY <1>1, <1>2
<1>6. n * fee \in Int /\ n * p \in Int /\ n * cost \in Int /\ n * min \in Int
      /\ 100 * n * cost = 100 * (n * cost)
  BY <1>1, <1>2
<1>7. QED
  <2> DEFINE nf == n * fee
             np == n * p
             nc == 100 * n * cost
             nm == n * min
             nn == n * net
  <2>1. /\ nf \in Int /\ np \in Int /\ nc \in Int /\ nm \in Int /\ nn = np - nc - 100 * nf
        /\ nn > nm /\ fees \in Int /\ fees <= nf
    BY <1>2, <1>4, <1>5, <1>6
  <2> HIDE DEF nf, np, nc, nm, nn
  <2>2. np - nc - 100 * fees > nm
    BY <2>1
  <2>3. QED
    BY <2>2 DEF np, nc, nm, fees

\* A pick's edge survives the fee of an order of any size, whatever the bound
\* on sizes.
THEOREM EdgeAlwaysSurvivesFees == Spec => []EdgeSurvivesFees
<1>1. ScanInv => EdgeSurvivesFees
  <2>1. SUFFICES ASSUME ScanInv, Done, NEW e \in Event, picks[e] # NoPick, NEW n \in 1..MaxSize
                 PROVE  LET t == picks[e].ticker
                            yes == picks[e].side = "buy_yes"
                            p == IF yes THEN Fair(t) ELSE One - Fair(t)
                            cost == IF yes THEN quote[t].ask ELSE 100 - quote[t].bid
                        IN n * p - 100 * n * cost - 100 * TakerFee(n, cost)
                             > n * EffectiveEdgeMin(EdgeMin, hours[t], DecayHours)
    BY DEF EdgeSurvivesFees
  <2>2. PICK t \in Ticker :
          /\ picks[e].ticker = t /\ EventOf[t] = e /\ Fair(t) \in 0..One
          /\ Threshold(t) \in EdgeMin..(2 * EdgeMin)
          /\ \/ /\ picks[e].side = "buy_yes" /\ quote[t].ask \in Price
                /\ Fair(t) - 100 * quote[t].ask - TakerFeeRate(quote[t].ask) > Threshold(t)
             \/ /\ picks[e].side = "buy_no" /\ quote[t].bid \in Price
                /\ 10000 - Fair(t) - 100 * (100 - quote[t].bid)
                     - TakerFeeRate(100 - quote[t].bid) > Threshold(t)
    BY <2>1, PickEdge
  <2>3. n \in Nat /\ n >= 1
    BY SizeAssumption
  <2>4. Threshold(t) \in Int /\ Fair(t) \in Int /\ One - Fair(t) \in Int /\ One = 10000
    <3>1. One \in Nat /\ EdgeMin \in Nat
      BY DecayAssumption DEF One
    <3>2. Threshold(t) \in Int /\ Fair(t) \in Int /\ One - Fair(t) \in Int
      BY <2>2, <3>1
    <3>3. QED
      BY <3>2 DEF One
  <2>5. EffectiveEdgeMin(EdgeMin, hours[t], DecayHours) = Threshold(t)
    BY <2>2 DEF Threshold
  <2>6. CASE picks[e].side = "buy_yes"
    <3>1. n * Fair(t) - 100 * n * quote[t].ask - 100 * TakerFee(n, quote[t].ask)
            > n * Threshold(t)
      BY <2>2, <2>3, <2>4, <2>6, EdgeOfMany
    <3>2. QED
      BY <2>2, <2>5, <2>6, <3>1
  <2>7. CASE picks[e].side # "buy_yes"
    <3>1. 100 - quote[t].bid \in Price
      BY <2>2, <2>7 DEF Price
    <3>2. (One - Fair(t)) - 100 * (100 - quote[t].bid) - TakerFeeRate(100 - quote[t].bid)
            > Threshold(t)
      BY <2>2, <2>4, <2>7
    <3>3. n * (One - Fair(t)) - 100 * n * (100 - quote[t].bid)
            - 100 * TakerFee(n, 100 - quote[t].bid) > n * Threshold(t)
      BY <2>3, <2>4, <3>1, <3>2, EdgeOfMany
    <3>4. QED
      BY <2>2, <2>5, <2>7, <3>3
  <2>8. QED
    BY <2>6, <2>7
<1>2. QED
  BY <1>1, ScanAlways, PTL

-----------------------------------------------------------------------------
\* Half of the members are at or below the lower median, half at or above the
\* upper one, which is not less: what is near the middle of the two is near to
\* half of the members from either side.
LEMMA MedianSplits ==
  ASSUME NEW xs, IsEnsemble(xs), DOMAIN xs # {}, NEW h \in Int,
         ~(Abs(Median2(xs) - 2 * h) > 6)
  PROVE  /\ 2 * Cardinality({m \in DOMAIN xs : xs[m] > h + 3}) <= Size(xs)
         /\ 2 * Cardinality({m \in DOMAIN xs : xs[m] < h - 3}) <= Size(xs)
<1> DEFINE n == Size(xs)
           R == Range(xs)
           AtMost(v) == {m \in DOMAIN xs : xs[m] <= v}
           AtLeast(v) == {m \in DOMAIN xs : xs[m] >= v}
           Lows == {v \in R : 2 * Cardinality(AtMost(v)) >= n}
           Highs == {v \in R : 2 * Cardinality(AtLeast(v)) >= n}
           lo == LowerMedian(xs)
           hi == UpperMedian(xs)
<1>1. /\ IsFiniteSet(DOMAIN xs) /\ n \in Nat \ {0} /\ n = Cardinality(DOMAIN xs)
      /\ \A m \in DOMAIN xs : xs[m] \in Int /\ xs[m] \in R
  BY SizePositive DEF IsEnsemble, Size, Range
<1>2. R \subseteq Int /\ IsFiniteSet(R) /\ R # {}
  <2>1. IsFiniteSet({xs[m] : m \in DOMAIN xs})
    BY <1>1, ImageIsFinite
  <2>2. QED
    BY <1>1, <2>1 DEF Range
<1>3. \A A \in SUBSET DOMAIN xs : Cardinality(A) \in Nat /\ Cardinality(A) <= n
  BY <1>1, CountBounds
<1>4. \A A, B \in SUBSET DOMAIN xs : A \cap B = {} => Cardinality(A) + Cardinality(B) <= n
  <2>1. SUFFICES ASSUME NEW A \in SUBSET DOMAIN xs, NEW B \in SUBSET DOMAIN xs, A \cap B = {}
                 PROVE  Cardinality(A) + Cardinality(B) <= n
    OBVIOUS
  <2>2. IsFiniteSet(A) /\ IsFiniteSet(B) /\ IsFiniteSet(A \cup B) /\ A \cup B \in SUBSET DOMAIN xs
    BY <1>1, FS_Subset
  <2>3. Cardinality(A \cup B) = Cardinality(A) + Cardinality(B)
    <3>1. Cardinality(A \cup B) = Cardinality(A) + Cardinality(B) - Cardinality(A \cap B)
      BY <2>2, FS_Union
    <3>2. Cardinality(A \cap B) = 0 /\ Cardinality(A) \in Nat /\ Cardinality(B) \in Nat
      BY <2>1, <2>2, FS_EmptySet, FS_CardinalityType
    <3>3. QED
      BY <3>1, <3>2
  <2>4. Cardinality(A \cup B) \in 0..n
    BY <2>2, CountBounds
  <2>5. QED
    BY <1>1, <2>3, <2>4
<1>5. \A A \in SUBSET DOMAIN xs : Cardinality(A) + Cardinality(DOMAIN xs \ A) = n
  BY CountComplement
<1>6. lo = Min(Lows) /\ hi = Max(Highs)
  BY DEF LowerMedian, UpperMedian, Count
<1>7. Lows # {} /\ Highs # {}
  <2>1. AtMost(Max(R)) = DOMAIN xs /\ Max(R) \in R
    BY <1>1, <1>2, FiniteMax
  <2>2. AtLeast(Min(R)) = DOMAIN xs /\ Min(R) \in R
    BY <1>1, <1>2, FiniteMin
  <2>3. Max(R) \in Lows /\ Min(R) \in Highs
    BY <1>1, <2>1, <2>2
  <2>4. QED
    BY <2>3
<1>8. /\ Lows \subseteq Int /\ IsFiniteSet(Lows)
      /\ Highs \subseteq Int /\ IsFiniteSet(Highs)
  BY <1>2, FS_Subset
<1>9. /\ lo \in R /\ lo \in Int /\ 2 * Cardinality(AtMost(lo)) >= n /\ \A v \in Lows : lo <= v
      /\ hi \in R /\ hi \in Int /\ 2 * Cardinality(AtLeast(hi)) >= n /\ \A v \in Highs : v <= hi
  <2>1. lo \in Lows /\ \A v \in Lows : lo <= v
    <3> HIDE DEF Lows, lo
    <3>1. QED
      BY <1>6, <1>7, <1>8, FiniteMin
  <2>2. hi \in Highs /\ \A v \in Highs : v <= hi
    <3> HIDE DEF Highs, hi
    <3>1. QED
      BY <1>6, <1>7, <1>8, FiniteMax
  <2> HIDE DEF lo, hi
  <2>3. QED
    BY <1>2, <2>1, <2>2
<1> HIDE DEF lo, hi, R, n
<1>10. lo <= hi
  <2> SUFFICES ASSUME hi < lo PROVE FALSE
    BY <1>9
  <2> DEFINE U == {v \in R : v > hi}
             w == Min(U)
  <2>1. U \subseteq Int /\ IsFiniteSet(U) /\ lo \in U
    BY <1>2, <1>9, FS_Subset
  <2>2. w \in U /\ \A v \in U : w <= v
    <3> HIDE DEF U
    <3>1. QED
      BY <2>1, FiniteMin
  <2> HIDE DEF w
  <2>3. w \in Int /\ w > hi /\ w \in R
    BY <2>1, <2>2
  <2>4. AtLeast(w) = DOMAIN xs \ AtMost(hi)
    BY <1>1, <1>9, <2>2, <2>3
  <2>5. hi \notin Lows
    BY <1>9
  <2>6. 2 * Cardinality(AtMost(hi)) < n
    <3>1. AtMost(hi) \in SUBSET DOMAIN xs /\ ~(2 * Cardinality(AtMost(hi)) >= n)
      BY <1>9, <2>5
    <3> HIDE DEF AtMost
    <3>2. QED
      BY <1>1, <1>3, <3>1
  <2>7. 2 * Cardinality(AtLeast(w)) >= n
    <3>1. AtMost(hi) \in SUBSET DOMAIN xs /\ AtLeast(w) \in SUBSET DOMAIN xs
      OBVIOUS
    <3> HIDE DEF AtMost, AtLeast
    <3>2. Cardinality(AtMost(hi)) + Cardinality(AtLeast(w)) = n
      BY <1>5, <2>4, <3>1
    <3>3. QED
      BY <1>1, <1>3, <2>6, <3>1, <3>2
  <2>8. w \in Highs
    BY <2>3, <2>7
  <2>9. QED
    BY <1>9, <2>3, <2>8
<1>11. lo <= h + 3 /\ h - 3 <= hi
  <2>1. Median2(xs) = lo + hi
    BY DEF Median2, lo, hi
  <2>2. lo + hi - 2 * h <= 6 /\ lo + hi - 2 * h >= -6
    BY <1>9, <2>1 DEF Abs
  <2>3. QED
    BY <1>9, <1>10, <2>2
<1>12. 2 * Cardinality({m \in DOMAIN xs : xs[m] > h + 3}) <= n
  <2> DEFINE G == {m \in DOMAIN xs : xs[m] > h + 3}
  <2>1. AtMost(lo) \cap G = {} /\ G \in SUBSET DOMAIN xs /\ AtMost(lo) \in SUBSET DOMAIN xs
    BY <1>1, <1>9, <1>11
  <2>2. Cardinality(G) \in Nat /\ Cardinality(AtMost(lo)) \in Nat /\ n \in Nat
    BY <1>1, CountBounds DEF n
  <2> HIDE DEF G, AtMost
  <2>3. Cardinality(AtMost(lo)) + Cardinality(G) <= n
    BY <1>4, <2>1
  <2>4. 2 * Cardinality(G) <= n
    BY <1>9, <2>2, <2>3
  <2>5. QED
    BY <2>4 DEF G
<1>13. 2 * Cardinality({m \in DOMAIN xs : xs[m] < h - 3}) <= n
  <2> DEFINE G == {m \in DOMAIN xs : xs[m] < h - 3}
  <2>1. AtLeast(hi) \cap G = {} /\ G \in SUBSET DOMAIN xs /\ AtLeast(hi) \in SUBSET DOMAIN xs
    BY <1>1, <1>9, <1>11
  <2>2. Cardinality(G) \in Nat /\ Cardinality(AtLeast(hi)) \in Nat /\ n \in Nat
    BY <1>1, CountBounds DEF n
  <2> HIDE DEF G, AtLeast
  <2>3. Cardinality(AtLeast(hi)) + Cardinality(G) <= n
    BY <1>4, <2>1
  <2>4. 2 * Cardinality(G) <= n
    BY <1>9, <2>2, <2>3
  <2>5. QED
    BY <2>4 DEF G
<1>14. QED
  BY <1>12, <1>13 DEF n

\* The last daytime period of a date with a temperature gives its high.
LEMMA HighOfLast ==
  ASSUME Inputs, NEW day \in Int, NEW i \in DOMAIN periods,
         periods[i].daytime /\ periods[i].day = day /\ periods[i].temp # None,
         \A j \in (i + 1)..Len(periods) :
           ~(periods[j].daytime /\ periods[j].day = day /\ periods[j].temp # None)
  PROVE  /\ DailyHigh(periods, day) = Fahrenheit(periods[i])
         /\ Fahrenheit(periods[i]) \in Int /\ Fahrenheit(periods[i]) # None
<1> DEFINE own(p) == p.daytime /\ p.day = day /\ p.temp # None
           found == {j \in DOMAIN periods : own(periods[j])}
<1>1. /\ periods \in Seq([day: Int, daytime: BOOLEAN, temp: Int, unit: {"C", "F"}])
      /\ DOMAIN periods = 1..Len(periods) /\ Len(periods) \in Nat
  BY DEF Inputs
<1>2. i \in found /\ found \subseteq 1..Len(periods)
  BY <1>1
<1>3. \A j \in found : j <= i
  <2> SUFFICES ASSUME NEW j \in found, j > i PROVE FALSE
    BY <1>1
  <2>1. j \in (i + 1)..Len(periods) /\ own(periods[j])
    BY <1>1
  <2>2. QED
    BY <2>1
<1>4. Max(found) = i
  <2>1. IsFiniteSet(1..Len(periods))
    BY <1>1, FS_Interval
  <2>2. found \subseteq Int /\ IsFiniteSet(found)
    BY <1>1, <1>2, <2>1, FS_Subset
  <2> HIDE DEF found
  <2>3. Max(found) \in found /\ \A y \in found : y <= Max(found)
    BY <1>2, <2>2, FiniteMax
  <2>4. QED
    BY <1>2, <1>3, <2>2, <2>3
<1>5. DailyHigh(periods, day) = Fahrenheit(periods[i])
  <2>1. DailyHigh(periods, day) = IF found = {} THEN None ELSE Fahrenheit(periods[Max(found)])
    BY DEF DailyHigh
  <2> HIDE DEF found
  <2>2. QED
    BY <1>2, <1>4, <2>1
<1>6. periods[i].temp \in Int /\ periods[i].temp # None
  <2>1. Range(periods) \subseteq [day: Int, daytime: BOOLEAN, temp: Int, unit: {"C", "F"}]
    BY <1>1, RangeOfSequence
  <2>2. periods[i] \in Range(periods)
    BY DEF Range
  <2>3. QED
    BY <2>1, <2>2
<1>7. \A x \in Int : /\ (2 * (9 * x + 160) + 5) \div 10 \in Int
                     /\ (2 * (9 * x + 160) + 5) \div 10 # None
  BY DEF None
<1>8. QED
  BY <1>5, <1>6, <1>7 DEF Fahrenheit

\* An event is traded on its own day's weather, which the NWS forecast does not
\* contradict, for any ensemble and any forecast (inspect.py:170-209).
THEOREM TradesAlwaysAgreeWithNws == Spec => []TradesAgreeWithNws
<1>1. ScanInv => TradesAgreeWithNws
  <2>1. SUFFICES ASSUME ScanInv, Done, NEW e \in Event, picks[e] # NoPick
                 PROVE  /\ DayOf[e] >= today
                        /\ \A i \in DOMAIN periods :
                             LET p == periods[i]
                                 own(q) == q.day = DayOf[e] /\ q.daytime /\ q.temp # None
                                 above == Count(LAMBDA x : x > Fahrenheit(p) + 3, samples[e])
                                 below == Count(LAMBDA x : x < Fahrenheit(p) - 3, samples[e])
                             IN own(p) /\ (\A j \in (i + 1)..Len(periods) : ~own(periods[j]))
                                  => /\ 2 * above <= Size(samples[e])
                                     /\ 2 * below <= Size(samples[e])
    BY DEF TradesAgreeWithNws
  <2>2. Condition(e) = "usable"
    BY <2>1, PickEdge
  <2>3. ~Past(e) /\ DOMAIN samples[e] # {} /\ ~Diverges(e)
    BY <2>2 DEF Condition
  <2>4. DayOf[e] \in Int /\ today \in Int /\ IsEnsemble(samples[e]) /\ Inputs
    BY <2>1, InputsAssumption DEF ScanInv, Inputs
  <2>5. DayOf[e] >= today
    BY <2>3, <2>4 DEF Past
  <2>6. ASSUME NEW i \in DOMAIN periods,
               periods[i].daytime /\ periods[i].day = DayOf[e] /\ periods[i].temp # None,
               \A j \in (i + 1)..Len(periods) :
                 ~(periods[j].daytime /\ periods[j].day = DayOf[e] /\ periods[j].temp # None)
        PROVE  LET high == Fahrenheit(periods[i])
               IN /\ 2 * Cardinality({m \in DOMAIN samples[e] : samples[e][m] > high + 3})
                       <= Size(samples[e])
                  /\ 2 * Cardinality({m \in DOMAIN samples[e] : samples[e][m] < high - 3})
                       <= Size(samples[e])
    <3> DEFINE high == Fahrenheit(periods[i])
    <3>1. DailyHigh(periods, DayOf[e]) = high /\ high \in Int /\ high # None
      BY <2>4, <2>6, HighOfLast
    <3> HIDE DEF high
    <3>2. ~(Abs(Median2(samples[e]) - 2 * high) > 6)
      BY <2>3, <3>1 DEF Diverges
    <3>3. /\ 2 * Cardinality({m \in DOMAIN samples[e] : samples[e][m] > high + 3}) <= Size(samples[e])
          /\ 2 * Cardinality({m \in DOMAIN samples[e] : samples[e][m] < high - 3}) <= Size(samples[e])
      BY <2>3, <2>4, <3>1, <3>2, MedianSplits
    <3>4. QED
      BY <3>3 DEF high
  <2>7. QED
    BY <2>5, <2>6 DEF Count
<1>2. QED
  BY <1>1, ScanAlways, PTL

-----------------------------------------------------------------------------
\* What smoothing makes of no sample, and of all of them: no further from the
\* end than a threshold the ensemble is large enough for.
LEMMA LaplaceEnds ==
  ASSUME NEW n \in Nat, NEW least \in Nat, 2 * (n + 1) * least >= One
  PROVE  Laplace(0, n) <= least /\ One - Laplace(n, n) <= least
<1> DEFINE b == 2 * (n + 1)
<1>1. b \in Nat \ {0} /\ b * least \in Nat /\ least * b = b * least /\ One \in Nat
  BY DEF One
<1>2. One <= least * b
  BY <1>1
<1>3. Laplace(0, n) = One \div b
  <2>1. One * (2 * 0 + 1) = One
    BY <1>1
  <2>2. QED
    BY <2>1 DEF Laplace
<1>4. Laplace(n, n) = (One * b - One) \div b
  <2>1. One * (2 * n + 1) = One * b - One
    BY DEF One
  <2> HIDE DEF b
  <2>2. QED
    BY <2>1 DEF Laplace, b
<1> HIDE DEF b
<1>5. Laplace(0, n) <= least
  BY <1>1, <1>2, <1>3, DivAround
<1>6. One - least <= Laplace(n, n)
  <2>1. (One - least) * b = One * b - least * b /\ One * b \in Int /\ One - least \in Int
    BY <1>1
  <2>2. (One - least) * b <= One * b - One /\ One * b - One \in Int
    BY <1>1, <1>2, <2>1
  <2>3. One - least <= (One * b - One) \div b
    BY <1>1, <2>1, <2>2, DivAround
  <2>4. QED
    BY <1>4, <2>3
<1>7. Laplace(n, n) \in Int
  BY <1>1, <1>4
<1>8. QED
  BY <1>1, <1>5, <1>6, <1>7

\* Far from the median, a contract's probability is the smoothed share of the
\* members that win it, or what the smoothed share of the others leaves.
LEMMA FarFair ==
  ASSUME NEW xs, IsEnsemble(xs), NEW k,
         NEW c \in [type: {"less", "between", "greater"}, floor: Int, cap: Int],
         Empirical(c, xs), ContractProbability(c, k, xs) # None
  PROVE  /\ Winners(c, xs) \in 0..Size(xs)
         /\ ContractProbability(c, k, xs) \in
              {Laplace(Winners(c, xs), Size(xs)),
               One - Laplace(Size(xs) - Winners(c, xs), Size(xs))}
<1>1. Strike(c) \in Int /\ \A m \in DOMAIN xs : xs[m] \in Int
  BY DEF Strike, IsEnsemble
<1>2. CASE c.type = "greater"
  <2> DEFINE A == {m \in DOMAIN xs : xs[m] > Strike(c)}
  <2>1. Winners(c, xs) = Cardinality(A)
    BY <1>2 DEF Winners, Count
  <2>2. ContractProbability(c, k, xs) = ProbGreater(k, xs, Strike(c)) /\ Far(xs, Strike(c))
    BY <1>2 DEF ContractProbability, Empirical
  <2>3. ContractProbability(c, k, xs) = Laplace(Cardinality(A), Size(xs))
    BY <2>2 DEF ProbGreater, EcdfGreater, Count
  <2>4. Cardinality(A) \in 0..Size(xs)
    BY CountBounds
  <2>5. QED
    BY <2>1, <2>3, <2>4
<1>3. CASE c.type = "less"
  <2> DEFINE A == {m \in DOMAIN xs : xs[m] > Strike(c)}
             B == {m \in DOMAIN xs : xs[m] <= Strike(c)}
  <2>1. Winners(c, xs) = Cardinality(B)
    BY <1>3 DEF Winners, Count
  <2>2. ContractProbability(c, k, xs) = One - ProbGreater(k, xs, Strike(c)) /\ Far(xs, Strike(c))
    BY <1>3 DEF ContractProbability, Empirical, ProbLess
  <2>3. ContractProbability(c, k, xs) = One - Laplace(Cardinality(A), Size(xs))
    BY <2>2 DEF ProbGreater, EcdfGreater, Count
  <2>4. A = DOMAIN xs \ B /\ B \in SUBSET DOMAIN xs
    BY <1>1
  <2> HIDE DEF A, B
  <2>5. Cardinality(B) + Cardinality(A) = Size(xs)
    BY <2>4, CountComplement
  <2>6. Cardinality(B) \in 0..Size(xs) /\ Cardinality(A) \in 0..Size(xs) /\ Size(xs) \in Nat
    BY <2>4, CountBounds
  <2>7. Cardinality(A) = Size(xs) - Cardinality(B)
    BY <2>5, <2>6
  <2>8. QED
    BY <2>1, <2>3, <2>6, <2>7
<1>4. CASE c.type = "between"
  <2> DEFINE A == {m \in DOMAIN xs : c.floor <= xs[m] /\ xs[m] <= c.cap}
  <2>1. Winners(c, xs) = Cardinality(A)
    BY <1>4 DEF Winners, Count
  <2>2. /\ ContractProbability(c, k, xs) = ProbBetween(k, xs, c.floor, c.cap)
        /\ Far(xs, c.floor) /\ Far(xs, c.cap)
    BY <1>4 DEF ContractProbability, Empirical
  <2>3. ContractProbability(c, k, xs) = Laplace(Cardinality(A), Size(xs))
    BY <2>2 DEF ProbBetween, Count
  <2>4. Cardinality(A) \in 0..Size(xs)
    BY CountBounds
  <2>5. QED
    BY <2>1, <2>3, <2>4
<1>5. QED
  BY <1>2, <1>3, <1>4

\* Smoothing alone is no reason to trade, for any ensemble that is large enough
\* for the threshold: with no member on the pick's side its probability would
\* be within the threshold, and cost and fee only take from that
\* (distributions.py:36-42, detector.py:43-59).
THEOREM FarPicksAlwaysHaveMembers == Spec => []FarPicksHaveMembers
<1>1. ScanInv => FarPicksHaveMembers
  <2>1. SUFFICES ASSUME ScanInv, Done, NEW e \in Event, picks[e] # NoPick,
                        2 * (Size(samples[e]) + 1) * EdgeMin >= One,
                        Empirical(contract[picks[e].ticker], samples[e])
                 PROVE  IF picks[e].side = "buy_yes"
                        THEN Winners(contract[picks[e].ticker], samples[e]) > 0
                        ELSE Winners(contract[picks[e].ticker], samples[e]) < Size(samples[e])
    BY DEF FarPicksHaveMembers
  <2>2. PICK t \in Ticker :
          /\ picks[e].ticker = t /\ EventOf[t] = e /\ Fair(t) \in 0..One
          /\ Condition(e) = "usable"
          /\ Threshold(t) \in EdgeMin..(2 * EdgeMin)
          /\ \/ /\ picks[e].side = "buy_yes" /\ quote[t].ask \in Price
                /\ Fair(t) - 100 * quote[t].ask - TakerFeeRate(quote[t].ask) > Threshold(t)
             \/ /\ picks[e].side = "buy_no" /\ quote[t].bid \in Price
                /\ 10000 - Fair(t) - 100 * (100 - quote[t].bid)
                     - TakerFeeRate(100 - quote[t].bid) > Threshold(t)
    BY <2>1, PickEdge
  <2> DEFINE xs == samples[e]
             c == contract[t]
             n == Size(xs)
             w == Winners(c, xs)
  <2>3. /\ picks[e].ticker = t /\ EventOf[t] = e /\ Fair(t) \in 0..One
         /\ Condition(e) = "usable" /\ Threshold(t) \in EdgeMin..(2 * EdgeMin)
    BY <2>2
  <2>4. /\ IsEnsemble(xs) /\ DOMAIN xs # {}
        /\ c \in [type: {"less", "between", "greater"}, floor: Int, cap: Int]
    BY <2>1, <2>3 DEF ScanInv, Inputs, Condition
  <2>5. Fair(t) = ContractProbability(c, kernel[e], xs)
    BY <2>3, <2>4 DEF Fair
  <2>6. One \in Nat /\ One = 10000
    BY DEF One
  <2>7. Fair(t) \in Int /\ Fair(t) # None
    <3>1. \A x \in 0..One : x \in Int /\ x # None
      BY <2>6 DEF None
    <3>2. Fair(t) \in 0..One
      BY <2>3
    <3>3. QED
      BY <3>1, <3>2
  <2>8. /\ w \in 0..n /\ n \in Nat
        /\ Fair(t) = Laplace(w, n) \/ Fair(t) = One - Laplace(n - w, n)
    <3>1. Empirical(c, xs) /\ ContractProbability(c, kernel[e], xs) # None
      <4>1. picks[e].ticker = t /\ Fair(t) # None
        BY <2>3, <2>7, Zenon
      <4>2. QED
        BY <2>1, <2>5, <4>1, Zenon
    <3>2. n \in Nat
      BY <2>4, CountBounds
    <3> HIDE DEF xs, c
    <3>3. QED
      BY <2>4, <2>5, <3>1, <3>2, FarFair
  <2>9. EdgeMin \in Nat /\ 2 * (n + 1) * EdgeMin >= One
    BY <2>1, DecayAssumption
  <2> HIDE DEF n, w
  <2>10. Laplace(0, n) <= EdgeMin /\ One - Laplace(n, n) <= EdgeMin
    BY <2>8, <2>9, LaplaceEnds
  <2>11. Laplace(0, n) \in Int /\ Laplace(n, n) \in Int /\ Fair(t) \in Int
    <3>1. Laplace(0, n) \in 0..One /\ Laplace(n, n) \in 0..One
      BY <2>8, LaplaceBounds
    <3>2. \A x \in 0..One : x \in Int
      BY <2>6
    <3>3. QED
      BY <2>7, <3>1, <3>2, Zenon
  <2>12. Threshold(t) \in Int /\ Threshold(t) >= EdgeMin
    BY <2>3, <2>9
  <2>13. ASSUME NEW p \in Int, NEW cost \in Price,
                p - 100 * cost - TakerFeeRate(cost) > Threshold(t)
         PROVE  p > EdgeMin
    <3>1. TakerFeeRate(cost) \in Nat /\ cost \in Nat
      BY FeeRateType DEF Price
    <3>2. QED
      BY <2>9, <2>12, <2>13, <3>1
  <2>14. CASE picks[e].side = "buy_yes"
    <3>1. Fair(t) > EdgeMin
      <4>1. /\ quote[t].ask \in Price
            /\ Fair(t) - 100 * quote[t].ask - TakerFeeRate(quote[t].ask) > Threshold(t)
        BY <2>2, <2>14
      <4>2. QED
        BY <2>11, <2>13, <4>1
    <3>2. ASSUME w = 0 PROVE FALSE
      <4>1. n - 0 = n
        BY <2>8
      <4>2. Fair(t) = Laplace(0, n) \/ Fair(t) = One - Laplace(n, n)
        BY <2>8, <3>2, <4>1
      <4>3. EdgeMin \in Int /\ One \in Int
        BY <2>6, <2>9
      <4>4. QED
        BY <2>10, <2>11, <3>1, <4>2, <4>3
    <3>3. w > 0
      BY <2>8, <3>2
    <3>4. QED
      BY <2>2, <2>14, <3>3 DEF w
  <2>15. CASE picks[e].side # "buy_yes"
    <3>1. One - Fair(t) > EdgeMin
      <4>1. 100 - quote[t].bid \in Price /\ One - Fair(t) \in Int
        <5>1. \A x \in Price : 100 - x \in Price
          BY DEF Price
        <5>2. quote[t].bid \in Price
          BY <2>2, <2>15
        <5>3. QED
          BY <2>6, <2>11, <5>1, <5>2
      <4>2. (One - Fair(t)) - 100 * (100 - quote[t].bid) - TakerFeeRate(100 - quote[t].bid)
              > Threshold(t)
        <5>1. 10000 - Fair(t) - 100 * (100 - quote[t].bid) - TakerFeeRate(100 - quote[t].bid)
                > Threshold(t)
          BY <2>2, <2>15
        <5>2. QED
          BY <5>1 DEF One
      <4>3. QED
        BY <2>13, <4>1, <4>2
    <3>2. ASSUME w = n PROVE FALSE
      <4>1. n - n = 0
        BY <2>8
      <4>2. Fair(t) = Laplace(n, n) \/ Fair(t) = One - Laplace(0, n)
        BY <2>8, <3>2, <4>1
      <4>3. EdgeMin \in Int /\ One \in Int
        BY <2>6, <2>9
      <4>4. QED
        BY <2>10, <2>11, <3>1, <4>2, <4>3
    <3>3. w < n
      BY <2>8, <3>2
    <3>4. QED
      BY <2>2, <2>15, <3>3 DEF w, n
  <2>16. QED
    BY <2>14, <2>15
<1>2. QED
  BY <1>1, ScanAlways, PTL

-----------------------------------------------------------------------------
\* Inequalities between multiples, element by element, add up.
LEMMA SumWeighted ==
  ASSUME NEW S, IsFiniteSet(S), NEW f, NEW g, NatOn(f, S), NatOn(g, S),
         NEW a \in Nat, NEW b \in Nat, NEW c \in Nat,
         \A x \in S : f[x] * a <= g[x] * b + c
  PROVE  SumOf(f, S) * a <= SumOf(g, S) * b + Cardinality(S) * c
<1> DEFINE N == Cardinality(S)
           Holds(s) == SumOf(f, s) * a <= SumOf(g, s) * b + Cardinality(s) * c
           Bad == {n \in 0..N : \E s \in SUBSET S : Cardinality(s) = n /\ ~Holds(s)}
<1>1. N \in Nat /\ \A s \in SUBSET S : IsFiniteSet(s) /\ Cardinality(s) \in 0..N
  BY FS_Subset, FS_CardinalityType
<1>2. ASSUME Bad # {} PROVE FALSE
  <2>1. \E m \in Bad : m # 0 => m - 1 \in (0..N) \ Bad
    <3>1. Bad \in SUBSET (0..N) /\ N \in Nat
      BY <1>1
    <3> HIDE DEF Bad, N
    <3>2. QED
      BY <1>2, <3>1, LeastNumber
  <2>2. PICK m \in Bad : m # 0 => m - 1 \in (0..N) \ Bad
    BY <2>1
  <2>3. PICK s \in SUBSET S : Cardinality(s) = m /\ ~Holds(s)
    BY <2>2
  <2>4. s # {}
    <3>1. SumOf(f, {}) = 0 /\ SumOf(g, {}) = 0 /\ Cardinality({}) = 0
      BY SumEmpty, FS_EmptySet
    <3>2. 0 * a <= 0 * b + 0 * c
      OBVIOUS
    <3>3. Holds({})
      BY <3>1, <3>2, Zenon
    <3>4. QED
      BY <2>3, <3>3
  <2>5. PICK x \in s : TRUE
    BY <2>4
  <2> DEFINE rest == s \ {x}
  <2>6. /\ rest \in SUBSET S /\ IsFiniteSet(rest) /\ Cardinality(rest) = m - 1
        /\ s = rest \cup {x} /\ x \notin rest /\ m # 0
    BY <1>1, <2>3, <2>5, FS_RemoveElement, FS_EmptySet
  <2>7. NatOn(f, rest) /\ NatOn(g, rest) /\ f[x] \in Nat /\ g[x] \in Nat
    BY <2>6 DEF NatOn
  <2> HIDE DEF rest
  <2>8. Holds(rest)
    <3>1. m - 1 \in (0..N) \ Bad
      BY <2>2, <2>6
    <3>2. QED
      BY <2>6, <3>1
  <2>9. /\ SumOf(f, s) = SumOf(f, rest) + f[x] /\ SumOf(g, s) = SumOf(g, rest) + g[x]
        /\ SumOf(f, rest) \in Nat /\ SumOf(g, rest) \in Nat
    BY <2>6, <2>7, SumAdd, SumType
  <2> DEFINE u == SumOf(f, rest)
             v == SumOf(g, rest)
  <2>10. /\ (u + f[x]) * a = u * a + f[x] * a
         /\ (v + g[x]) * b = v * b + g[x] * b
         /\ m * c = (m - 1) * c + c
    BY <1>1, <2>2, <2>7, <2>9
  <2>11. u * a <= v * b + (m - 1) * c /\ f[x] * a <= g[x] * b + c
    BY <2>3, <2>5, <2>6, <2>8
  <2>12. u * a \in Nat /\ v * b \in Nat /\ f[x] * a \in Nat /\ g[x] * b \in Nat
         /\ (m - 1) * c \in Int
    BY <1>1, <2>2, <2>7, <2>9
  <2>13. ~((u + f[x]) * a <= (v + g[x]) * b + m * c)
    BY <2>3, <2>9
  <2> HIDE DEF u, v
  <2>14. QED
    BY <2>10, <2>11, <2>12, <2>13
<1>3. Cardinality(S) = N /\ N \in 0..N
  BY <1>1
<1>4. QED
  BY <1>2, <1>3

\* The mass of the kernel density below a contract's strikes, and up to its end.
MassBelow(k, xs, c) ==
  CASE c.type = "less" -> 0
    [] c.type = "between" -> KdeCdf(k, xs, IF c.floor <= c.cap THEN c.floor ELSE c.cap)
    [] c.type = "greater" -> KdeCdf(k, xs, Strike(c))
MassUpTo(k, xs, c) ==
  CASE c.type = "less" -> KdeCdf(k, xs, Strike(c))
    [] c.type = "between" -> KdeCdf(k, xs, IF c.floor <= c.cap THEN c.cap ELSE c.floor)
    [] c.type = "greater" -> One

\* Near the median, a contract's probability is the mass between its strikes
\* (threshold.py:16-84).
LEMMA NearFair ==
  ASSUME NEW k, IsKernel(k), NEW xs, IsEnsemble(xs), DOMAIN xs # {},
         NEW c \in [type: {"less", "between", "greater"}, floor: Int, cap: Int],
         ~Empirical(c, xs), ContractProbability(c, k, xs) # None
  PROVE  /\ MassBelow(k, xs, c) \in Nat /\ MassUpTo(k, xs, c) \in Nat
         /\ MassUpTo(k, xs, c) <= One
         /\ ContractProbability(c, k, xs) = MassUpTo(k, xs, c) - MassBelow(k, xs, c)
<1>1. \A x \in Int : KdeCdf(k, xs, x) \in Nat /\ KdeCdf(k, xs, x) <= One
  <2>1. \A p \in 0..One : p \in Nat /\ p <= One
    BY DEF One
  <2>2. QED
    BY <2>1, KdeBounds
<1>2. One \in Nat /\ Strike(c) \in Int /\ c.floor \in Int /\ c.cap \in Int
  BY DEF One, Strike
<1>3. CASE c.type = "less"
  <2>1. ContractProbability(c, k, xs) = One - (One - KdeCdf(k, xs, Strike(c)))
    BY <1>3 DEF ContractProbability, ProbLess, ProbGreater, Empirical
  <2>2. QED
    BY <1>1, <1>2, <1>3, <2>1 DEF MassBelow, MassUpTo
<1>4. CASE c.type = "greater"
  <2>1. ContractProbability(c, k, xs) = One - KdeCdf(k, xs, Strike(c))
    BY <1>4 DEF ContractProbability, ProbGreater, Empirical
  <2>2. QED
    BY <1>1, <1>2, <1>4, <2>1 DEF MassBelow, MassUpTo
<1>5. CASE c.type = "between"
  <2> DEFINE low == KdeCdf(k, xs, c.floor)
             high == KdeCdf(k, xs, c.cap)
  <2>1. ContractProbability(c, k, xs) = Abs(high - low)
    BY <1>5 DEF ContractProbability, ProbBetween, KdeBetween, Empirical
  <2>2. low \in Nat /\ high \in Nat /\ low <= One /\ high <= One
    BY <1>1, <1>2
  <2>3. CASE c.floor <= c.cap
    <3>1. low <= high
      BY <1>2, <2>3, KdeMonotone
    <3>2. MassBelow(k, xs, c) = low /\ MassUpTo(k, xs, c) = high
      BY <1>5, <2>3 DEF MassBelow, MassUpTo
    <3> HIDE DEF low, high
    <3>3. QED
      BY <2>1, <2>2, <3>1, <3>2 DEF Abs
  <2>4. CASE ~(c.floor <= c.cap)
    <3>1. high <= low
      BY <1>2, <2>4, KdeMonotone
    <3>2. MassBelow(k, xs, c) = high /\ MassUpTo(k, xs, c) = low
      BY <1>5, <2>4 DEF MassBelow, MassUpTo
    <3> HIDE DEF low, high
    <3>3. Abs(high - low) = low - high
      BY <2>2, <3>1 DEF Abs
    <3>4. QED
      BY <2>1, <2>2, <3>2, <3>3
  <2>5. QED
    BY <2>3, <2>4
<1>6. QED
  BY <1>3, <1>4, <1>5

\* The masses of two rungs, one below the other, have no part in common.
LEMMA MassesApart ==
  ASSUME NEW k, IsKernel(k), NEW xs, IsEnsemble(xs), DOMAIN xs # {},
         NEW c \in [type: {"less", "between", "greater"}, floor: Int, cap: Int],
         NEW d \in [type: {"less", "between", "greater"}, floor: Int, cap: Int],
         Below(c, d)
  PROVE  MassUpTo(k, xs, c) <= MassBelow(k, xs, d)
<1> DEFINE top == IF c.type = "between" THEN IF c.floor <= c.cap THEN c.cap ELSE c.floor
                  ELSE Strike(c)
           bottom == IF d.type = "between" THEN IF d.floor <= d.cap THEN d.floor ELSE d.cap
                     ELSE Strike(d)
<1>1. top \in Ends(c) /\ bottom \in Ends(d) /\ top \in Int /\ bottom \in Int
  BY DEF Ends, Strike
<1>2. top <= bottom /\ c.type \in {"less", "between"} /\ d.type \in {"between", "greater"}
  <2> HIDE DEF top, bottom
  <2>1. QED
    BY <1>1 DEF Below
<1>3. MassUpTo(k, xs, c) = KdeCdf(k, xs, top) /\ MassBelow(k, xs, d) = KdeCdf(k, xs, bottom)
  BY <1>2 DEF MassUpTo, MassBelow
<1> HIDE DEF top, bottom
<1>4. QED
  BY <1>1, <1>2, <1>3, KdeMonotone

\* Far from the median, it is no more than its share of the members, half a
\* member's more, and the unit that rounding may add.
LEMMA FarShare ==
  ASSUME NEW xs, IsEnsemble(xs), NEW k,
         NEW c \in [type: {"less", "between", "greater"}, floor: Int, cap: Int],
         Empirical(c, xs), ContractProbability(c, k, xs) # None
  PROVE  /\ Winners(c, xs) \in Nat
         /\ LET b == 2 * (Size(xs) + 1)
            IN ContractProbability(c, k, xs) * b <= (2 * Winners(c, xs) + 1) * One + b
<1> DEFINE n == Size(xs)
           w == Winners(c, xs)
           p == ContractProbability(c, k, xs)
           b == 2 * (n + 1)
<1>1. n \in Nat /\ One \in Nat
  BY CountBounds DEF One
<1>2. w \in 0..n /\ p \in {Laplace(w, n), One - Laplace(n - w, n)}
  BY FarFair
<1> HIDE DEF n, w, p
<1>3. b \in Nat \ {0} /\ w \in Nat /\ n - w \in Nat
  BY <1>1, <1>2
<1>4. CASE p = Laplace(w, n)
  <2> DEFINE x == One * (2 * w + 1)
  <2>1. x \in Nat /\ x = (2 * w + 1) * One /\ p = x \div b
    BY <1>1, <1>3, <1>4 DEF Laplace
  <2> HIDE DEF b, x
  <2>2. (x \div b) * b <= x /\ (x \div b) * b \in Int
    BY <1>3, <2>1
  <2>3. p * b <= (2 * w + 1) * One + b
    BY <1>3, <2>1, <2>2
  <2>4. QED
    BY <1>3, <2>3 DEF b, n, w, p
<1>5. CASE p = One - Laplace(n - w, n)
  <2> DEFINE x == One * (2 * (n - w) + 1)
             q == x \div b
  <2>1. x \in Nat /\ p = One - q
    BY <1>1, <1>3, <1>5 DEF Laplace
  <2>2. x + (2 * w + 1) * One = One * b
    <3>1. x + (2 * w + 1) * One = One * ((2 * (n - w) + 1) + (2 * w + 1))
      BY <1>1, <1>3
    <3>2. (2 * (n - w) + 1) + (2 * w + 1) = b
      BY <1>1, <1>3
    <3>3. QED
      BY <3>1, <3>2
  <2> HIDE DEF b, x
  <2>3. q \in Int /\ q * b \in Int /\ x < q * b + b
    BY <1>3, <2>1
  <2> HIDE DEF q
  <2>4. p * b = One * b - q * b
    BY <1>1, <1>3, <2>1, <2>3
  <2>5. One * b \in Int /\ (2 * w + 1) * One \in Int
    BY <1>1, <1>3
  <2>6. p * b <= (2 * w + 1) * One + b
    BY <1>3, <2>1, <2>2, <2>3, <2>4, <2>5
  <2>7. QED
    BY <1>3, <2>6 DEF b, n, w, p
<1>6. QED
  BY <1>2, <1>4, <1>5

\* Of a set of rungs with their contracts: those far from the median, twice the
\* share that each of them has in the members with half a member's more, and
\* what all rungs may add up to.
FarRungs(xs, S, c) == {r \in S : Empirical(c[r], xs)}
Shares(xs, S, c) == [r \in FarRungs(xs, S, c) |-> 2 * Winners(c[r], xs) + 1]
LadderBound(xs, S, c) ==
  LET far == FarRungs(xs, S, c)
  IN One * (Total(Shares(xs, S, c)) + IF far = S THEN 0 ELSE 2 * (Size(xs) + 1))
       + 2 * (Size(xs) + 1) * Cardinality(far)

\* A ladder's rungs near the median have masses of which no two overlap, those
\* far from it their shares.
LEMMA LadderSum ==
  ASSUME NEW k, IsKernel(k), NEW xs, IsEnsemble(xs), DOMAIN xs # {},
         NEW S, IsFiniteSet(S), NEW fair \in [S -> 0..One],
         NEW c \in [S -> [type: {"less", "between", "greater"}, floor: Int, cap: Int]],
         \A r \in S : fair[r] = ContractProbability(c[r], k, xs),
         \A r, s \in S : r = s \/ Below(c[r], c[s]) \/ Below(c[s], c[r])
  PROVE  Total(fair) * 2 * (Size(xs) + 1) <= LadderBound(xs, S, c)
<1> DEFINE far == {r \in S : Empirical(c[r], xs)}
           share == [r \in far |-> 2 * Winners(c[r], xs) + 1]
           near == S \ far
           n == Size(xs)
           b == 2 * (n + 1)
<1>1. One \in Nat /\ n \in Nat /\ b \in Nat \ {0}
  <2>1. n \in Nat \ {0}
    BY SizePositive
  <2> HIDE DEF n
  <2>2. QED
    BY <2>1 DEF One
<1>2. /\ IsFiniteSet(far) /\ IsFiniteSet(near)
      /\ far \cup near = S /\ far \cap near = {} /\ Cardinality(far) \in Nat
  BY FS_Subset, FS_CardinalityType
<1>3. \A r \in S : fair[r] \in Nat /\ fair[r] # None
  <2>1. \A x \in 0..One : x \in Nat /\ x # None
    BY DEF One, None
  <2>2. \A r \in S : fair[r] \in 0..One
    OBVIOUS
  <2>3. QED
    BY <2>1, <2>2
<1>4. ASSUME NEW r \in far
      PROVE  share[r] \in Nat /\ fair[r] * b <= share[r] * One + b
  <2>1. /\ r \in S /\ Empirical(c[r], xs) /\ ContractProbability(c[r], k, xs) = fair[r]
        /\ c[r] \in [type: {"less", "between", "greater"}, floor: Int, cap: Int]
    OBVIOUS
  <2>2. /\ Winners(c[r], xs) \in Nat
        /\ ContractProbability(c[r], k, xs) * b <= (2 * Winners(c[r], xs) + 1) * One + b
    <3>1. ContractProbability(c[r], k, xs) # None
      BY <1>3, <2>1
    <3>2. QED
      BY <2>1, <3>1, FarShare
  <2>3. share[r] = 2 * Winners(c[r], xs) + 1
    OBVIOUS
  <2> HIDE DEF b
  <2>4. QED
    BY <2>1, <2>2, <2>3
<1>5. NatOn(fair, far) /\ NatOn(fair, near) /\ NatOn(share, far)
  BY <1>2, <1>3, <1>4 DEF NatOn
<1>6. SumOf(fair, far) * b <= SumOf(share, far) * One + Cardinality(far) * b
  <2>1. \A r \in far : fair[r] * b <= share[r] * One + b
    BY <1>4
  <2> HIDE DEF b
  <2>2. QED
    BY <1>1, <1>2, <1>5, <2>1, SumWeighted
<1>7. SumOf(fair, near) <= One
  <2> DEFINE low == [r \in near |-> MassBelow(k, xs, c[r])]
             high == [r \in near |-> MassUpTo(k, xs, c[r])]
  <2>1. ASSUME NEW r \in near
        PROVE  /\ low[r] \in Nat /\ high[r] \in Nat /\ fair[r] \in Nat
               /\ high[r] <= One /\ fair[r] = high[r] - low[r]
    <3>1. /\ r \in S /\ ~Empirical(c[r], xs) /\ ContractProbability(c[r], k, xs) = fair[r]
          /\ c[r] \in [type: {"less", "between", "greater"}, floor: Int, cap: Int]
      OBVIOUS
    <3>2. ContractProbability(c[r], k, xs) # None
      BY <1>3, <3>1
    <3>3. /\ MassBelow(k, xs, c[r]) \in Nat /\ MassUpTo(k, xs, c[r]) \in Nat
          /\ MassUpTo(k, xs, c[r]) <= One
          /\ ContractProbability(c[r], k, xs) = MassUpTo(k, xs, c[r]) - MassBelow(k, xs, c[r])
      BY <3>1, <3>2, NearFair
    <3>4. QED
      BY <1>3, <3>1, <3>3
  <2>2. ASSUME NEW r \in near, NEW s \in near
        PROVE  r = s \/ high[r] <= low[s] \/ high[s] <= low[r]
    <3>1. /\ c[r] \in [type: {"less", "between", "greater"}, floor: Int, cap: Int]
          /\ c[s] \in [type: {"less", "between", "greater"}, floor: Int, cap: Int]
          /\ r = s \/ Below(c[r], c[s]) \/ Below(c[s], c[r])
      OBVIOUS
    <3>2. Below(c[r], c[s]) => MassUpTo(k, xs, c[r]) <= MassBelow(k, xs, c[s])
      BY <3>1, MassesApart
    <3>3. Below(c[s], c[r]) => MassUpTo(k, xs, c[s]) <= MassBelow(k, xs, c[r])
      BY <3>1, MassesApart
    <3>4. QED
      BY <3>1, <3>2, <3>3
  <2> HIDE DEF low, high, near
  <2>3. QED
    BY <1>1, <1>2, <2>1, <2>2, SumOfIntervals
<1>8. /\ Total(fair) = SumOf(fair, far) + SumOf(fair, near)
      /\ Total(share) = SumOf(share, far)
  <2>1. fair \in [S -> Nat] /\ share \in [far -> Nat]
    BY <1>3, <1>4
  <2>2. SumOf(fair, far \cup near) = SumOf(fair, far) + SumOf(fair, near)
    <3> HIDE DEF near
    <3>1. QED
      BY <1>2, <1>5, SumUnion
  <2>3. QED
    BY <1>2, <2>1, <2>2, TotalIsSum
<1>9. far = S => SumOf(fair, near) = 0
  BY SumEmpty
<1>10. /\ SumOf(fair, far) \in Nat /\ SumOf(fair, near) \in Nat
       /\ SumOf(share, far) \in Nat
  BY <1>2, <1>5, SumType
<1> DEFINE x == SumOf(fair, far)
           y == SumOf(fair, near)
           z == SumOf(share, far)
           f == Cardinality(far)
           rest == IF far = S THEN 0 ELSE b
<1>11. y * b <= One * rest
  <2>1. CASE far = S
    BY <1>1, <1>9, <2>1
  <2>2. CASE far # S
    <3>1. rest = b
      BY <2>2
    <3> HIDE DEF b, y, rest
    <3>2. y \in Nat /\ y <= One
      BY <1>7, <1>10 DEF y
    <3>3. QED
      BY <1>1, <3>1, <3>2
  <2>3. QED
    BY <2>1, <2>2
<1>12. rest \in Nat
  BY <1>1
<1>13. Total(fair) * b <= One * (Total(share) + rest) + b * f
  <2> HIDE DEF b, x, y, z, f, rest
  <2>1. Total(fair) = x + y /\ Total(share) = z
    BY <1>8 DEF x, y, z
  <2>2. x \in Nat /\ y \in Nat /\ z \in Nat /\ f \in Nat
    BY <1>2, <1>10 DEF x, y, z, f
  <2>3. x * b <= z * One + f * b
    BY <1>6 DEF x, z, f
  <2>4. (x + y) * b = x * b + y * b /\ One * (z + rest) = z * One + One * rest /\ f * b = b * f
    BY <1>1, <1>12, <2>2
  <2>5. /\ x * b \in Int /\ y * b \in Int /\ z * One \in Int /\ One * rest \in Int
        /\ b * f \in Int
    BY <1>1, <1>12, <2>2
  <2>6. QED
    BY <1>11, <2>1, <2>3, <2>4, <2>5
<1>14. Total(fair) \in Int
  BY <1>8, <1>10
<1>15. Total(fair) * 2 * (n + 1) = Total(fair) * b
  BY <1>1, <1>14
<1>16. QED
  <2>1. far = FarRungs(xs, S, c) /\ share = Shares(xs, S, c)
    BY DEF FarRungs, Shares
  <2> HIDE DEF far, share
  <2>2. LadderBound(xs, S, c) = One * (Total(share) + rest) + b * f
    BY <2>1 DEF LadderBound
  <2>3. QED
    BY <1>13, <1>15, <2>2

\* Each saved row is one market's, with the price the tick's inputs give it.
LEMMA SavedRows ==
  ASSUME ScanInv
  PROVE  /\ IsFiniteSet(Range(saved))
         /\ \A r \in Range(saved) : \E t \in Ticker :
              r = [ticker |-> t, fair |-> Fair(t), flagged |-> TableRow(t).side]
<1> DEFINE Tables == {TableRow(t) : t \in Ticker}
           row(r) == [ticker |-> r.ticker, fair |-> r.fair, flagged |-> r.side]
<1>1. rows \in Seq(Tables)
  BY DEF ScanInv, RowsInv
<1>2. CASE saved = <<>>
  <2>1. Range(saved) = {}
    BY <1>2 DEF Range
  <2>2. QED
    BY <2>1, FS_EmptySet
<1>3. CASE saved = [i \in DOMAIN rows |-> row(rows[i])]
  <2>1. IsFiniteSet(DOMAIN rows)
    <3>1. DOMAIN rows = 1..Len(rows) /\ Len(rows) \in Int
      BY <1>1
    <3>2. QED
      BY <3>1, FS_Interval
  <2>2. Range(saved) = {saved[i] : i \in DOMAIN rows}
    BY <1>3 DEF Range
  <2>3. IsFiniteSet(Range(saved))
    BY <2>1, <2>2, ImageIsFinite
  <2>4. ASSUME NEW i \in DOMAIN rows
        PROVE  \E t \in Ticker :
                 saved[i] = [ticker |-> t, fair |-> Fair(t), flagged |-> TableRow(t).side]
    <3>1. rows[i] \in Tables
      <4> HIDE DEF Tables
      <4>1. QED
        BY <1>1, SequenceValues
    <3>2. PICK t \in Ticker : rows[i] = TableRow(t)
      BY <3>1
    <3>3. TableRow(t).ticker = t /\ TableRow(t).fair = Fair(t)
      BY RowFields DEF ScanInv
    <3>4. saved[i] = row(TableRow(t))
      BY <1>3, <3>2
    <3>5. QED
      BY <3>3, <3>4
  <2>5. QED
    BY <2>2, <2>3, <2>4
<1>4. QED
  BY <1>2, <1>3 DEF ScanInv, SavedInv

\* A ladder adds up to one but for the mixing of the two regimes, for any rungs
\* that do not overlap, any ensemble and any kernel (threshold.py:75-84).
THEOREM LadderAlwaysAddsUp == Spec => []LadderAddsUp
<1>1. ScanInv => LadderAddsUp
  <2> SUFFICES ASSUME ScanInv, NEW e \in Event, RungsApart(e)
               PROVE  LET xs == samples[e]
                          priced == {r \in Range(saved) : EventOf[r.ticker] = e /\ r.fair # None}
                          far == {r \in priced : Empirical(contract[r.ticker], xs)}
                          shares == Total([r \in far |->
                                             2 * Winners(contract[r.ticker], xs) + 1])
                      IN Total([r \in priced |-> r.fair]) * 2 * (Size(xs) + 1)
                           <= One * (shares + IF far = priced THEN 0 ELSE 2 * (Size(xs) + 1))
                              + 2 * (Size(xs) + 1) * Cardinality(far)
    BY DEF LadderAddsUp
  <2> DEFINE xs == samples[e]
             k == kernel[e]
             priced == {r \in Range(saved) : EventOf[r.ticker] = e /\ r.fair # None}
             fair == [r \in priced |-> r.fair]
             c == [r \in priced |-> contract[r.ticker]]
             far == {r \in priced : Empirical(contract[r.ticker], xs)}
             share == [r \in far |-> 2 * Winners(contract[r.ticker], xs) + 1]
  <2>1. IsEnsemble(xs) /\ IsKernel(k) /\ Inputs
    BY DEF ScanInv, Inputs
  <2>2. IsFiniteSet(priced)
    BY SavedRows, FS_Subset
  <2>3. ASSUME NEW r \in priced
        PROVE  \E t \in Ticker :
                 /\ r = [ticker |-> t, fair |-> Fair(t), flagged |-> TableRow(t).side]
                 /\ EventOf[t] = e /\ t \in MarketsOf(e) /\ Fair(t) # None
                 /\ Fair(t) \in 0..One
    <3>1. PICK t \in Ticker :
            r = [ticker |-> t, fair |-> Fair(t), flagged |-> TableRow(t).side]
      BY SavedRows
    <3>2. r.ticker = t /\ r.fair = Fair(t)
      BY <3>1
    <3>3. EventOf[t] = e /\ Fair(t) # None
      BY <3>2
    <3>4. t \in MarketsOf(e) /\ Fair(t) \in 0..One
      BY <2>1, <3>3, EventOfMarket, FairType
    <3>5. QED
      BY <3>1, <3>3, <3>4
  <2>4. CASE DOMAIN xs = {}
    <3>1. priced = {}
      <4> SUFFICES ASSUME NEW r \in priced PROVE FALSE
        OBVIOUS
      <4>1. PICK t \in Ticker : EventOf[t] = e /\ Fair(t) # None
        BY <2>3
      <4>2. QED
        BY <2>4, <4>1 DEF Fair
    <3>2. far = {} /\ far = priced
      BY <3>1
    <3>3. IsFiniteSet({}) /\ Cardinality({}) = 0
      BY FS_EmptySet
    <3>4. Total(fair) = 0 /\ Total(share) = 0
      <4>1. fair \in [{} -> Nat] /\ share \in [{} -> Nat]
        BY <3>1, <3>2
      <4> HIDE DEF fair, share
      <4>2. Total(fair) = SumOf(fair, {}) /\ Total(share) = SumOf(share, {})
        BY <3>3, <4>1, TotalIsSum
      <4>3. QED
        BY <4>2, SumEmpty
    <3>5. Size(xs) \in Nat /\ One \in Nat
      BY <2>1, CountBounds DEF One
    <3>6. Cardinality(far) = 0
      BY <3>2, <3>3
    <3> DEFINE n == Size(xs)
    <3> HIDE DEF n, fair, share, far, priced
    <3>7. Total(fair) * 2 * (n + 1)
            <= One * (Total(share) + IF far = priced THEN 0 ELSE 2 * (n + 1))
               + 2 * (n + 1) * Cardinality(far)
      <4>1. n \in Nat
        BY <3>5 DEF n
      <4>2. 0 * 2 * (n + 1) <= One * (0 + 0) + 2 * (n + 1) * 0
        BY <3>5, <4>1
      <4>3. QED
        BY <3>2, <3>4, <3>6, <4>2
    <3>8. QED
      BY <3>7 DEF n, fair, share, far, priced
  <2>5. CASE DOMAIN xs # {}
    <3>1. fair \in [priced -> 0..One]
      <4>1. \A r \in priced : r.fair \in 0..One
        BY <2>3
      <4> HIDE DEF priced
      <4>2. QED
        BY <4>1
    <3>2. c \in [priced -> [type: {"less", "between", "greater"}, floor: Int, cap: Int]]
      <4>1. \A r \in priced : r.ticker \in Ticker
        BY <2>3
      <4> HIDE DEF priced
      <4>2. QED
        BY <2>1, <4>1 DEF Inputs
    <3>3. \A r \in priced : fair[r] = ContractProbability(c[r], k, xs)
      <4> SUFFICES ASSUME NEW r \in priced PROVE r.fair = ContractProbability(contract[r.ticker], k, xs)
        OBVIOUS
      <4>1. PICK t \in Ticker : r.ticker = t /\ r.fair = Fair(t) /\ EventOf[t] = e
        BY <2>3
      <4>2. Fair(t) = ContractProbability(contract[t], k, xs)
        BY <2>5, <4>1 DEF Fair
      <4>3. QED
        BY <4>1, <4>2
    <3>4. \A r, s \in priced : r = s \/ Below(c[r], c[s]) \/ Below(c[s], c[r])
      <4> SUFFICES ASSUME NEW r \in priced, NEW s \in priced
                   PROVE  \/ r = s
                          \/ Below(contract[r.ticker], contract[s.ticker])
                          \/ Below(contract[s.ticker], contract[r.ticker])
        OBVIOUS
      <4>1. PICK t \in Ticker :
              /\ r = [ticker |-> t, fair |-> Fair(t), flagged |-> TableRow(t).side]
              /\ t \in MarketsOf(e) /\ Fair(t) # None
        BY <2>3
      <4>2. PICK u \in Ticker :
              /\ s = [ticker |-> u, fair |-> Fair(u), flagged |-> TableRow(u).side]
              /\ u \in MarketsOf(e) /\ Fair(u) # None
        BY <2>3
      <4>3. t = u \/ Below(contract[t], contract[u]) \/ Below(contract[u], contract[t])
        BY <4>1, <4>2 DEF RungsApart
      <4>4. r.ticker = t /\ s.ticker = u /\ (t = u => r = s)
        BY <4>1, <4>2
      <4>5. QED
        BY <4>3, <4>4
    <3>5. /\ far = {r \in priced : Empirical(c[r], xs)}
          /\ share = [r \in far |-> 2 * Winners(c[r], xs) + 1]
      <4>1. \A r \in priced : c[r] = contract[r.ticker]
        OBVIOUS
      <4> HIDE DEF priced, c
      <4>2. far = {r \in priced : Empirical(c[r], xs)}
        BY <4>1
      <4>3. QED
        BY <4>1, <4>2
    <3>6. Total(fair) * 2 * (Size(xs) + 1) <= LadderBound(xs, priced, c)
      <4> HIDE DEF fair, share, far, c, priced, k, xs
      <4>1. QED
        BY <2>1, <2>2, <2>5, <3>1, <3>2, <3>3, <3>4, LadderSum
    <3>7. far = FarRungs(xs, priced, c) /\ share = Shares(xs, priced, c)
      <4> HIDE DEF fair, share, far, c, priced, k, xs
      <4>1. QED
        BY <3>5 DEF FarRungs, Shares
    <3>8. QED
      <4> HIDE DEF fair, share, far, c, priced, k
      <4>1. Total(fair) * 2 * (Size(xs) + 1)
              <= One * (Total(share) + IF far = priced THEN 0 ELSE 2 * (Size(xs) + 1))
                 + 2 * (Size(xs) + 1) * Cardinality(far)
        BY <3>6, <3>7 DEF LadderBound
      <4>2. QED
        BY <4>1 DEF fair, share, far, priced
  <2>6. QED
    BY <2>4, <2>5
<1>2. QED
  BY <1>1, ScanAlways, PTL
=============================================================================
