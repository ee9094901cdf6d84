----------------------------- MODULE Sums_proofs -----------------------------
(***************************************************************************)
(* Lemmas about sums over finite sets: how a sum changes with one element, *)
(* how it grows with its set, and between what bounds it stays.            *)
(***************************************************************************)
EXTENDS Sums, FiniteSetTheorems, TLAPS

\* f gives each element of S a natural number.
NatOn(f, S) == \A x \in S : f[x] \in Nat

LEMMA IntervalSize ==
  ASSUME NEW n \in Nat
  PROVE  IsFiniteSet(1..n) /\ Cardinality(1..n) = n
<1>1. IsFiniteSet(1..n) /\ Cardinality(1..n) = IF 1 > n THEN 0 ELSE n - 1 + 1
  BY FS_Interval
<1>2. QED
  BY <1>1

LEMMA UnitsFinite ==
  ASSUME NEW f, NEW S, IsFiniteSet(S), NatOn(f, S)
  PROVE  IsFiniteSet(Units(f, S))
<1> DEFINE block == [x \in S |-> {x} \X (1..f[x])]
           blocks == {{x} \X (1..f[x]) : x \in S}
<1>1. IsFiniteSet(blocks)
  <2>1. block \in Surjection(S, blocks)
    BY DEF Surjection
  <2>2. QED
    BY <2>1, FS_Surjection
<1>2. \A B \in blocks : IsFiniteSet(B)
  <2>1. SUFFICES ASSUME NEW x \in S PROVE IsFiniteSet({x} \X (1..f[x]))
    OBVIOUS
  <2>2. IsFiniteSet({x})
    BY FS_Singleton
  <2>3. IsFiniteSet(1..f[x])
    BY FS_Interval DEF NatOn
  <2>4. QED
    BY <2>2, <2>3, FS_Product
<1>3. IsFiniteSet(UNION blocks)
  BY <1>1, <1>2, FS_UNION
<1>4. QED
  BY <1>3 DEF Units

\* A unit is an element and a number up to what it counts for.
LEMMA UnitsElement ==
  ASSUME NEW f, NEW S
  PROVE  \A u : u \in Units(f, S) <=> \E x \in S : \E i \in 1..f[x] : u = <<x, i>>
  BY DEF Units

LEMMA SumType ==
  ASSUME NEW f, NEW S, IsFiniteSet(S), NatOn(f, S)
  PROVE  SumOf(f, S) \in Nat
  BY UnitsFinite, FS_CardinalityType DEF SumOf

\* The sum over nothing, and over one element.
LEMMA SumEmpty ==
  ASSUME NEW f
  PROVE  SumOf(f, {}) = 0
<1>1. Units(f, {}) = {}
  BY DEF Units
<1>2. QED
  BY <1>1, FS_EmptySet DEF SumOf

LEMMA SumSingle ==
  ASSUME NEW f, NEW x, f[x] \in Nat
  PROVE  SumOf(f, {x}) = f[x]
<1>1. Units(f, {x}) = {x} \X (1..f[x])
  BY DEF Units
<1>2. IsFiniteSet({x}) /\ Cardinality({x}) = 1
  BY FS_Singleton
<1>3. IsFiniteSet(1..f[x]) /\ Cardinality(1..f[x]) = f[x]
  BY IntervalSize
<1>4. Cardinality({x} \X (1..f[x])) = Cardinality({x}) * Cardinality(1..f[x])
  BY <1>2, <1>3, FS_Product
<1>5. Cardinality({x} \X (1..f[x])) = f[x]
  BY <1>2, <1>3, <1>4
<1>6. QED
  BY <1>1, <1>5 DEF SumOf

\* Equal summands, equal sums.
LEMMA SumSame ==
  ASSUME NEW f, NEW g, NEW S, \A x \in S : f[x] = g[x]
  PROVE  SumOf(f, S) = SumOf(g, S)
<1>1. Units(f, S) = Units(g, S)
  BY DEF Units
<1>2. QED
  BY <1>1 DEF SumOf

\* The sum over two sets without a common element.
LEMMA SumUnion ==
  ASSUME NEW f, NEW S, NEW T, IsFiniteSet(S), IsFiniteSet(T), S \cap T = {},
         NatOn(f, S), NatOn(f, T)
  PROVE  SumOf(f, S \cup T) = SumOf(f, S) + SumOf(f, T)
<1>1. Units(f, S \cup T) = Units(f, S) \cup Units(f, T)
  BY DEF Units
<1>2. Units(f, S) \cap Units(f, T) = {}
  BY UnitsElement
<1>3. IsFiniteSet(Units(f, S)) /\ IsFiniteSet(Units(f, T))
  BY UnitsFinite
<1>4. /\ Cardinality(Units(f, S)) \in Nat /\ Cardinality(Units(f, T)) \in Nat
  BY <1>3, FS_CardinalityType
<1>5. Cardinality(Units(f, S) \cap Units(f, T)) = 0
  BY <1>2, FS_EmptySet
<1>6. Cardinality(Units(f, S) \cup Units(f, T)) =
        Cardinality(Units(f, S)) + Cardinality(Units(f, T))
          - Cardinality(Units(f, S) \cap Units(f, T))
  BY <1>3, FS_Union
<1> DEFINE a == Cardinality(Units(f, S))
           b == Cardinality(Units(f, T))
<1>7. a + b - 0 = a + b
  <2> HIDE DEF a, b
  <2>1. a \in Nat /\ b \in Nat
    BY <1>4 DEF a, b
  <2>2. QED
    BY <2>1
<1>8. QED
  BY <1>1, <1>5, <1>6, <1>7 DEF SumOf

\* Where each element of S has an element of its own in T that counts for as
\* much or more, the sum over S is at most that over T.
LEMMA SumInjection ==
  ASSUME NEW f, NEW g, NEW S, NEW T, NEW h \in [S -> T], IsFiniteSet(T),
         NatOn(f, S), NatOn(g, T),
         \A x, y \in S : h[x] = h[y] => x = y,
         \A x \in S : f[x] <= g[h[x]]
  PROVE  /\ IsFiniteSet(S)
         /\ SumOf(f, S) <= SumOf(g, T)
<1> DEFINE move == [u \in Units(f, S) |-> <<h[u[1]], u[2]>>]
<1>1. move \in [Units(f, S) -> Units(g, T)]
  <2>1. SUFFICES ASSUME NEW u \in Units(f, S) PROVE <<h[u[1]], u[2]>> \in Units(g, T)
    OBVIOUS
  <2>2. PICK x \in S : \E i \in 1..f[x] : u = <<x, i>>
    BY UnitsElement
  <2>3. PICK i \in 1..f[x] : u = <<x, i>>
    BY <2>2
  <2>4. h[x] \in T /\ i \in 1..g[h[x]]
    BY DEF NatOn
  <2>5. QED
    BY <2>3, <2>4, UnitsElement
<1>2. ASSUME NEW u \in Units(f, S), NEW v \in Units(f, S), move[u] = move[v]
      PROVE  u = v
  <2>1. PICK x \in S : \E i \in 1..f[x] : u = <<x, i>>
    BY UnitsElement
  <2>2. PICK i \in 1..f[x] : u = <<x, i>>
    BY <2>1
  <2>3. PICK y \in S : \E j \in 1..f[y] : v = <<y, j>>
    BY UnitsElement
  <2>4. PICK j \in 1..f[y] : v = <<y, j>>
    BY <2>3
  <2>5. h[x] = h[y] /\ i = j
    BY <1>2, <2>2, <2>4
  <2>6. QED
    BY <2>2, <2>4, <2>5
<1>3. move \in Injection(Units(f, S), Units(g, T))
  BY <1>1, <1>2 DEF Injection, IsInjective
<1>4. IsFiniteSet(Units(g, T))
  BY UnitsFinite
<1>5. SumOf(f, S) <= SumOf(g, T)
  BY <1>3, <1>4, FS_Injection DEF SumOf
<1>6. h \in Injection(S, T)
  BY DEF Injection, IsInjective
<1>7. IsFiniteSet(S)
  BY <1>6, FS_Injection
<1>8. QED
  BY <1>5, <1>7

LEMMA SumMonotone ==
  ASSUME NEW f, NEW g, NEW S, NEW T, S \subseteq T, IsFiniteSet(T),
         NatOn(f, S), NatOn(g, T), \A x \in S : f[x] <= g[x]
  PROVE  SumOf(f, S) <= SumOf(g, T)
<1> DEFINE h == [x \in S |-> x]
<1>1. h \in [S -> T]
  OBVIOUS
<1>2. (\A x, y \in S : h[x] = h[y] => x = y) /\ (\A x \in S : f[x] <= g[h[x]])
  OBVIOUS
<1> HIDE DEF h
<1>3. QED
  BY <1>1, <1>2, SumInjection

\* One element more.
LEMMA SumAdd ==
  ASSUME NEW f, NEW S, NEW x, IsFiniteSet(S), x \notin S, NatOn(f, S), f[x] \in Nat
  PROVE  SumOf(f, S \cup {x}) = SumOf(f, S) + f[x]
<1>1. IsFiniteSet({x}) /\ S \cap {x} = {} /\ NatOn(f, {x})
  BY FS_Singleton DEF NatOn
<1>2. SumOf(f, S \cup {x}) = SumOf(f, S) + SumOf(f, {x})
  BY <1>1, SumUnion
<1>3. QED
  BY <1>2, SumSingle

\* Summands that differ at one element only.
LEMMA SumUpdate ==
  ASSUME NEW f, NEW g, NEW S, NEW a \in S, IsFiniteSet(S), NatOn(f, S), NatOn(g, S),
         \A x \in S \ {a} : f[x] = g[x]
  PROVE  SumOf(g, S) = SumOf(f, S) - f[a] + g[a]
<1> DEFINE R == S \ {a}
<1>1. IsFiniteSet(R) /\ a \notin R /\ S = R \cup {a} /\ NatOn(f, R) /\ NatOn(g, R)
  BY FS_RemoveElement DEF NatOn
<1>2. f[a] \in Nat /\ g[a] \in Nat
  BY DEF NatOn
<1>3. SumOf(f, R) = SumOf(g, R)
  BY SumSame
<1> HIDE DEF R
<1>4. /\ SumOf(f, S) = SumOf(f, R) + f[a]
      /\ SumOf(g, S) = SumOf(g, R) + g[a]
  BY <1>1, <1>2, SumAdd
<1>5. SumOf(f, R) \in Nat
  BY <1>1, SumType
<1>6. QED
  BY <1>2, <1>3, <1>4, <1>5

\* A sum of numbers between m and n.
LEMMA SumBetween ==
  ASSUME NEW f, NEW S, IsFiniteSet(S), NatOn(f, S), NEW m \in Nat, NEW n \in Nat,
         \A x \in S : m <= f[x] /\ f[x] <= n
  PROVE  Cardinality(S) * m <= SumOf(f, S) /\ SumOf(f, S) <= Cardinality(S) * n
<1>1. /\ IsFiniteSet(1..m) /\ Cardinality(1..m) = m
      /\ IsFiniteSet(1..n) /\ Cardinality(1..n) = n
  BY IntervalSize
<1>2. /\ IsFiniteSet(S \X (1..m)) /\ Cardinality(S \X (1..m)) = Cardinality(S) * m
      /\ IsFiniteSet(S \X (1..n)) /\ Cardinality(S \X (1..n)) = Cardinality(S) * n
  <2>1. /\ IsFiniteSet(S \X (1..m))
        /\ Cardinality(S \X (1..m)) = Cardinality(S) * Cardinality(1..m)
    BY <1>1, FS_Product
  <2>2. /\ IsFiniteSet(S \X (1..n))
        /\ Cardinality(S \X (1..n)) = Cardinality(S) * Cardinality(1..n)
    BY <1>1, FS_Product
  <2>3. QED
    BY <1>1, <2>1, <2>2
<1>3. S \X (1..m) \subseteq Units(f, S)
  BY UnitsElement DEF NatOn
<1>4. Units(f, S) \subseteq S \X (1..n)
  BY UnitsElement DEF NatOn
<1>5. IsFiniteSet(Units(f, S))
  BY UnitsFinite
<1>6. QED
  BY <1>2, <1>3, <1>4, <1>5, FS_Subset DEF SumOf

\* One element gives what the other side of the balance takes.
LEMMA SumTrade ==
  ASSUME NEW f, NEW g, NEW S, IsFiniteSet(S), NatOn(f, S), NatOn(g, S), NEW a \in S,
         \A x \in S \ {a} : f[x] = g[x],
         NEW m \in Nat, NEW n \in Nat, n + g[a] <= m + f[a]
  PROVE  n + SumOf(g, S) <= m + SumOf(f, S)
<1>1. f[a] \in Nat /\ g[a] \in Nat
  BY DEF NatOn
<1>2. SumOf(g, S) = SumOf(f, S) - f[a] + g[a]
  BY SumUpdate
<1>3. SumOf(f, S) \in Nat
  BY SumType
<1>4. QED
  BY <1>1, <1>2, <1>3

\* An element that had nothing takes what is left of c beside b: while none has
\* more than c, b and the sum stay within c for each element.
LEMMA SumRefill ==
  ASSUME NEW f, NEW g, NEW S, IsFiniteSet(S), NatOn(f, S), NatOn(g, S), NEW a \in S,
         \A x \in S \ {a} : f[x] = g[x],
         NEW c \in Nat, \A x \in S : f[x] <= c, f[a] = 0,
         NEW b \in Nat, g[a] = IF b < c THEN c - b ELSE 0,
         b + SumOf(f, S) <= Cardinality(S) * c
  PROVE  b + SumOf(g, S) <= Cardinality(S) * c
<1> DEFINE R == S \ {a}
           n == Cardinality(S)
           s == SumOf(f, R)
<1>1. /\ IsFiniteSet(R) /\ Cardinality(R) = n - 1 /\ n \in Nat
      /\ a \notin R /\ S = R \cup {a} /\ NatOn(f, R) /\ NatOn(g, R)
  BY FS_RemoveElement, FS_CardinalityType DEF NatOn
<1>2. SumOf(g, R) = s
  BY SumSame
<1>3. s \in Nat /\ s <= (n - 1) * c
  <2>1. s \in Nat
    BY <1>1, SumType
  <2>2. \A x \in R : 0 <= f[x] /\ f[x] <= c
    BY DEF NatOn
  <2>3. s <= Cardinality(R) * c
    BY <1>1, <2>2, SumBetween
  <2>4. QED
    BY <1>1, <2>1, <2>3
<1>4. f[a] \in Nat /\ g[a] \in Nat
  BY DEF NatOn
<1> HIDE DEF R, n, s
<1>5. SumOf(f, S) = SumOf(f, R) + f[a] /\ SumOf(g, S) = SumOf(g, R) + g[a]
  BY <1>1, <1>4, SumAdd
<1>6. SumOf(f, S) = s /\ SumOf(g, S) = s + g[a]
  BY <1>2, <1>3, <1>4, <1>5 DEF s
<1>7. (n - 1) * c = n * c - c
  BY <1>1
<1>8. b + SumOf(g, S) <= n * c
  <2>1. n * c \in Nat /\ b + s <= n * c
    BY <1>1, <1>6 DEF n
  <2>2. CASE b < c
    BY <1>3, <1>6, <1>7, <2>1, <2>2
  <2>3. CASE ~(b < c)
    BY <1>3, <1>6, <2>1, <2>3
  <2>4. QED
    BY <2>2, <2>3
<1>9. QED
  BY <1>8 DEF n

\* The lengths of intervals within 0..n of which no two overlap add up to at
\* most n: no unit of the n is in two of them.
LEMMA SumOfIntervals ==
  ASSUME NEW S, IsFiniteSet(S), NEW n \in Nat, NEW f, NEW low, NEW high,
         \A x \in S : /\ low[x] \in Nat /\ high[x] \in Nat /\ f[x] \in Nat
                      /\ high[x] <= n /\ f[x] = high[x] - low[x],
         \A x, y \in S : x = y \/ high[x] <= low[y] \/ high[y] <= low[x]
  PROVE  SumOf(f, S) <= n
<1> DEFINE place == [u \in Units(f, S) |-> low[u[1]] + u[2]]
<1>1. \A u \in Units(f, S) :
        \E x \in S : \E i \in 1..f[x] : u = <<x, i>> /\ place[u] = low[x] + i
  BY UnitsElement
<1> HIDE DEF place
<1>2. ASSUME NEW x \in S, NEW i \in 1..f[x]
      PROVE  low[x] < low[x] + i /\ low[x] + i <= high[x] /\ low[x] + i \in 1..n
  OBVIOUS
<1>3. place \in [Units(f, S) -> 1..n]
  <2>1. \A u \in Units(f, S) : place[u] \in 1..n
    BY <1>1, <1>2
  <2>2. QED
    BY <2>1 DEF place
<1>4. ASSUME NEW u \in Units(f, S), NEW v \in Units(f, S), place[u] = place[v]
      PROVE  u = v
  <2>1. PICK x \in S : \E i \in 1..f[x] : u = <<x, i>> /\ place[u] = low[x] + i
    BY <1>1
  <2>2. PICK y \in S : \E j \in 1..f[y] : v = <<y, j>> /\ place[v] = low[y] + j
    BY <1>1
  <2>3. PICK i \in 1..f[x] : u = <<x, i>> /\ place[u] = low[x] + i
    BY <2>1
  <2>4. PICK j \in 1..f[y] : v = <<y, j>> /\ place[v] = low[y] + j
    BY <2>2
  <2>5. /\ low[x] < low[x] + i /\ low[x] + i <= high[x] /\ low[x] + i \in Int
        /\ low[y] < low[y] + j /\ low[y] + j <= high[y] /\ low[x] + i = low[y] + j
    BY <1>2, <1>4, <2>3, <2>4
  <2>6. x = y
    BY <2>5
  <2>7. i = j
    BY <2>5, <2>6
  <2>8. QED
    BY <2>3, <2>4, <2>6, <2>7
<1>5. place \in Injection(Units(f, S), 1..n)
  BY <1>3, <1>4 DEF Injection, IsInjective
<1>6. IsFiniteSet(1..n) /\ Cardinality(1..n) = n
  BY IntervalSize
<1>7. QED
  BY <1>5, <1>6, FS_Injection DEF SumOf
==============================================================================
