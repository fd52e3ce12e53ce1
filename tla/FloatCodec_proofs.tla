-------------------------- MODULE FloatCodec_proofs ---------------------------
(***************************************************************************)
(* What becomes of a float in a word and back: proofs for every format     *)
(* that fits.                                                              *)
(***************************************************************************)
EXTENDS FloatCodec, Integers, FiniteSets, FiniteSetTheorems, TLAPS

-----------------------------------------------------------------------------
(***************************************************************************)
(* Induction over the natural numbers.  It is stated of sets, and          *)
(* recursion of functions, for the provers to instantiate: with S the set  *)
(* of numbers that have a property, and G the function that takes a        *)
(* recursion one step further.                                             *)
(***************************************************************************)
\* Below a number that S lacks, the successor would map what S has into itself,
\* one to one, and never to 0.
LEMMA Induction ==
  ASSUME NEW S, 0 \in S, \A n \in Nat : n \in S => n + 1 \in S
  PROVE  Nat \subseteq S
<1> SUFFICES ASSUME NEW n \in Nat, n \notin S PROVE FALSE
  OBVIOUS
<1> DEFINE B == (0 .. n) \cap S
           f == [x \in B |-> x + 1]
<1>1. IsFiniteSet(B)
  <2>1. B \in SUBSET (0 .. n)
    OBVIOUS
  <2>2. IsFiniteSet(0 .. n)
    BY FS_Interval
  <2> QED BY <2>1, <2>2, FS_Subset
<1>2. f \in Injection(B, B \ {0})
  <2>1. \A x \in B : x \in 0 .. n /\ x \in S /\ x # n
    OBVIOUS
  <2>2. \A x \in B : x + 1 \in B \ {0}
    BY <2>1
  <2>3. \A x, y \in B : x + 1 = y + 1 => x = y
    BY <2>1
  <2> HIDE DEF B
  <2>4. f \in [B -> B \ {0}]
    BY <2>2
  <2> QED BY <2>3, <2>4 DEF Injection, IsInjective
<1>3. 0 \in B
  OBVIOUS
<1> HIDE DEF B, f
<1>4. IsFiniteSet(B \ {0}) /\ Cardinality(B \ {0}) = Cardinality(B) - 1
  BY <1>1, <1>3, FS_RemoveElement
<1>5. Cardinality(B) <= Cardinality(B \ {0})
  BY <1>2, <1>4, FS_Injection
<1> QED BY <1>1, <1>4, <1>5, FS_CardinalityType

LEMMA InductionUpto ==
  ASSUME NEW N \in Nat, NEW S, 0 \in S, \A n \in 1 .. N : n - 1 \in S => n \in S
  PROVE  0 .. N \subseteq S
<1> DEFINE T == {n \in Nat : n <= N => n \in S}
<1>1. 0 \in T
  OBVIOUS
<1>2. \A n \in Nat : n \in T => n + 1 \in T
  <2> SUFFICES ASSUME NEW n \in Nat, n \in T, n + 1 <= N PROVE n + 1 \in S
    OBVIOUS
  <2>1. n \in S /\ n + 1 \in 1 .. N /\ (n + 1) - 1 = n
    OBVIOUS
  <2> QED BY <2>1
<1>3. Nat \subseteq T
  <2> HIDE DEF T
  <2> QED BY <1>1, <1>2, Induction
<1> QED BY <1>3

-----------------------------------------------------------------------------
(***************************************************************************)
(* Powers of two, by counting subsets.                                     *)
(***************************************************************************)
LEMMA Subsets ==
  ASSUME NEW n \in Nat
  PROVE  /\ IsFiniteSet(1 .. n) /\ Cardinality(1 .. n) = n
         /\ IsFiniteSet(SUBSET (1 .. n)) /\ Cardinality(SUBSET (1 .. n)) = 2 ^ n
<1>1. IsFiniteSet(1 .. n) /\ Cardinality(1 .. n) = n
  BY FS_Interval
<1> QED BY <1>1, FS_SUBSET

LEMMA PowerType ==
  ASSUME NEW n \in Nat PROVE 2 ^ n \in Nat \ {0}
<1>1. IsFiniteSet(SUBSET (1 .. n)) /\ Cardinality(SUBSET (1 .. n)) = 2 ^ n
  BY Subsets
<1>2. 2 ^ n \in Nat
  BY <1>1, FS_CardinalityType
<1>3. SUBSET (1 .. n) # {}
  <2>1. {} \in SUBSET (1 .. n)
    OBVIOUS
  <2> QED BY <2>1
<1>4. 2 ^ n # 0
  BY <1>1, <1>3, FS_EmptySet
<1> QED BY <1>2, <1>4

\* A subset of a union of disjoint sets is a subset of each.
LEMMA PowerSum ==
  ASSUME NEW m \in Nat, NEW n \in Nat PROVE 2 ^ (m + n) = 2 ^ m * 2 ^ n
<1> DEFINE A == 1 .. m
           B == (m + 1) .. (m + n)
           SA == SUBSET A
           SB == SUBSET B
           SAB == SUBSET (A \cup B)
           f == [p \in SA \X SB |-> p[1] \cup p[2]]
<1>1. IsFiniteSet(SUBSET A) /\ Cardinality(SUBSET A) = 2 ^ m
  BY Subsets
<1>2. IsFiniteSet(SUBSET B) /\ Cardinality(SUBSET B) = 2 ^ n
  <2>1. IsFiniteSet(B) /\ Cardinality(B) = n
    BY FS_Interval
  <2> QED BY <2>1, FS_SUBSET
<1>3. A \cup B = 1 .. (m + n) /\ A \cap B = {}
  OBVIOUS
<1> HIDE DEF A, B
<1>0. \A p \in SA \X SB : p = <<p[1], p[2]>> /\ p[1] \subseteq A /\ p[2] \subseteq B
  OBVIOUS
<1>11. \A t \in SAB : t \cap A \in SA /\ t \cap B \in SB /\ (t \cap A) \cup (t \cap B) = t
  OBVIOUS
<1>12. \A p \in SA \X SB : p[1] \cup p[2] \in SAB
  BY <1>0
<1>13. \A p \in SA \X SB : f[p] = p[1] \cup p[2]
  OBVIOUS
<1> HIDE DEF SA, SB, SAB
<1>4. f \in [SA \X SB -> SAB]
  BY <1>12
<1> HIDE DEF f
<1>5. \A p, q \in SA \X SB : f[p] = f[q] => p = q
  <2> SUFFICES ASSUME NEW p \in SA \X SB, NEW q \in SA \X SB,
                      p[1] \cup p[2] = q[1] \cup q[2]
               PROVE  p = q
    BY <1>13
  <2>1. p[1] \subseteq A /\ p[2] \subseteq B /\ q[1] \subseteq A /\ q[2] \subseteq B
    BY <1>0
  <2>2. p[1] = q[1]
    <3>1. \A x : x \in p[1] <=> x \in q[1]
      BY <1>3, <2>1
    <3> QED BY <3>1
  <2>3. p[2] = q[2]
    <3>1. \A x : x \in p[2] <=> x \in q[2]
      BY <1>3, <2>1
    <3> QED BY <3>1
  <2> QED BY <1>0, <2>2, <2>3
<1>6. \A t \in SAB : \E p \in SA \X SB : f[p] = t
  <2> TAKE t \in SAB
  <2>1. <<t \cap A, t \cap B>> \in SA \X SB
    BY <1>11
  <2>2. f[<<t \cap A, t \cap B>>] = t
    BY <1>11, <1>13, <2>1
  <2> QED BY <2>1, <2>2
<1>7. ExistsBijection(SA \X SB, SAB)
  <2>1. f \in Injection(SA \X SB, SAB)
    BY <1>4, <1>5 DEF Injection, IsInjective
  <2>2. f \in Surjection(SA \X SB, SAB)
    BY <1>4, <1>6 DEF Surjection
  <2> QED BY <2>1, <2>2 DEF ExistsBijection, Bijection
<1>8. /\ IsFiniteSet(SA \X SB)
      /\ Cardinality(SA \X SB) = 2 ^ m * 2 ^ n
  <2>1. IsFiniteSet(SA) /\ Cardinality(SA) = 2 ^ m
    BY <1>1 DEF SA
  <2>2. IsFiniteSet(SB) /\ Cardinality(SB) = 2 ^ n
    BY <1>2 DEF SB
  <2> QED BY <2>1, <2>2, FS_Product
<1>9. Cardinality(SAB) = 2 ^ m * 2 ^ n
  BY <1>7, <1>8, FS_Bijection
<1>10. Cardinality(SAB) = 2 ^ (m + n)
  <2>1. m + n \in Nat
    OBVIOUS
  <2> QED BY <1>3, <2>1, Subsets DEF SAB
<1> QED BY <1>9, <1>10

LEMMA PowerOne == 2 ^ 0 = 1 /\ 2 ^ 1 = 2 /\ \A n \in Nat : 2 ^ (n + 1) = 2 * 2 ^ n
<1>1. 2 ^ 0 = 1 /\ 2 ^ 1 = 2
  OBVIOUS
<1>2. ASSUME NEW n \in Nat PROVE 2 ^ (n + 1) = 2 * 2 ^ n
  <2>1. 2 ^ (n + 1) = 2 ^ n * 2 ^ 1
    BY PowerSum
  <2>2. 2 ^ n \in Nat
    BY PowerType
  <2> QED BY <1>1, <2>1, <2>2
<1> QED BY <1>1, <1>2

-----------------------------------------------------------------------------
(***************************************************************************)
(* Recursive functions.                                                    *)
(***************************************************************************)
\* f is defined by recursion on the natural numbers, or on those up to N.
Recursive(f, a, G) == f[0] = a /\ \A n \in Nat : f[n + 1] = G[<<n, f[n]>>]
RecursiveUpto(N, f, a, G) == f[0] = a /\ \A n \in 1 .. N : f[n] = G[<<n, f[n - 1]>>]

\* The finite functions that obey the recursion up to n agree with each other.
LEMMA Recursion ==
  ASSUME NEW V, NEW a \in V, NEW G \in [Nat \X V -> V]
  PROVE  \E f \in [Nat -> V] : Recursive(f, a, G)
<1> DEFINE Upto(n, h) == h[0] = a /\ \A i \in 0 .. (n - 1) : h[i + 1] = G[<<i, h[i]>>]
           S == {n \in Nat : \E h \in [0 .. n -> V] : Upto(n, h)}
<1>1. 0 \in S
  <2> DEFINE h == [i \in 0 .. 0 |-> a]
  <2>1. h \in [0 .. 0 -> V] /\ h[0] = a
    OBVIOUS
  <2>2. 0 .. (0 - 1) = {}
    OBVIOUS
  <2> HIDE DEF h
  <2> QED BY <2>1, <2>2
<1>2. \A n \in Nat : n \in S => n + 1 \in S
  <2> SUFFICES ASSUME NEW n \in Nat, n \in S PROVE n + 1 \in S
    OBVIOUS
  <2>1. PICK h \in [0 .. n -> V] : Upto(n, h)
    OBVIOUS
  <2> DEFINE g == [i \in 0 .. (n + 1) |-> IF i = n + 1 THEN G[<<n, h[n]>>] ELSE h[i]]
  <2>2. G[<<n, h[n]>>] \in V
    OBVIOUS
  <2>3. \A i \in 0 .. (n + 1) : i # n + 1 => i \in 0 .. n
    OBVIOUS
  <2>4. g \in [0 .. (n + 1) -> V]
    BY <2>2, <2>3
  <2>5. \A i \in 0 .. n : g[i] = h[i]
    OBVIOUS
  <2>6. g[0] = a
    BY <2>1, <2>5
  <2>7. g[n + 1] = G[<<n, h[n]>>]
    OBVIOUS
  <2> HIDE DEF g
  <2>8. \A i \in 0 .. n : g[i + 1] = G[<<i, g[i]>>]
    <3> TAKE i \in 0 .. n
    <3>1. CASE i = n
      BY <3>1, <2>5, <2>7
    <3>2. CASE i # n
      <4>1. i \in 0 .. (n - 1) /\ i + 1 \in 0 .. n
        BY <3>2
      <4>2. h[i + 1] = G[<<i, h[i]>>]
        BY <4>1, <2>1
      <4>3. g[i + 1] = h[i + 1] /\ g[i] = h[i]
        BY <4>1, <2>5
      <4> QED BY <4>2, <4>3
    <3> QED BY <3>1, <3>2
  <2>9. (n + 1) - 1 = n
    OBVIOUS
  <2>10. Upto(n + 1, g)
    BY <2>6, <2>8, <2>9
  <2> HIDE DEF Upto
  <2>11. \E f \in [0 .. (n + 1) -> V] : Upto(n + 1, f)
    BY <2>4, <2>10
  <2> QED BY <2>11
<1>3. \A n \in Nat : \E h \in [0 .. n -> V] : Upto(n, h)
  <2> HIDE DEF Upto
  <2>1. Nat \subseteq S
    <3> HIDE DEF S
    <3> QED BY <1>1, <1>2, Induction
  <2> QED BY <2>1
<1> DEFINE H == [n \in Nat |-> CHOOSE h \in [0 .. n -> V] : Upto(n, h)]
<1>4. \A n \in Nat : H[n] \in [0 .. n -> V] /\ Upto(n, H[n])
  <2> HIDE DEF Upto
  <2> QED BY <1>3, Zenon
<1> HIDE DEF H
<1>5. ASSUME NEW n \in Nat PROVE \A i \in 0 .. n : H[n + 1][i] = H[n][i]
  <2> DEFINE T == {i \in Nat : i <= n => H[n + 1][i] = H[n][i]}
  <2>1. 0 \in T
    BY <1>4
  <2>2. \A i \in Nat : i \in T => i + 1 \in T
    <3> SUFFICES ASSUME NEW i \in Nat, i \in T, i + 1 <= n
                 PROVE  H[n + 1][i + 1] = H[n][i + 1]
      OBVIOUS
    <3>1. H[n + 1][i] = H[n][i]
      OBVIOUS
    <3>2. i \in 0 .. (n - 1) /\ i \in 0 .. ((n + 1) - 1)
      OBVIOUS
    <3>3. n + 1 \in Nat
      OBVIOUS
    <3>4. H[n + 1][i + 1] = G[<<i, H[n + 1][i]>>]
      BY <1>4, <3>2, <3>3
    <3>5. H[n][i + 1] = G[<<i, H[n][i]>>]
      BY <1>4, <3>2
    <3> QED BY <3>1, <3>4, <3>5
  <2>3. Nat \subseteq T
    <3> HIDE DEF T
    <3> QED BY <2>1, <2>2, Induction
  <2> QED BY <2>3
<1> DEFINE f == [n \in Nat |-> H[n][n]]
<1>6. f \in [Nat -> V] /\ f[0] = a
  BY <1>4
<1>7. ASSUME NEW n \in Nat PROVE f[n + 1] = G[<<n, f[n]>>]
  <2>1. n + 1 \in Nat /\ n \in 0 .. ((n + 1) - 1) /\ n \in 0 .. n
    OBVIOUS
  <2>2. H[n + 1][n + 1] = G[<<n, H[n + 1][n]>>]
    BY <1>4, <2>1
  <2>3. H[n + 1][n] = H[n][n]
    BY <1>5, <2>1
  <2> QED BY <2>1, <2>2, <2>3
<1> HIDE DEF f
<1> QED BY <1>6, <1>7 DEF Recursive

LEMMA RecursionUpto ==
  ASSUME NEW N \in Nat, NEW V, NEW a \in V, NEW G \in [(1 .. N) \X V -> V]
  PROVE  \E f \in [0 .. N -> V] : RecursiveUpto(N, f, a, G)
<1> DEFINE H == [p \in Nat \X V |-> IF p[1] < N THEN G[<<p[1] + 1, p[2]>>] ELSE a]
<1>1. H \in [Nat \X V -> V]
  <2>1. ASSUME NEW p \in Nat \X V, p[1] < N PROVE G[<<p[1] + 1, p[2]>>] \in V
    <3>1. <<p[1] + 1, p[2]>> \in (1 .. N) \X V
      BY <2>1
    <3> QED BY <3>1
  <2> QED BY <2>1
<1>2. \A n \in Nat, v \in V : n < N => H[<<n, v>>] = G[<<n + 1, v>>]
  OBVIOUS
<1> HIDE DEF H
<1>3. PICK g \in [Nat -> V] : Recursive(g, a, H)
  BY <1>1, Recursion
<1> DEFINE f == [n \in 0 .. N |-> g[n]]
<1>4. f \in [0 .. N -> V] /\ f[0] = a
  BY <1>3 DEF Recursive
<1>5. ASSUME NEW n \in 1 .. N PROVE f[n] = G[<<n, f[n - 1]>>]
  <2>1. n - 1 \in Nat /\ n - 1 < N /\ (n - 1) + 1 = n /\ n - 1 \in 0 .. N /\ n \in 0 .. N
    OBVIOUS
  <2>2. g[(n - 1) + 1] = H[<<n - 1, g[n - 1]>>]
    BY <1>3, <2>1 DEF Recursive
  <2>3. H[<<n - 1, g[n - 1]>>] = G[<<(n - 1) + 1, g[n - 1]>>]
    BY <1>2, <2>1
  <2> QED BY <2>1, <2>2, <2>3
<1> HIDE DEF f
<1> QED BY <1>4, <1>5 DEF RecursiveUpto

\* F takes a function over numbers one step further, and makes each value out
\* of those of smaller numbers alone.
Descending(S, V, F) ==
  /\ F \in [[S -> V] -> [S -> V]]
  /\ \A n \in S, p, q \in [S -> V] :
       (\A m \in S : m < n => p[m] = q[m]) => F[p][n] = F[q][n]

LEMMA StrongRecursion ==
  ASSUME NEW S \in SUBSET Nat, NEW V, V # {}, NEW F, Descending(S, V, F)
  PROVE  \E f \in [S -> V] : f = F[f]
<1>v. PICK v \in V : TRUE
  OBVIOUS
<1> DEFINE Fs == [S -> V]
           g == [n \in S |-> v]
           G == [p \in Nat \X Fs |-> F[p[2]]]
<1>1. G \in [Nat \X Fs -> Fs]
  BY DEF Descending
<1>2. PICK h \in [Nat -> Fs] : h[0] = g /\ \A n \in Nat : h[n + 1] = G[<<n, h[n]>>]
  <2>1. g \in Fs
    OBVIOUS
  <2> HIDE DEF G, Fs, g
  <2>2. \E h \in [Nat -> Fs] : Recursive(h, g, G)
    BY <1>1, <2>1, Recursion
  <2> QED BY <2>2 DEF Recursive
<1>3. \A k \in Nat : h[k] \in Fs /\ h[k + 1] = F[h[k]]
  BY <1>2
<1> DEFINE f == [n \in S |-> h[n + 1][n]]
           Same == {k \in Nat : \A n \in S : n < k => h[k + 1][n] = h[k][n]}
           Got == {k \in Nat : \A n \in S : n < k => h[k][n] = f[n]}
<1>4. Nat \subseteq Same
  <2>1. 0 \in Same
    OBVIOUS
  <2>2. ASSUME NEW k \in Nat, k \in Same PROVE k + 1 \in Same
    <3>1. ASSUME NEW n \in S, n < k + 1 PROVE h[(k + 1) + 1][n] = h[k + 1][n]
      <4>1. \A m \in S : m < n => h[k + 1][m] = h[k][m]
        BY <2>2, <3>1
      <4>2. h[k + 1] \in [S -> V] /\ h[k] \in [S -> V]
        BY <1>3
      <4>3. F[h[k + 1]][n] = F[h[k]][n]
        BY <4>1, <4>2 DEF Descending
      <4>4. h[(k + 1) + 1] = F[h[k + 1]] /\ h[k + 1] = F[h[k]]
        BY <1>3
      <4> QED BY <4>3, <4>4
    <3> QED BY <3>1
  <2> HIDE DEF Same
  <2> QED BY <2>1, <2>2, Induction
<1>5. Nat \subseteq Got
  <2>1. 0 \in Got
    OBVIOUS
  <2>2. ASSUME NEW k \in Nat, k \in Got PROVE k + 1 \in Got
    <3>1. ASSUME NEW n \in S, n < k + 1 PROVE h[k + 1][n] = f[n]
      <4>1. CASE n = k
        BY <4>1
      <4>2. CASE n < k
        <5>1. h[k + 1][n] = h[k][n]
          BY <1>4, <4>2
        <5> QED BY <2>2, <4>2, <5>1
      <4> QED BY <3>1, <4>1, <4>2
    <3> QED BY <3>1
  <2> HIDE DEF Got
  <2> QED BY <2>1, <2>2, Induction
<1>6. f \in [S -> V]
  BY <1>3
<1>7. ASSUME NEW n \in S PROVE f[n] = F[f][n]
  <2>1. h[n] \in [S -> V] /\ h[n + 1] = F[h[n]]
    BY <1>3
  <2>2. \A m \in S : m < n => h[n][m] = f[m]
    BY <1>5
  <2>3. F[h[n]][n] = F[f][n]
    <3> HIDE DEF f
    <3> QED BY <1>6, <2>1, <2>2 DEF Descending
  <2> QED BY <2>1, <2>3
<1>8. f = F[f]
  <2>1. F[f] \in [S -> V]
    BY <1>6 DEF Descending
  <2>2. f = [n \in S |-> f[n]] /\ F[f] = [n \in S |-> F[f][n]]
    <3> HIDE DEF f
    <3> QED BY <1>6, <2>1
  <2> HIDE DEF f
  <2> QED BY <1>7, <2>1, <2>2, <1>6
<1> QED BY <1>6, <1>8

LEMMA StrongInduction ==
  ASSUME NEW S, \A n \in Nat : (\A m \in Nat : m < n => m \in S) => n \in S
  PROVE  Nat \subseteq S
<1> DEFINE T == {n \in Nat : \A m \in Nat : m < n => m \in S}
<1>1. 0 \in T
  OBVIOUS
<1>2. ASSUME NEW n \in Nat, n \in T PROVE n + 1 \in T
  <2>1. n \in S
    BY <1>2
  <2>2. \A m \in Nat : m < n + 1 => m = n \/ m < n
    OBVIOUS
  <2> QED BY <1>2, <2>1, <2>2
<1>3. Nat \subseteq T
  <2> HIDE DEF T
  <2> QED BY <1>1, <1>2, Induction
<1> QED BY <1>3

LEMMA PowerGrows ==
  ASSUME NEW m \in Nat, NEW n \in Nat, m <= n
  PROVE  /\ 2 ^ n = 2 ^ m * 2 ^ (n - m) /\ 2 ^ (n - m) \in Nat \ {0}
         /\ 2 ^ m <= 2 ^ n
         /\ m < n => 2 * 2 ^ m <= 2 ^ n
<1>1. n - m \in Nat /\ m + (n - m) = n
  OBVIOUS
<1> DEFINE a == 2 ^ m  b == 2 ^ (n - m)
<1>2. 2 ^ n = a * b
  BY <1>1, PowerSum
<1>3. a \in Nat \ {0} /\ b \in Nat \ {0}
  BY <1>1, PowerType
<1>4. m < n => b >= 2
  <2>1. ASSUME m < n PROVE b >= 2
    <3>1. n - m - 1 \in Nat /\ (n - m - 1) + 1 = n - m
      BY <2>1
    <3>2. b = 2 * 2 ^ (n - m - 1)
      BY <3>1, PowerOne
    <3>3. 2 ^ (n - m - 1) \in Nat \ {0}
      BY <3>1, PowerType
    <3> QED BY <3>2, <3>3
  <2> QED BY <2>1
<1>5. a <= a * b /\ (b >= 2 => 2 * a <= a * b)
  <2> HIDE DEF a, b
  <2>1. \A x, y \in Nat \ {0} : x <= x * y /\ (y >= 2 => 2 * x <= x * y)
    OBVIOUS
  <2> QED BY <1>3, <2>1
<1> QED BY <1>2, <1>3, <1>4, <1>5

-----------------------------------------------------------------------------
(***************************************************************************)
(* Quotients and rests.                                                    *)
(***************************************************************************)
\* A number is what a division and its rest make of it.
LEMMA Division ==
  ASSUME NEW n \in Nat, NEW d \in Nat \ {0}
  PROVE  /\ n \div d \in Nat /\ n % d \in 0 .. (d - 1) /\ n = d * (n \div d) + (n % d)
         /\ n \div d <= n /\ (d > 1 /\ n > 0 => n \div d < n)
         /\ (n < d <=> n \div d = 0) /\ (n < d => n % d = n)
OBVIOUS

\* The same, of a number made so.
LEMMA Quotients ==
  ASSUME NEW q \in Int, NEW d \in Nat \ {0}, NEW r \in 0 .. (d - 1)
  PROVE  (d * q + r) \div d = q /\ (d * q + r) % d = r
OBVIOUS

LEMMA NextDigit ==
  ASSUME NEW n \in Nat, NEW d \in Nat \ {0}, NEW e \in Nat \ {0}
  PROVE  n % (d * e) = (n % d) + d * ((n \div d) % e)
<1>1. (n \div d) \div e = n \div (d * e) /\ d * e \in Nat \ {0}
  OBVIOUS
<1> DEFINE q == n \div d  r == n % d  p == q \div e  s == q % e
<1>2. /\ q \in Nat /\ r \in 0 .. (d - 1) /\ n = d * q + r
      /\ p \in Nat /\ s \in 0 .. (e - 1) /\ q = e * p + s
  OBVIOUS
<1>3. n = (d * e) * p + (r + d * s) /\ r + d * s \in 0 .. (d * e - 1)
  <2> HIDE DEF q, r, p, s
  <2>1. d * (e * p + s) + r = (d * e) * p + (r + d * s)
    BY <1>2
  <2>2. d * s <= d * (e - 1) /\ d * s >= 0
    BY <1>2
  <2> QED BY <1>2, <2>1, <2>2
<1>4. n % (d * e) = r + d * s
  <2> DEFINE D == d * e  t == r + d * s
  <2>1. n = D * p + t /\ t \in 0 .. (D - 1) /\ D \in Nat \ {0} /\ p \in Int
    BY <1>1, <1>2, <1>3
  <2>2. n % D = t
    <3> HIDE DEF D, t, p
    <3> QED BY <2>1, Quotients
  <2> QED BY <2>2
<1> QED BY <1>4

LEMMA DividedTwice ==
  ASSUME NEW n \in Nat, NEW d \in Nat \ {0}, NEW e \in Nat \ {0}
  PROVE  (n \div d) \div e = n \div (d * e)
OBVIOUS

-----------------------------------------------------------------------------
(***************************************************************************)
(* ZigZag and ZagZig are inverse, and keep small numbers small.            *)
(***************************************************************************)
LEMMA SmallModulo ==
  ASSUME NEW m \in Nat \ {0}, NEW a \in Nat, a < m
  PROVE  a % m = a /\ (a - m) % m = a
OBVIOUS

LEMMA ZigZagValue ==
  ASSUME NEW half \in Nat \ {0}, NEW s \in (- half) .. (half - 1)
  PROVE  ZigZag(s, 2 * half) = IF s < 0 THEN - 2 * s - 1 ELSE 2 * s
<1> DEFINE m == 2 * half
<1>1. m \in Nat \ {0, 1}
  OBVIOUS
<1>2. CASE s >= 0
  <2>1. 2 * s \in Nat /\ 2 * s < m
    BY <1>2
  <2>2. (2 * s) % m = 2 * s
    <3> HIDE DEF m
    <3> QED BY <1>1, <2>1, SmallModulo
  <2> QED BY <1>2, <2>2 DEF ZigZag, Xor
<1>3. CASE s < 0
  <2> DEFINE a == 2 * s + m
  <2>1. a \in Nat /\ a < m /\ 2 * s = a - m
    BY <1>3
  <2>2. (2 * s) % m = a
    <3> HIDE DEF m, a
    <3> QED BY <1>1, <2>1, SmallModulo
  <2>3. m - 1 - a = - 2 * s - 1 /\ m - 1 # 0
    BY <1>1
  <2> QED BY <1>3, <2>2, <2>3 DEF ZigZag, Xor
<1> QED BY <1>2, <1>3

LEMMA Halves ==
  ASSUME NEW n \in Nat
  PROVE  /\ (2 * n) \div 2 = n /\ (2 * n) % 2 = 0
         /\ (2 * n + 1) \div 2 = n /\ (2 * n + 1) % 2 = 1
OBVIOUS

\* A signed integer of any width is what ZagZig makes of what ZigZag makes of
\* it (util.h:42-52).
THEOREM ZagZigInverse ==
  ASSUME NEW half \in Nat \ {0}, NEW s \in (- half) .. (half - 1)
  PROVE  /\ ZigZag(s, 2 * half) \in 0 .. (2 * half - 1)
         /\ ZagZig(ZigZag(s, 2 * half), 2 * half) = s
<1>1. CASE s >= 0
  <2>1. ZigZag(s, 2 * half) = 2 * s
    BY <1>1, ZigZagValue
  <2>2. (2 * s) \div 2 = s /\ (2 * s) % 2 = 0
    BY <1>1, Halves
  <2> QED BY <1>1, <2>1, <2>2 DEF ZagZig, Xor, Signed
<1>2. CASE s < 0
  <2> DEFINE n == - s - 1
  <2>1. n \in Nat /\ - 2 * s - 1 = 2 * n + 1
    BY <1>2
  <2>2. ZigZag(s, 2 * half) = 2 * n + 1
    BY <1>2, <2>1, ZigZagValue
  <2>3. (2 * n + 1) \div 2 = n /\ (2 * n + 1) % 2 = 1
    <3> HIDE DEF n
    <3> QED BY <2>1, Halves
  <2>4. 2 * half - 1 # 0 /\ 2 * (2 * half - 1 - n) >= 2 * half
    OBVIOUS
  <2> QED BY <1>2, <2>1, <2>2, <2>3, <2>4 DEF ZagZig, Xor, Signed
<1> QED BY <1>1, <1>2

\* Numbers near zero become small ones, whatever the width: a number of k bits
\* less than a word leaves k bits of it free, as the significand of a float
\* leaves those of the exponent (util.cpp:174).
THEOREM ZigZagSmall ==
  ASSUME NEW half \in Nat \ {0}, NEW s \in (- half) .. (half - 1),
         NEW bound \in Nat, s \in (- bound) .. (bound - 1)
  PROVE  ZigZag(s, 2 * half) \in 0 .. (2 * bound - 1)
BY ZigZagValue

-----------------------------------------------------------------------------
(***************************************************************************)
(* The format.                                                             *)
(***************************************************************************)
LEMMA Format ==
  ASSUME FormatFits
  PROVE  /\ ExpBits \in Nat \ {0} /\ Precision \in Nat /\ Precision >= 2 /\ Boost \in Nat
         /\ Bias \in Nat /\ Bias > Precision + 3 /\ Boost >= Precision /\ Boost < Bias + Precision
         /\ 2 ^ ExpBits = 2 * Bias + 2 /\ MaxField = 2 * Bias + 1
         /\ Hidden \in Nat \ {0} /\ Hidden % 2 = 0 /\ 2 ^ Precision = 2 * Hidden
         /\ Infinity = (2 * Bias + 1) * Hidden /\ Infinity \in Nat
         /\ Lowest \in Int /\ Lowest = 2 - Bias - Precision
         /\ WordModulus = (2 * Bias + 2) * (2 * Hidden)
         /\ WordModulus \div 2 \in Nat \ {0} /\ WordModulus = 2 * (WordModulus \div 2)
<1>1. /\ ExpBits \in Nat /\ ExpBits > 0 /\ Precision \in Nat /\ Precision >= 2 /\ Boost \in Nat
      /\ Precision + 3 < Bias /\ Boost >= Precision /\ Boost < Bias + Precision
  BY DEF FormatFits
<1>2. Bias \in Nat /\ 2 ^ ExpBits = 2 * Bias + 2 /\ MaxField = 2 * Bias + 1
  <2> DEFINE x == 2 ^ (ExpBits - 1)
  <2>1. ExpBits - 1 \in Nat /\ (ExpBits - 1) + 1 = ExpBits
    BY <1>1
  <2>2. x \in Nat \ {0} /\ 2 ^ ExpBits = 2 * x
    BY <2>1, PowerType, PowerOne
  <2>3. Bias = x - 1 /\ MaxField = 2 ^ ExpBits - 1
    BY DEF Bias, MaxField
  <2> HIDE DEF x
  <2> QED BY <2>2, <2>3
<1>3. Hidden \in Nat \ {0} /\ Hidden % 2 = 0 /\ 2 ^ Precision = 2 * Hidden
  <2> DEFINE y == 2 ^ (Precision - 2)
  <2>1. Precision - 2 \in Nat /\ (Precision - 2) + 1 = Precision - 1
        /\ Precision - 1 \in Nat /\ (Precision - 1) + 1 = Precision
    BY <1>1
  <2>2. y \in Nat \ {0} /\ Hidden = 2 * y /\ 2 ^ Precision = 2 * Hidden
    BY <2>1, PowerType, PowerOne DEF Hidden
  <2> HIDE DEF y
  <2> QED BY <2>2
<1>4. Infinity = (2 * Bias + 1) * Hidden /\ Infinity \in Nat
  <2>1. Infinity = (2 * Bias + 1) * Hidden
    BY <1>2 DEF Infinity
  <2>2. 2 * Bias + 1 \in Nat
    BY <1>2
  <2> QED BY <1>3, <2>1, <2>2
<1>5. Lowest \in Int /\ Lowest = 2 - Bias - Precision
  BY <1>1, <1>2 DEF Lowest
<1>6. WordModulus = (2 * Bias + 2) * (2 * Hidden)
  BY <1>1, <1>2, <1>3, PowerSum DEF WordModulus
<1>7. WordModulus \div 2 \in Nat \ {0} /\ WordModulus = 2 * (WordModulus \div 2)
  <2> DEFINE z == (2 * Bias + 2) * Hidden
  <2>1. z \in Nat \ {0} /\ WordModulus = 2 * z
    <3>1. 2 * Bias + 2 \in Nat \ {0}
      BY <1>2
    <3> DEFINE v == 2 * Bias + 2
    <3>2. WordModulus = v * (2 * Hidden)
      BY <1>6
    <3> HIDE DEF v
    <3> QED BY <1>3, <3>1, <3>2 DEF v
  <2> HIDE DEF z
  <2> QED BY <2>1
<1> QED BY <1>1, <1>2, <1>3, <1>4, <1>5, <1>6, <1>7

-----------------------------------------------------------------------------
(***************************************************************************)
(* Lengths in bits.                                                        *)
(***************************************************************************)
LEMMA BitLengthEquation ==
  ASSUME NEW m \in Nat
  PROVE  BitLength[m] = IF m = 0 THEN 0 ELSE 1 + BitLength[m \div 2]
<1> DEFINE V == Nat
           Length(f, n) == IF n = 0 THEN 0 ELSE 1 + f[n \div 2]
           F == [f \in [Nat -> V] |-> [n \in Nat |-> Length(f, n)]]
<1>1. \A n \in Nat : n \div 2 \in Nat /\ (n # 0 => n \div 2 < n)
  OBVIOUS
<1>2. Descending(Nat, V, F)
  <2>1. \A f \in [Nat -> V], n \in Nat : Length(f, n) \in V
    BY <1>1
  <2>2. F \in [[Nat -> V] -> [Nat -> V]]
    <3> HIDE DEF Length, V
    <3> QED BY <2>1
  <2>3. ASSUME NEW n \in Nat, NEW p \in [Nat -> V], NEW q \in [Nat -> V],
               \A k \in Nat : k < n => p[k] = q[k]
        PROVE  F[p][n] = F[q][n]
    <3>1. Length(p, n) = Length(q, n)
      BY <1>1, <2>3
    <3> HIDE DEF Length, V
    <3> QED BY <3>1
  <2> HIDE DEF F, V
  <2> QED BY <2>2, <2>3 DEF Descending
<1>3. \E f \in [Nat -> V] : f = F[f]
  <2>1. V # {} /\ Nat \in SUBSET Nat
    OBVIOUS
  <2> HIDE DEF F, V
  <2> QED BY <1>2, <2>1, StrongRecursion
<1>4. \E f : f = [n \in Nat |-> IF n = 0 THEN 0 ELSE 1 + f[n \div 2]]
  <2>1. PICK f \in [Nat -> V] : f = F[f]
    BY <1>3
  <2>2. f = [n \in Nat |-> Length(f, n)]
    <3>1. F[f] = [n \in Nat |-> Length(f, n)]
      <4> HIDE DEF V, Length
      <4> QED OBVIOUS
    <3> HIDE DEF F, V, Length
    <3> QED BY <2>1, <3>1
  <2>3. f = [n \in Nat |-> IF n = 0 THEN 0 ELSE 1 + f[n \div 2]]
    BY <2>2, Zenon
  <2> HIDE DEF F, V
  <2> QED BY <2>3
<1>5. BitLength = [n \in Nat |-> IF n = 0 THEN 0 ELSE 1 + BitLength[n \div 2]]
  BY <1>4, Zenon DEF BitLength
<1> QED BY <1>5

LEMMA BitLengthBounds ==
  ASSUME NEW m \in Nat \ {0}
  PROVE  /\ BitLength[m] \in Nat \ {0}
         /\ 2 ^ (BitLength[m] - 1) <= m /\ m < 2 ^ BitLength[m]
<1> DEFINE Bounded(n) == /\ BitLength[n] \in Nat \ {0}
                         /\ 2 ^ (BitLength[n] - 1) <= n /\ n < 2 ^ BitLength[n]
           S == {n \in Nat : n # 0 => Bounded(n)}
<1>1. ASSUME NEW n \in Nat, \A k \in Nat : k < n => k \in S PROVE n \in S
  <2>1. CASE n = 0
    BY <2>1
  <2>2. CASE n = 1
    <3>1. 1 \div 2 = 0
      OBVIOUS
    <3>2. BitLength[1] = 1
      BY <3>1, BitLengthEquation
    <3>3. 1 - 1 = 0 /\ 2 ^ (1 - 1) = 1 /\ 2 ^ 1 = 2
      BY PowerOne
    <3>4. Bounded(1)
      BY <3>2, <3>3
    <3> QED BY <2>2, <3>4
  <2>3. CASE n > 1
    <3> DEFINE h == n \div 2
               l == BitLength[h]
    <3>1. h \in Nat \ {0} /\ h < n /\ 2 * h <= n /\ n < 2 * h + 2
      BY <2>3
    <3>2. Bounded(h)
      BY <1>1, <3>1
    <3>3. BitLength[n] = 1 + l
      BY <2>3, BitLengthEquation
    <3>4. /\ l \in Nat /\ l - 1 \in Nat /\ (l - 1) + 1 = l /\ (1 + l) - 1 = l /\ 1 + l = l + 1
      BY <3>2
    <3>5. 2 ^ l = 2 * 2 ^ (l - 1) /\ 2 ^ (l + 1) = 2 * 2 ^ l /\ 2 ^ l \in Nat /\ 2 ^ (l - 1) \in Nat
      BY <3>4, PowerOne, PowerType
    <3>6. 2 ^ l <= n /\ n < 2 ^ (l + 1)
      <4> DEFINE x == 2 ^ l  y == 2 ^ (l - 1)
      <4>1. x = 2 * y /\ 2 ^ (l + 1) = 2 * x /\ x \in Nat /\ y \in Nat /\ y <= h /\ h < x
        BY <3>2, <3>5
      <4> HIDE DEF x, y, h, l
      <4> QED BY <3>1, <4>1 DEF x
    <3> QED BY <3>3, <3>4, <3>6
  <2> QED BY <2>1, <2>2, <2>3
<1>2. Nat \subseteq S
  <2> HIDE DEF S
  <2> QED BY <1>1, StrongInduction
<1> QED BY <1>2

LEMMA BitLengthIs ==
  ASSUME NEW k \in Nat, NEW m \in Nat, 2 ^ k <= m, m < 2 ^ (k + 1)
  PROVE  BitLength[m] = k + 1 /\ m # 0
<1> DEFINE l == BitLength[m]
<1>1. m # 0
  BY PowerType
<1>2. l \in Nat \ {0} /\ 2 ^ (l - 1) <= m /\ m < 2 ^ l /\ l - 1 \in Nat
  BY <1>1, BitLengthBounds
<1>3. 2 ^ (l - 1) \in Nat /\ 2 ^ l \in Nat /\ 2 ^ k \in Nat /\ 2 ^ (k + 1) \in Nat
  BY <1>2, PowerType
<1>4. ASSUME l < k + 1 PROVE FALSE
  <2>1. l <= k
    BY <1>2, <1>4
  <2>2. 2 ^ l <= 2 ^ k
    BY <1>2, <2>1, PowerGrows
  <2> QED BY <1>2, <1>3, <2>2
<1>5. ASSUME l > k + 1 PROVE FALSE
  <2>1. k + 1 <= l - 1 /\ k + 1 \in Nat
    BY <1>2, <1>5
  <2>2. 2 ^ (k + 1) <= 2 ^ (l - 1)
    BY <1>2, <2>1, PowerGrows
  <2> QED BY <1>2, <1>3, <2>2
<1> QED BY <1>1, <1>2, <1>4, <1>5

-----------------------------------------------------------------------------
(***************************************************************************)
(* The types of what the operations make.                                  *)
(***************************************************************************)
LEMMA Parts ==
  ASSUME FormatFits, NEW f \in Floats
  PROVE  /\ f.neg \in BOOLEAN /\ f.bits \in Nat
         /\ Field(f) \in 0 .. MaxField /\ Fraction(f) \in 0 .. (Hidden - 1)
         /\ f.bits = Hidden * Field(f) + Fraction(f)
         /\ Mantissa(f) \in Nat /\ Scale(f) \in Int
<1>1. Hidden \in Nat \ {0} /\ MaxField \in Nat /\ Lowest \in Int
  BY Format
<1>2. f.neg \in BOOLEAN /\ f.bits \in 0 .. (MaxField * Hidden + Hidden - 1)
  BY DEF Floats
<1> DEFINE q == f.bits \div Hidden  r == f.bits % Hidden  x == MaxField * Hidden
<1>3. x \in Nat
  BY <1>1
<1>4. f.bits \in Nat /\ f.bits < x + Hidden
  <2> HIDE DEF x
  <2> QED BY <1>1, <1>2, <1>3 DEF x
<1>5. q \in Nat /\ r \in 0 .. (Hidden - 1) /\ f.bits = Hidden * q + r
  BY <1>1, <1>4, Division
<1>6. q <= MaxField
  <2> HIDE DEF q, r
  <2>1. ASSUME q >= MaxField + 1 PROVE FALSE
    <3>1. Hidden * q >= Hidden * (MaxField + 1) /\ Hidden * (MaxField + 1) = x + Hidden
      BY <1>1, <1>5, <2>1
    <3>2. Hidden * q \in Nat
      BY <1>1, <1>5
    <3> HIDE DEF x
    <3> QED BY <1>1, <1>3, <1>4, <1>5, <3>1, <3>2
  <2> QED BY <1>1, <1>5, <2>1
<1>7. Field(f) = q /\ Fraction(f) = r
  BY DEF Field, Fraction
<1> HIDE DEF q, r
<1>8. Mantissa(f) \in Nat /\ Scale(f) \in Int
  BY <1>1, <1>4, <1>5, <1>7 DEF Mantissa, Scale
<1> QED BY <1>1, <1>2, <1>4, <1>5, <1>6, <1>7, <1>8

LEMMA FloatMade ==
  ASSUME FormatFits, NEW neg \in BOOLEAN, NEW bits \in Nat
  PROVE  /\ [neg |-> neg, bits |-> IF bits < Infinity THEN bits ELSE Infinity] \in Floats
         /\ Zero(neg) \in Floats
<1>1. Hidden \in Nat \ {0} /\ Infinity \in Nat /\ Infinity = MaxField * Hidden
  BY Format DEF Infinity
<1>2. (IF bits < Infinity THEN bits ELSE Infinity) \in 0 .. (Infinity + Hidden - 1)
  BY <1>1
<1>3. 0 \in 0 .. (Infinity + Hidden - 1)
  BY <1>1
<1> QED BY <1>1, <1>2, <1>3 DEF Floats, Zero

LEMMA NearestType ==
  ASSUME FormatFits, NEW neg \in BOOLEAN, NEW m \in Nat, NEW s \in Int
  PROVE  Nearest(neg, m, s) \in Floats
<1> DEFINE top == s + BitLength[m] - Precision
           unit == IF top > Lowest THEN top ELSE Lowest
           q == IF s >= unit THEN m * 2 ^ (s - unit) ELSE Shifted(m, unit - s)
           bits == (unit - Lowest) * Hidden + q
<1>1. /\ Hidden \in Nat \ {0} /\ Lowest \in Int /\ Precision \in Nat
      /\ m # 0 => BitLength[m] \in Nat
  BY Format, BitLengthBounds
<1>2. CASE m = 0
  <2>1. Zero(neg) \in Floats
    BY FloatMade
  <2> QED BY <1>2, <2>1 DEF Nearest
<1>3. CASE m # 0
  <2>1. unit \in Int /\ unit >= Lowest
    BY <1>1, <1>3
  <2>2. q \in Nat
    <3> HIDE DEF unit
    <3>1. CASE s >= unit
      <4>1. s - unit \in Nat
        BY <2>1, <3>1
      <4>2. 2 ^ (s - unit) \in Nat
        BY <4>1, PowerType
      <4> DEFINE p == 2 ^ (s - unit)
      <4>3. m * p \in Nat
        <5>1. p \in Nat
          BY <4>2
        <5> HIDE DEF p
        <5> QED BY <5>1
      <4> QED BY <3>1, <4>3
    <3>2. CASE ~(s >= unit)
      <4> DEFINE n == unit - s
                 p == 2 ^ n
      <4>1. n \in Nat
        BY <2>1, <3>2
      <4>2. p \in Nat \ {0}
        BY <4>1, PowerType
      <4>3. m \div p \in Nat /\ (m \div p) + 1 \in Nat
        <5> HIDE DEF p
        <5> QED BY <4>2
      <4>4. Shifted(m, n) \in {0, m \div p, (m \div p) + 1}
        <5> HIDE DEF n
        <5> QED BY Zenon DEF Shifted
      <4> HIDE DEF n, p
      <4>5. Shifted(m, n) \in Nat
        BY <4>3, <4>4
      <4> QED BY <3>2, <4>5 DEF n
    <3> QED BY <3>1, <3>2
  <2>3. bits \in Nat
    <3> HIDE DEF unit, q
    <3> DEFINE d == unit - Lowest
    <3>1. d \in Nat
      BY <1>1, <2>1
    <3>2. d * Hidden \in Nat
      <4> HIDE DEF d
      <4> QED BY <1>1, <3>1
    <3> QED BY <2>2, <3>2
  <2>4. Nearest(neg, m, s) = [neg |-> neg, bits |-> IF bits < Infinity THEN bits ELSE Infinity]
    BY <1>3 DEF Nearest
  <2> HIDE DEF bits
  <2> QED BY <2>3, <2>4, FloatMade
<1> QED BY <1>2, <1>3

LEMMA TimesType ==
  ASSUME FormatFits, NEW f \in Floats, NEW n \in Int
  PROVE  Times(f, n) \in Floats
<1>1. f.neg \in BOOLEAN /\ Mantissa(f) \in Nat /\ Scale(f) + n \in Int
  BY Parts
<1> QED BY <1>1, NearestType DEF Times

LEMMA LDExpType ==
  ASSUME FormatFits, NEW f \in Floats, NEW n \in Int
  PROVE  LDExp(f, n) \in Floats
<1>1. Bias \in Nat /\ 1 - Bias \in Int /\ n - Bias \in Int /\ n - (1 - Bias) \in Int
      /\ (IF n > 3 * Bias THEN Bias ELSE n - 2 * Bias) \in Int
      /\ (IF n < 3 * (1 - Bias) THEN 1 - Bias ELSE n - 2 * (1 - Bias)) \in Int
  BY Format
<1>2. \A k \in Int : Times(f, k) \in Floats
  BY TimesType
<1>3. \A k, l \in Int : Times(Times(f, k), l) \in Floats
  BY <1>2, TimesType
<1>4. \A j, k, l \in Int : Times(Times(Times(f, j), k), l) \in Floats
  BY <1>3, TimesType
<1>5. LDExp(f, n) \in {Times(Times(Times(f, Bias), Bias), IF n > 3 * Bias THEN Bias ELSE n - 2 * Bias),
                      Times(Times(f, Bias), n - Bias),
                      Times(Times(Times(f, 1 - Bias), 1 - Bias),
                            IF n < 3 * (1 - Bias) THEN 1 - Bias ELSE n - 2 * (1 - Bias)),
                      Times(Times(f, 1 - Bias), n - (1 - Bias)),
                      Times(f, n)}
  BY Zenon DEF LDExp
<1> QED BY <1>1, <1>2, <1>3, <1>4, <1>5

LEMMA SplitType ==
  ASSUME FormatFits, NEW f \in Floats
  PROVE  Split(f) \in [x : Floats, e : Int]
<1>1. /\ Bias \in Nat /\ Bias > 1 /\ MaxField = 2 * Bias + 1 /\ Hidden \in Nat
      /\ Field(f) \in 0 .. MaxField /\ Fraction(f) \in 0 .. (Hidden - 1)
  BY Format, Parts
<1>2. (Bias - 1) * Hidden + Fraction(f) \in 0 .. (MaxField * Hidden + Hidden - 1)
  <2> DEFINE r == Fraction(f)
  <2>1. (Bias - 1) * Hidden \in Nat /\ (Bias - 1) * Hidden <= MaxField * Hidden /\ MaxField * Hidden \in Nat
    BY <1>1
  <2> HIDE DEF r
  <2> QED BY <1>1, <2>1 DEF r
<1>3. [f EXCEPT !.bits = (Bias - 1) * Hidden + Fraction(f)] \in Floats
  BY <1>2 DEF Floats
<1> QED BY <1>1, <1>3 DEF Split

LEMMA FRExpType ==
  ASSUME FormatFits, NEW f \in Floats
  PROVE  FRExp(f) \in [x : Floats, e : Int]
<1>1. Boost \in Int
  BY Format
<1>2. Times(f, Boost) \in Floats
  BY <1>1, TimesType
<1>3. Split(Times(f, Boost)) \in [x : Floats, e : Int] /\ Split(f) \in [x : Floats, e : Int]
  BY <1>2, SplitType
<1> QED BY <1>1, <1>3 DEF FRExp

LEMMA TruncatedType ==
  ASSUME FormatFits, NEW f \in Floats, NEW u \in Undefined
  PROVE  Truncated(f, u) \in Int
<1>1. Mantissa(f) \in Nat /\ Scale(f) \in Int
  BY Parts
<1>2. u \in Int
  BY Format DEF Undefined
<1> DEFINE size == IF Scale(f) >= 0 THEN Mantissa(f) * 2 ^ Scale(f)
                   ELSE Quotient(Mantissa(f), - Scale(f))
<1>3. size \in Int
  <2>1. CASE Scale(f) >= 0
    <3> DEFINE p == 2 ^ Scale(f)
    <3>1. p \in Nat
      BY <1>1, <2>1, PowerType
    <3>2. Mantissa(f) * p \in Int
      <4> HIDE DEF p
      <4> QED BY <1>1, <3>1
    <3> QED BY <2>1, <3>2
  <2>2. CASE ~(Scale(f) >= 0)
    <3> DEFINE m == Mantissa(f)  n == - Scale(f)  p == 2 ^ n
    <3>1. p \in Nat \ {0}
      BY <1>1, <2>2, PowerType
    <3>2. m \div p \in Int
      <4> HIDE DEF p, m
      <4> QED BY <1>1, <3>1 DEF m
    <3>3. Quotient(m, n) \in {0, m \div p}
      <4> HIDE DEF m, n
      <4> QED BY Zenon DEF Quotient
    <3> HIDE DEF m, n, p
    <3>4. Quotient(m, n) \in Int
      BY <3>2, <3>3
    <3> QED BY <2>2, <3>4 DEF m, n
  <2> QED BY <2>1, <2>2
<1>4. Truncated(f, u) \in {u, size, - size}
  BY Zenon DEF Truncated
<1> HIDE DEF size
<1> QED BY <1>2, <1>3, <1>4

\* Whatever the builds make of infinities, the words are numbers.
LEMMA WordType ==
  ASSUME FormatFits, NEW f \in Floats, NEW u \in Undefined
  PROVE  ToWord(f, u) \in Nat
<1> DEFINE r == FRExp(f)
           digits == Truncated(LDExp(r.x, Precision - 1), u)
           hi == (ZigZag(digits, WordModulus) * 2 ^ ExpBits) % WordModulus
           low == ZigZag(r.e - 1, WordModulus)
<1>1. WordModulus \in Nat \ {0} /\ 2 ^ ExpBits \in Nat \ {0} /\ Precision - 1 \in Int
  BY Format, PowerType
<1>2. r.x \in Floats /\ r.e \in Int
  BY FRExpType
<1>3. digits \in Int
  BY <1>1, <1>2, LDExpType, TruncatedType
<1>4. \A n \in Int : ZigZag(n, WordModulus) \in Nat
  <2> DEFINE W == WordModulus
  <2>0. W \in Nat \ {0}
    BY <1>1
  <2> HIDE DEF W
  <2>1. ASSUME NEW n \in Int PROVE ZigZag(n, W) \in Nat
    <3>1. (2 * n) % W \in 0 .. (W - 1)
      BY <2>0
    <3> QED BY <2>0, <3>1 DEF ZigZag, Xor
  <2> QED BY <2>1 DEF W
<1>5. hi \in Nat
  <2> DEFINE z == ZigZag(digits, WordModulus)  b == 2 ^ ExpBits
  <2>1. z \in Nat /\ b \in Nat
    BY <1>1, <1>3, <1>4
  <2>2. (z * b) % WordModulus \in Nat
    <3> HIDE DEF z, b
    <3> QED BY <1>1, <2>1
  <2> QED BY <2>2
<1>6. low \in Nat
  BY <1>2, <1>4
<1>7. Or(hi, low) \in Nat
  <2> DEFINE b == 2 ^ ExpBits
  <2>1. b \in Nat \ {0}
    BY <1>1
  <2> HIDE DEF hi, low
  <2>2. /\ hi \div b \in Nat /\ low \div b \in Nat /\ low % b \in Nat
    <3> HIDE DEF b
    <3> QED BY <1>5, <1>6, <2>1, Division
  <2> DEFINE n == hi \div b  bit == low \div b
             x == IF n % 2 = 0 THEN n + bit ELSE n
  <2>3. x \in Nat
    BY <2>2
  <2>4. Or(hi, low) = x * b + (low % b)
    BY Zenon DEF Or
  <2> HIDE DEF x, b
  <2> QED BY <2>1, <2>2, <2>3, <2>4
<1>8. ToWord(f, u) = Or(hi, low)
  BY Zenon DEF ToWord
<1> QED BY <1>7, <1>8

-----------------------------------------------------------------------------
(***************************************************************************)
(* What is exact.  A normal number is Normal(neg, k, m), a significand m   *)
(* of full length times the k-th power of two above the smallest one.      *)
(***************************************************************************)
Normal(neg, k, m) == [neg |-> neg, bits |-> k * Hidden + m]
Significands == Hidden .. (2 * Hidden - 1)
Powers == 0 .. (MaxField - 2)

LEMMA NormalParts ==
  ASSUME FormatFits, NEW neg \in BOOLEAN, NEW k \in Powers, NEW m \in Significands
  PROVE  LET f == Normal(neg, k, m)
         IN  /\ f \in Floats /\ f.neg = neg /\ f.bits = k * Hidden + m
             /\ Field(f) = k + 1 /\ Fraction(f) = m - Hidden
             /\ Mantissa(f) = m /\ Scale(f) = Lowest + k
             /\ IsFinite(f) /\ f.bits # 0 /\ Field(f) # 0 /\ Field(f) # MaxField
<1> DEFINE f == Normal(neg, k, m)
           r == m - Hidden
           c == k + 1
<1>1. /\ Hidden \in Nat \ {0} /\ MaxField \in Nat /\ MaxField > 4 /\ Lowest \in Int
      /\ Infinity = MaxField * Hidden /\ Infinity \in Nat
  BY Format DEF Infinity
<1>2. k \in Nat /\ c \in Nat /\ c > 0 /\ c < MaxField /\ m \in Nat /\ r \in 0 .. (Hidden - 1)
  BY <1>1 DEF Powers, Significands
<1>3. k * Hidden + m = Hidden * c + r /\ k * Hidden + m \in Nat
  <2>1. Hidden * c = k * Hidden + Hidden /\ k * Hidden \in Nat
    BY <1>1, <1>2
  <2> QED BY <1>1, <1>2, <2>1
<1>4. (Hidden * c + r) \div Hidden = c /\ (Hidden * c + r) % Hidden = r
  <2> HIDE DEF c, r
  <2> QED BY <1>1, <1>2, Quotients
<1>5. f.neg = neg /\ f.bits = k * Hidden + m
  BY DEF Normal
<1>6. Field(f) = c /\ Fraction(f) = r
  <2> HIDE DEF f, c, r
  <2> QED BY <1>3, <1>4, <1>5 DEF Field, Fraction
<1>7. Mantissa(f) = m /\ Scale(f) = Lowest + k
  <2> HIDE DEF f
  <2> QED BY <1>1, <1>2, <1>6 DEF Mantissa, Scale
<1>8. f.bits < Infinity /\ f.bits # 0
  <2>1. Hidden * (c + 1) <= Hidden * MaxField /\ Hidden * MaxField = MaxField * Hidden
        /\ Hidden * (c + 1) = Hidden * c + Hidden /\ Hidden * c \in Nat
    <3> HIDE DEF c
    <3> QED BY <1>1, <1>2
  <2> HIDE DEF f, c, r
  <2> QED BY <1>1, <1>2, <1>3, <1>5, <2>1 DEF Significands
<1>9. f \in Floats
  <2>1. f = [neg |-> neg, bits |-> IF f.bits < Infinity THEN f.bits ELSE Infinity]
    BY <1>8 DEF Normal
  <2>2. f.bits \in Nat
    BY <1>3, <1>5
  <2> HIDE DEF f
  <2> QED BY <2>1, <2>2, FloatMade
<1> HIDE DEF f
<1> QED BY <1>2, <1>5, <1>6, <1>7, <1>8, <1>9 DEF IsFinite, f

\* Every number but zero and the denormals is one of these.
LEMMA NormalForm ==
  ASSUME FormatFits, NEW f \in Floats, IsFinite(f), Field(f) # 0
  PROVE  \E k \in Powers, m \in Significands : f = Normal(f.neg, k, m)
<1> DEFINE k == Field(f) - 1
           m == Hidden + Fraction(f)
<1>1. /\ Hidden \in Nat \ {0} /\ MaxField \in Nat /\ Infinity = MaxField * Hidden
      /\ Field(f) \in 0 .. MaxField /\ Fraction(f) \in 0 .. (Hidden - 1)
      /\ f.bits = Hidden * Field(f) + Fraction(f) /\ f.bits \in Nat /\ f.bits < Infinity
  BY Format, Parts DEF Infinity, IsFinite
<1>2. Field(f) # MaxField
  <2>1. Hidden * MaxField = MaxField * Hidden /\ Hidden * MaxField \in Nat
    BY <1>1
  <2> QED BY <1>1, <2>1
<1>3. k \in Powers /\ m \in Significands
  BY <1>1, <1>2 DEF Powers, Significands
<1>4. f.bits = k * Hidden + m
  <2> DEFINE c == Field(f)
  <2>1. c \in Nat /\ (c - 1) * Hidden = Hidden * c - Hidden /\ Hidden * c \in Nat
    BY <1>1
  <2> HIDE DEF c
  <2>2. (c - 1) * Hidden + (Hidden + Fraction(f)) = Hidden * c + Fraction(f)
    BY <1>1, <2>1
  <2> QED BY <1>1, <2>2 DEF c
<1>5. f = [neg |-> f.neg, bits |-> f.bits]
  BY DEF Floats
<1>6. f = Normal(f.neg, k, m)
  BY <1>4, <1>5 DEF Normal
<1> QED BY <1>3, <1>6

\* A significand of any length is exact where it is not a denormal.
LEMMA NearestExact ==
  ASSUME FormatFits, NEW neg \in BOOLEAN, NEW m \in Nat, NEW s \in Int,
         NEW l \in 1 .. Precision, 2 ^ (l - 1) <= m, m < 2 ^ l,
         NEW k \in Powers, s + l - Precision = Lowest + k
  PROVE  /\ m * 2 ^ (Precision - l) \in Significands
         /\ Nearest(neg, m, s) = Normal(neg, k, m * 2 ^ (Precision - l))
<1> DEFINE p == 2 ^ (Precision - l)
           a == 2 ^ (l - 1)
           top == s + BitLength[m] - Precision
           unit == IF top > Lowest THEN top ELSE Lowest
           q == IF s >= unit THEN m * 2 ^ (s - unit) ELSE Shifted(m, unit - s)
           bits == (unit - Lowest) * Hidden + q
<1>1. /\ Precision \in Nat /\ Precision >= 2 /\ Lowest \in Int /\ Hidden \in Nat \ {0}
      /\ 2 ^ Precision = 2 * Hidden /\ MaxField \in Nat
  BY Format
<1>2. l \in Nat /\ l - 1 \in Nat /\ (l - 1) + 1 = l /\ Precision - l \in Nat /\ k \in Nat
  BY <1>1 DEF Powers
<1>3. BitLength[m] = l /\ m # 0
  BY <1>2, BitLengthIs
<1>4. p \in Nat \ {0} /\ a \in Nat \ {0} /\ 2 ^ l = 2 * a
  BY <1>2, PowerType, PowerOne
<1>5. Hidden = a * p
  <2>1. (l - 1) + (Precision - l) = Precision - 1
    BY <1>1, <1>2
  <2> QED BY <1>2, <2>1, PowerSum DEF Hidden
<1>6. m * p \in Significands
  <2> HIDE DEF a, p
  <2>1. a <= m /\ m <= 2 * a - 1
    BY <1>4 DEF a
  <2>2. a * p <= m * p /\ m * p <= (2 * a - 1) * p /\ (2 * a - 1) * p = 2 * (a * p) - p
    BY <1>4, <2>1
  <2>3. m * p \in Nat /\ a * p \in Nat
    BY <1>4
  <2> QED BY <1>4, <1>5, <2>2, <2>3 DEF Significands
<1>7. unit = Lowest + k /\ s - unit = Precision - l /\ s >= unit
  BY <1>1, <1>2, <1>3
<1>8. q = m * p /\ bits = k * Hidden + m * p
  <2>1. q = m * p
    BY <1>7
  <2>2. unit - Lowest = k
    BY <1>1, <1>2, <1>7
  <2> HIDE DEF unit, q, p
  <2> QED BY <2>1, <2>2
<1>9. bits < Infinity
  BY <1>6, <1>8, NormalParts DEF IsFinite
<1>10. Nearest(neg, m, s) = [neg |-> neg, bits |-> IF bits < Infinity THEN bits ELSE Infinity]
  BY <1>3 DEF Nearest
<1> HIDE DEF bits, p
<1>11. Nearest(neg, m, s) = [neg |-> neg, bits |-> k * Hidden + m * p]
  BY <1>8, <1>9, <1>10
<1> QED BY <1>6, <1>11 DEF Normal, p

\* A power of two changes nothing but the power of a normal number.
LEMMA TimesExact ==
  ASSUME FormatFits, NEW neg \in BOOLEAN, NEW k \in Powers, NEW m \in Significands,
         NEW n \in Int, k + n \in Powers
  PROVE  Times(Normal(neg, k, m), n) = Normal(neg, k + n, m)
<1> DEFINE f == Normal(neg, k, m)
<1>1. f.neg = neg /\ Mantissa(f) = m /\ Scale(f) = Lowest + k /\ IsFinite(f)
  BY NormalParts
<1>2. /\ Precision \in Nat /\ Precision >= 2 /\ Lowest \in Int /\ Hidden \in Nat \ {0}
      /\ 2 ^ Precision = 2 * Hidden /\ Hidden = 2 ^ (Precision - 1)
  BY Format DEF Hidden
<1>3. m \in Nat /\ Precision \in 1 .. Precision /\ 2 ^ (Precision - 1) <= m /\ m < 2 ^ Precision
      /\ k \in Int
  BY <1>2, Format DEF Significands, Powers
<1>4. Lowest + k + n \in Int /\ Lowest + k + n + Precision - Precision = Lowest + (k + n)
  BY <1>2, <1>3
<1>5. Nearest(neg, m, Lowest + k + n) = Normal(neg, k + n, m * 2 ^ (Precision - Precision))
  BY <1>3, <1>4, NearestExact
<1>6. m * 2 ^ (Precision - Precision) = m
  <2>1. Precision - Precision = 0
    BY <1>2
  <2>2. 2 ^ (Precision - Precision) = 1
    BY <2>1, PowerOne
  <2>3. m * 1 = m
    BY <1>3
  <2> QED BY <2>2, <2>3
<1> HIDE DEF f
<1>7. Times(f, n) = Nearest(neg, m, Lowest + k + n)
  BY <1>1 DEF Times
<1> QED BY <1>5, <1>6, <1>7 DEF f

\* One step below the smallest power is exact for an even significand.
LEMMA NearestHalved ==
  ASSUME FormatFits, NEW neg \in BOOLEAN, NEW m \in 1 .. (2 * Hidden - 1), m % 2 = 0
  PROVE  Nearest(neg, m, Lowest - 1) = [neg |-> neg, bits |-> m \div 2]
<1> DEFINE l == BitLength[m]
           top == Lowest - 1 + l - Precision
           q == IF Lowest - 1 >= Lowest THEN m * 2 ^ (Lowest - 1 - Lowest)
                ELSE Shifted(m, Lowest - (Lowest - 1))
           bits == (Lowest - Lowest) * Hidden + q
<1>1. /\ Precision \in Nat /\ Precision >= 2 /\ Lowest \in Int /\ Hidden \in Nat \ {0}
      /\ 2 ^ Precision = 2 * Hidden /\ Infinity \in Nat /\ Infinity = (2 * Bias + 1) * Hidden
      /\ Bias \in Nat
  BY Format
<1>2. m \in Nat \ {0} /\ m < 2 ^ Precision
  BY <1>1
<1>3. l \in Nat \ {0} /\ 2 ^ (l - 1) <= m /\ l - 1 \in Nat
  BY <1>2, BitLengthBounds
<1>4. l <= Precision
  <2>1. ASSUME l > Precision PROVE FALSE
    <3>1. Precision <= l - 1
      BY <1>1, <1>3, <2>1
    <3>2. 2 ^ Precision <= 2 ^ (l - 1) /\ 2 ^ Precision \in Nat /\ 2 ^ (l - 1) \in Nat
      BY <1>1, <1>3, <3>1, PowerGrows, PowerType
    <3> QED BY <1>2, <1>3, <3>2
  <2> QED BY <1>1, <1>3, <2>1
<1>5. ~(top > Lowest)
  BY <1>1, <1>3, <1>4
<1>6. Shifted(m, 1) = m \div 2
  <2>1. 2 ^ 1 = 2 /\ ~(1 > l)
    BY <1>3, PowerOne
  <2>2. ~(2 * (m % 2) > 2) /\ ~(2 * (m % 2) = 2)
    OBVIOUS
  <2> QED BY <2>1, <2>2 DEF Shifted
<1>7. bits = m \div 2
  <2>1. Lowest - (Lowest - 1) = 1 /\ Lowest - Lowest = 0 /\ ~(Lowest - 1 >= Lowest)
    BY <1>1
  <2>2. q = m \div 2
    BY <1>6, <2>1
  <2>3. m \div 2 \in Nat /\ 0 * Hidden = 0
    BY <1>1, <1>2
  <2> HIDE DEF q
  <2> QED BY <2>1, <2>2, <2>3
<1>8. m \div 2 < Infinity
  <2>1. m \div 2 < Hidden /\ m \div 2 \in Nat
    BY <1>1
  <2>2. (2 * Bias + 1) * Hidden >= Hidden
    BY <1>1
  <2> QED BY <1>1, <2>1, <2>2
<1>9. Nearest(neg, m, Lowest - 1) = [neg |-> neg, bits |-> IF bits < Infinity THEN bits ELSE Infinity]
  BY <1>2, <1>5 DEF Nearest
<1> HIDE DEF bits
<1> QED BY <1>7, <1>8, <1>9

-----------------------------------------------------------------------------
(***************************************************************************)
(* There and back: a float that is kept comes back without its lowest bit. *)
(***************************************************************************)
\* The fraction in [1/2, 1) with the significand m.
Half(neg, m) == Normal(neg, Bias - 2, m)

LEMMA FRExpNormal ==
  ASSUME FormatFits, NEW neg \in BOOLEAN, NEW k \in Powers, NEW m \in Significands
  PROVE  FRExp(Normal(neg, k, m)) = [x |-> Half(neg, m), e |-> k + 2 - Bias]
         /\ Split(Normal(neg, k, m)) = [x |-> Half(neg, m), e |-> k + 2 - Bias]
<1> DEFINE f == Normal(neg, k, m)
<1>1. /\ f.bits # 0 /\ Field(f) = k + 1 /\ Field(f) # 0 /\ Field(f) # MaxField
      /\ Fraction(f) = m - Hidden
  BY NormalParts
<1>2. Bias \in Nat /\ Bias > 3 /\ Hidden \in Nat \ {0} /\ k \in Nat /\ m \in Nat
  BY Format DEF Powers, Significands
<1>3. (Bias - 1) * Hidden + (m - Hidden) = (Bias - 2) * Hidden + m
  <2>1. (Bias - 1) * Hidden = (Bias - 2) * Hidden + Hidden /\ (Bias - 2) * Hidden \in Int
    BY <1>2
  <2> QED BY <1>2, <2>1
<1>4. [f EXCEPT !.bits = (Bias - 1) * Hidden + (m - Hidden)] = Half(neg, m)
  BY <1>3 DEF Normal, Half
<1>5. (k + 1) - (Bias - 1) = k + 2 - Bias
  BY <1>2
<1> HIDE DEF f
<1>6. Split(f) = [x |-> Half(neg, m), e |-> k + 2 - Bias]
  BY <1>1, <1>4, <1>5 DEF Split
<1>7. FRExp(f) = Split(f)
  BY <1>1 DEF FRExp
<1> QED BY <1>6, <1>7 DEF f

\* A denormal has fewer bits than a significand, and is made a normal number.
LEMMA FRExpDenormal ==
  ASSUME FormatFits, NEW neg \in BOOLEAN, NEW m \in Nat,
         NEW l \in 1 .. (Precision - 1), 2 ^ (l - 1) <= m, m < 2 ^ l
  PROVE  /\ m * 2 ^ (Precision - l) \in Significands
         /\ FRExp([neg |-> neg, bits |-> m])
              = [x |-> Half(neg, m * 2 ^ (Precision - l)), e |-> l - Precision + 2 - Bias]
         /\ m \in 1 .. (Hidden - 1) /\ [neg |-> neg, bits |-> m] \in Floats
         /\ Field([neg |-> neg, bits |-> m]) = 0
<1> DEFINE f == [neg |-> neg, bits |-> m]
           M == m * 2 ^ (Precision - l)
           k == Boost + l - Precision
<1>1. /\ Precision \in Nat /\ Precision >= 2 /\ Lowest \in Int /\ Hidden \in Nat \ {0}
      /\ MaxField = 2 * Bias + 1 /\ Bias \in Nat /\ Bias > Precision + 3
      /\ Boost \in Nat /\ Boost >= Precision /\ Boost < Bias + Precision
      /\ Infinity = (2 * Bias + 1) * Hidden /\ Infinity \in Nat
  BY Format
<1>2. m \in 1 .. (Hidden - 1)
  <2>1. l - 1 \in Nat /\ l \in Nat /\ l <= Precision - 1 /\ Precision - 1 \in Nat
    BY <1>1
  <2>2. 2 ^ (l - 1) \in Nat \ {0} /\ 2 ^ l \in Nat /\ 2 ^ l <= Hidden
    BY <2>1, PowerType, PowerGrows DEF Hidden
  <2> QED BY <1>1, <2>2
<1>3. f.bits \div Hidden = 0 /\ f.bits # 0 /\ f.bits < Infinity /\ m \in Nat
  <2>1. Hidden <= (2 * Bias + 1) * Hidden
    BY <1>1
  <2> QED BY <1>1, <1>2, <2>1
<1>4. Field(f) = 0 /\ Mantissa(f) = m /\ Scale(f) = Lowest /\ IsFinite(f)
  <2> HIDE DEF f
  <2>1. f.bits = m
    BY DEF f
  <2> QED BY <1>1, <1>3, <2>1 DEF Field, Mantissa, Scale, IsFinite
<1>5. f \in Floats
  <2>1. f = [neg |-> neg, bits |-> IF m < Infinity THEN m ELSE Infinity]
    BY <1>3
  <2> QED BY <1>3, <2>1, FloatMade
<1>6. k \in Powers /\ l \in 1 .. Precision /\ Lowest + Boost \in Int
      /\ Lowest + Boost + l - Precision = Lowest + k
  BY <1>1 DEF Powers
<1>7. M \in Significands /\ Nearest(neg, m, Lowest + Boost) = Normal(neg, k, M)
  <2> HIDE DEF k
  <2> QED BY <1>3, <1>6, NearestExact
<1>8. Times(f, Boost) = Normal(neg, k, M)
  <2>1. f.neg = neg
    OBVIOUS
  <2> HIDE DEF f
  <2> QED BY <1>4, <1>7, <2>1 DEF Times
<1>9. Split(Times(f, Boost)) = [x |-> Half(neg, M), e |-> k + 2 - Bias]
  <2> HIDE DEF f, k, M
  <2> QED BY <1>6, <1>7, <1>8, FRExpNormal
<1>10. FRExp(f) = [Split(Times(f, Boost)) EXCEPT !.e = @ - Boost]
  <2> HIDE DEF f
  <2> QED BY <1>3, <1>4 DEF FRExp
<1>11. (k + 2 - Bias) - Boost = l - Precision + 2 - Bias
  BY <1>1
<1>12. FRExp(f) = [x |-> Half(neg, M), e |-> l - Precision + 2 - Bias]
  <2> DEFINE X == Half(neg, M)  E == k + 2 - Bias
  <2>3. E - Boost = l - Precision + 2 - Bias
    BY <1>11
  <2> HIDE DEF f, k, M, X, E
  <2>1. [[x |-> X, e |-> E] EXCEPT !.e = @ - Boost] = [x |-> X, e |-> E - Boost]
    OBVIOUS
  <2>2. Split(Times(f, Boost)) = [x |-> X, e |-> E]
    BY <1>9 DEF X, E
  <2> QED BY <1>10, <2>1, <2>2, <2>3 DEF X
<1> QED BY <1>2, <1>4, <1>5, <1>7, <1>12

\* In range, LDExp multiplies at once.
LEMMA LDExpAtOnce ==
  ASSUME FormatFits, NEW f, NEW n \in (1 - Bias) .. Bias
  PROVE  LDExp(f, n) = Times(f, n)
<1>1. Bias \in Nat /\ Bias > 3
  BY Format
<1>2. /\ ~(n > 2 * Bias) /\ ~(n > Bias /\ n <= 2 * Bias) /\ ~(n < 2 * (1 - Bias))
      /\ ~(n < 1 - Bias /\ n >= 2 * (1 - Bias))
  BY <1>1
<1> QED BY <1>2 DEF LDExp

\* The digits: the fraction scaled to an integer, without its lowest bit.
LEMMA DigitsOfHalf ==
  ASSUME FormatFits, NEW neg \in BOOLEAN, NEW m \in Significands, NEW u \in Undefined
  PROVE  Truncated(LDExp(Half(neg, m), Precision - 1), u) = IF neg THEN - (m \div 2) ELSE m \div 2
<1> DEFINE k == Bias + Precision - 3
           y == Normal(neg, k, m)
<1>1. /\ Precision \in Nat /\ Precision >= 2 /\ Lowest = 2 - Bias - Precision
      /\ MaxField = 2 * Bias + 1 /\ Bias \in Nat /\ Bias > Precision + 3
      /\ Hidden \in Nat \ {0}
  BY Format
<1>2. /\ Bias - 2 \in Powers /\ k \in Powers /\ Precision - 1 \in (1 - Bias) .. Bias
      /\ Precision - 1 \in Int /\ Bias - 2 + (Precision - 1) = k
  BY <1>1 DEF Powers
<1>3. LDExp(Half(neg, m), Precision - 1) = y
  <2>1. LDExp(Half(neg, m), Precision - 1) = Times(Half(neg, m), Precision - 1)
    BY <1>2, LDExpAtOnce
  <2>2. Times(Normal(neg, Bias - 2, m), Precision - 1) = Normal(neg, Bias - 2 + (Precision - 1), m)
    BY <1>2, TimesExact
  <2> QED BY <1>2, <2>1, <2>2 DEF Half
<1>4. Mantissa(y) = m /\ Scale(y) \in Int /\ Scale(y) + 1 = 0 /\ IsFinite(y) /\ y.neg = neg
  <2>1. Lowest + k \in Int /\ Lowest + k + 1 = 0
    BY <1>1
  <2> HIDE DEF k
  <2> QED BY <1>2, <2>1, NormalParts
<1>5. Quotient(m, 1) = m \div 2
  <2>1. m \in Nat \ {0}
    BY <1>1 DEF Significands
  <2>2. ~(1 > BitLength[m])
    BY <2>1, BitLengthBounds
  <2> QED BY <2>2, PowerOne DEF Quotient
<1>6. Truncated(y, u) = IF neg THEN - (m \div 2) ELSE m \div 2
  <2> HIDE DEF y
  <2>1. ~(Scale(y) >= 0) /\ - Scale(y) = 1
    BY <1>4
  <2> QED BY <1>4, <1>5, <2>1 DEF Truncated
<1> QED BY <1>3, <1>6

\* A word that is put together from digits and an exponent falls apart into
\* the same ones.
LEMMA WordParts ==
  ASSUME FormatFits, NEW d \in (- Hidden) .. (Hidden - 1), NEW e \in (- (Bias + 1)) .. Bias
  PROVE  LET word == Or((ZigZag(d, WordModulus) * 2 ^ ExpBits) % WordModulus, ZigZag(e, WordModulus))
         IN  /\ ZagZig(word \div 2 ^ ExpBits, WordModulus) = d
             /\ ZagZig(word % 2 ^ ExpBits, WordModulus) = e
<1> DEFINE half == WordModulus \div 2
           b == 2 ^ ExpBits
           z == ZigZag(d, WordModulus)
           low == ZigZag(e, WordModulus)
           word == Or((z * b) % WordModulus, low)
<1>1. /\ half \in Nat \ {0} /\ WordModulus = 2 * half
      /\ Hidden \in Nat \ {0} /\ Bias \in Nat /\ b = 2 * (Bias + 1)
      /\ WordModulus = b * (2 * Hidden) /\ b \in Nat \ {0}
  BY Format
<1>2. Hidden <= half /\ Bias + 1 <= half
  <2> HIDE DEF half, b
  <2>1. half = (Bias + 1) * (2 * Hidden)
    <3>1. 2 * half = 2 * ((Bias + 1) * (2 * Hidden)) /\ (Bias + 1) * (2 * Hidden) \in Nat
      BY <1>1
    <3> DEFINE w == (Bias + 1) * (2 * Hidden)
    <3> HIDE DEF w
    <3> QED BY <1>1, <3>1 DEF w
  <2>2. (Bias + 1) * (2 * Hidden) >= 2 * Hidden /\ (Bias + 1) * (2 * Hidden) >= Bias + 1
    BY <1>1
  <2> QED BY <1>1, <2>1, <2>2
<1>3. d \in (- half) .. (half - 1) /\ e \in (- half) .. (half - 1)
      /\ Hidden \in Nat /\ Bias + 1 \in Nat /\ e \in (- (Bias + 1)) .. ((Bias + 1) - 1)
  <2> HIDE DEF half
  <2> QED BY <1>1, <1>2
<1>4. z \in 0 .. (2 * Hidden - 1) /\ ZagZig(z, WordModulus) = d
  <2> HIDE DEF half
  <2>1. ZigZag(d, 2 * half) \in 0 .. (2 * Hidden - 1)
    BY <1>1, <1>3, ZigZagSmall
  <2>2. ZagZig(ZigZag(d, 2 * half), 2 * half) = d
    BY <1>1, <1>3, ZagZigInverse
  <2> QED BY <1>1, <2>1, <2>2
<1>5. low \in 0 .. (b - 1) /\ ZagZig(low, WordModulus) = e
  <2> HIDE DEF half, b
  <2>1. ZigZag(e, 2 * half) \in 0 .. (2 * (Bias + 1) - 1)
    BY <1>1, <1>3, ZigZagSmall
  <2>2. ZagZig(ZigZag(e, 2 * half), 2 * half) = e
    BY <1>1, <1>3, ZagZigInverse
  <2> QED BY <1>1, <2>1, <2>2
<1>6. (z * b) % WordModulus = z * b /\ z * b \in Nat /\ z * b = b * z
  <2>1. z \in Nat /\ z <= 2 * Hidden - 1
    BY <1>1, <1>4
  <2> HIDE DEF z, b, half
  <2>2. z * b = b * z /\ b * z <= b * (2 * Hidden - 1) /\ b * (2 * Hidden - 1) = b * (2 * Hidden) - b
        /\ z * b \in Nat /\ b * (2 * Hidden) \in Nat
    BY <1>1, <2>1
  <2> DEFINE y == z * b  W == WordModulus
  <2>3. y \in Nat /\ W \in Nat \ {0} /\ y < W
    BY <1>1, <2>2
  <2> HIDE DEF y, W
  <2>4. y % W = y
    BY <2>3, Division
  <2> QED BY <2>2, <2>4 DEF y, W
<1>7. (b * z + 0) \div b = z /\ low \div b = 0 /\ low % b = low
  <2>1. z \in Int /\ 0 \in 0 .. (b - 1) /\ low \in Nat /\ low < b
    BY <1>1, <1>4, <1>5
  <2> HIDE DEF z, b, low
  <2>2. (b * z + 0) \div b = z
    BY <1>1, <2>1, Quotients
  <2>3. low \div b = 0 /\ low % b = low
    BY <1>1, <2>1, Division
  <2> QED BY <2>2, <2>3
<1>8. word = b * z + low
  <2>1. z \in Nat /\ low \in Nat
    BY <1>1, <1>4, <1>5
  <2>2. (z * b) \div b = z
    <3> HIDE DEF z, b
    <3>1. b * z + 0 = z * b
      BY <1>6
    <3> QED BY <1>7, <3>1
  <2>3. word = Or(z * b, low)
    BY <1>6
  <2> DEFINE n == (z * b) \div b  bit == low \div b
  <2>4. Or(z * b, low) = (IF n % 2 = 0 THEN n + bit ELSE n) * b + (low % b)
    BY Zenon DEF Or
  <2>5. n = z /\ bit = 0
    BY <1>7, <2>2
  <2>6. (IF n % 2 = 0 THEN n + bit ELSE n) = z
    <3> HIDE DEF n, bit, z
    <3> QED BY <2>1, <2>5
  <2> HIDE DEF word, n, bit, z, low, b
  <2> QED BY <1>6, <1>7, <2>3, <2>4, <2>6
<1>9. word \div b = z /\ word % b = low
  <2>1. z \in Int /\ b \in Nat \ {0} /\ low \in 0 .. (b - 1)
    BY <1>1, <1>4, <1>5
  <2> HIDE DEF z, low, b, word
  <2>2. (b * z + low) \div b = z /\ (b * z + low) % b = low
    BY <2>1, Quotients
  <2> QED BY <1>8, <2>2
<1> QED BY <1>4, <1>5, <1>9

\* What the reader makes of digits and exponent, before it scales it.
LEMMA HalfOfDigits ==
  ASSUME FormatFits, NEW neg \in BOOLEAN, NEW m \in Significands
  PROVE  LET d == m \div 2
         IN  /\ d \in 1 .. (Hidden - 1)
             /\ 2 * d \in Significands /\ 2 * d = m - (m % 2)
             /\ LDExp(Nearest(neg, d, 0), 1 - Precision) = Half(neg, 2 * d)
<1> DEFINE d == m \div 2
           k == Bias + Precision - 3
           l == Precision - 1
<1>1. /\ Precision \in Nat /\ Precision >= 2 /\ Lowest = 2 - Bias - Precision
      /\ MaxField = 2 * Bias + 1 /\ Bias \in Nat /\ Bias > Precision + 3
      /\ Hidden \in Nat \ {0} /\ Hidden % 2 = 0 /\ 2 ^ Precision = 2 * Hidden
  BY Format
<1>2. l \in 1 .. Precision /\ l - 1 \in Nat /\ 2 ^ l = Hidden /\ Hidden = 2 * 2 ^ (l - 1) /\ 2 ^ (l - 1) \in Nat
  <2>1. l \in Nat /\ l - 1 \in Nat /\ (l - 1) + 1 = l /\ l \in 1 .. Precision
    BY <1>1
  <2>2. 2 ^ l = 2 * 2 ^ (l - 1) /\ 2 ^ (l - 1) \in Nat
    BY <2>1, PowerOne, PowerType
  <2> QED BY <2>1, <2>2 DEF Hidden
<1>3. d \in Nat /\ 2 ^ (l - 1) <= d /\ d < 2 ^ l /\ d \in 1 .. (Hidden - 1)
      /\ 2 * d = m - (m % 2) /\ 2 * d \in Significands
  <2> DEFINE a == 2 ^ (l - 1)
  <2>1. Hidden = 2 * a /\ a \in Nat \ {0} /\ m \in (2 * a) .. (4 * a - 1)
    BY <1>1, <1>2 DEF Significands
  <2> HIDE DEF a
  <2>2. d \in a .. (2 * a - 1) /\ 2 * d = m - (m % 2) /\ 2 * d \in (2 * a) .. (4 * a - 1)
    BY <2>1
  <2> HIDE DEF d
  <2> QED BY <1>2, <2>1, <2>2 DEF a, Significands
<1>4. k \in Powers /\ 0 + l - Precision = Lowest + k /\ 0 \in Int
  BY <1>1 DEF Powers
<1>5. Nearest(neg, d, 0) = Normal(neg, k, 2 * d)
  <2>1. Nearest(neg, d, 0) = Normal(neg, k, d * 2 ^ (Precision - l))
    <3> HIDE DEF d, k, l
    <3> QED BY <1>2, <1>3, <1>4, NearestExact
  <2>2. Precision - l = 1
    BY <1>1
  <2>3. 2 ^ (Precision - l) = 2
    <3> HIDE DEF l
    <3> QED BY <2>2, PowerOne
  <2> HIDE DEF d, k, l
  <2>4. d * 2 = 2 * d
    BY <1>3
  <2> QED BY <2>1, <2>3, <2>4
<1>6. 1 - Precision \in (1 - Bias) .. Bias /\ 1 - Precision \in Int /\ Bias - 2 \in Powers
      /\ k + (1 - Precision) = Bias - 2
  BY <1>1 DEF Powers
<1>7. Times(Normal(neg, k, 2 * d), 1 - Precision) = Normal(neg, k + (1 - Precision), 2 * d)
  <2> DEFINE x == 2 * d
  <2>1. x \in Significands
    BY <1>3
  <2> HIDE DEF x, k
  <2> QED BY <1>4, <1>6, <2>1, TimesExact DEF x
<1>8. LDExp(Normal(neg, k, 2 * d), 1 - Precision) = Times(Normal(neg, k, 2 * d), 1 - Precision)
  BY <1>6, LDExpAtOnce
<1> HIDE DEF d, k
<1>9. LDExp(Nearest(neg, d, 0), 1 - Precision) = Half(neg, 2 * d)
  BY <1>5, <1>6, <1>7, <1>8 DEF Half
<1> QED BY <1>3, <1>9 DEF d

\* A fraction is scaled to a normal number, in two steps where the exponent is
\* larger than Bias.
LEMMA HalfScaled ==
  ASSUME FormatFits, NEW neg \in BOOLEAN, NEW m \in Significands, NEW k \in Powers
  PROVE  LDExp(Half(neg, m), k + 2 - Bias) = Normal(neg, k, m)
<1> DEFINE e == k + 2 - Bias
<1>1. /\ Bias \in Nat /\ Bias > 3 /\ MaxField = 2 * Bias + 1
      /\ k \in 0 .. (2 * Bias - 1) /\ Bias - 2 \in Powers
  BY Format DEF Powers
<1>2. CASE e <= Bias
  <2>1. e \in (1 - Bias) .. Bias /\ e \in Int /\ Bias - 2 + e = k
    BY <1>1, <1>2
  <2>2. LDExp(Half(neg, m), e) = Times(Half(neg, m), e)
    <3> HIDE DEF e
    <3> QED BY <2>1, LDExpAtOnce
  <2>3. Times(Normal(neg, Bias - 2, m), e) = Normal(neg, Bias - 2 + e, m)
    <3> HIDE DEF e
    <3> QED BY <1>1, <2>1, TimesExact
  <2> QED BY <2>1, <2>2, <2>3 DEF Half
<1>3. CASE e > Bias
  <2>1. /\ e > Bias /\ e <= 2 * Bias /\ ~(e > 2 * Bias) /\ e = Bias + 1 /\ e - Bias = 1
        /\ ~(e < 2 * (1 - Bias)) /\ ~(e < 1 - Bias)
    BY <1>1, <1>3
  <2>2. LDExp(Half(neg, m), e) = Times(Times(Half(neg, m), Bias), 1)
    <3> HIDE DEF e
    <3> QED BY <2>1 DEF LDExp
  <2>3. Bias \in Int /\ Bias - 2 + Bias \in Powers /\ Bias - 2 + Bias + 1 \in Powers
        /\ Bias - 2 + Bias + 1 = k
    BY <1>1, <2>1 DEF Powers
  <2>4. Times(Normal(neg, Bias - 2, m), Bias) = Normal(neg, Bias - 2 + Bias, m)
    BY <1>1, <2>3, TimesExact
  <2>5. Times(Normal(neg, Bias - 2 + Bias, m), 1) = Normal(neg, Bias - 2 + Bias + 1, m)
    BY <2>3, TimesExact
  <2> QED BY <2>2, <2>3, <2>4, <2>5 DEF Half
<1>4. e \in Int
  BY <1>1
<1> QED BY <1>1, <1>2, <1>3, <1>4

\* A fraction is scaled to a denormal of one bit less, or in two steps to one
\* of two bits less.
LEMMA HalfScaledDown ==
  ASSUME FormatFits, NEW neg \in BOOLEAN, NEW m \in Nat,
         NEW l \in {Precision - 1, Precision - 2}, l >= 1, 2 ^ (l - 1) <= m, m < 2 ^ l
  PROVE  LDExp(Half(neg, m * 2 ^ (Precision - l)), l - Precision + 2 - Bias)
           = [neg |-> neg, bits |-> m]
<1>1. /\ Precision \in Nat /\ Precision >= 2 /\ Lowest = 2 - Bias - Precision /\ Lowest \in Int
      /\ Bias \in Nat /\ Bias > 3 /\ Hidden \in Nat \ {0} /\ MaxField = 2 * Bias + 1
  BY Format
<1>2. Bias - 2 \in Powers /\ Lowest + (Bias - 2) + (1 - Bias) = Lowest - 1
  BY <1>1 DEF Powers
\* The first step, of 1 - Bias, halves the significand.
<1>3. ASSUME NEW n \in Nat \ {0}, 2 * n \in Significands
      PROVE  Times(Half(neg, 2 * n), 1 - Bias) = [neg |-> neg, bits |-> n]
  <2> DEFINE x == 2 * n
  <2>1. x \in Significands /\ x \in 1 .. (2 * Hidden - 1) /\ x % 2 = 0 /\ x \div 2 = n
    BY <1>1, <1>3 DEF Significands
  <2> HIDE DEF x
  <2>2. /\ Half(neg, x).neg = neg /\ Mantissa(Half(neg, x)) = x /\ IsFinite(Half(neg, x))
        /\ Scale(Half(neg, x)) = Lowest + (Bias - 2)
    BY <1>2, <2>1, NormalParts DEF Half
  <2>3. Times(Half(neg, x), 1 - Bias) = Nearest(neg, x, Lowest - 1)
    BY <1>2, <2>2 DEF Times
  <2>4. Nearest(neg, x, Lowest - 1) = [neg |-> neg, bits |-> x \div 2]
    BY <2>1, NearestHalved
  <2>5. Times(Half(neg, x), 1 - Bias) = [neg |-> neg, bits |-> n]
    BY <2>1, <2>3, <2>4
  <2> QED BY <2>5 DEF x
<1> DEFINE M == m * 2 ^ (Precision - l)
<1>4. l \in Nat /\ l \in 1 .. (Precision - 1)
  BY <1>1
<1>5. M \in Significands /\ m \in 1 .. (Hidden - 1) /\ m \in Nat \ {0}
  <2>1. M \in Significands /\ m \in 1 .. (Hidden - 1)
    BY <1>4, FRExpDenormal
  <2> QED BY <1>1, <2>1
<1>6. CASE l = Precision - 1
  <2>1. M = 2 * m
    <3>1. Precision - l = 1
      BY <1>1, <1>6
    <3>2. m * 2 = 2 * m
      OBVIOUS
    <3> QED BY <3>1, <3>2, PowerOne
  <2>2. l - Precision + 2 - Bias = 1 - Bias /\ 1 - Bias \in (1 - Bias) .. Bias
    BY <1>1, <1>6
  <2>3. LDExp(Half(neg, M), 1 - Bias) = Times(Half(neg, M), 1 - Bias)
    BY <2>2, LDExpAtOnce
  <2>4. Times(Half(neg, 2 * m), 1 - Bias) = [neg |-> neg, bits |-> m]
    <3> HIDE DEF M
    <3> QED BY <1>3, <1>5, <2>1
  <2> HIDE DEF M
  <2>5. LDExp(Half(neg, M), l - Precision + 2 - Bias) = [neg |-> neg, bits |-> m]
    BY <2>1, <2>2, <2>3, <2>4
  <2> QED BY <2>5 DEF M
<1>7. CASE l = Precision - 2
  <2> DEFINE n == 2 * m
             e == l - Precision + 2 - Bias
             g == [neg |-> neg, bits |-> n]
  <2>1. M = 2 * n
    <3>1. Precision - l = 2
      BY <1>1, <1>7
    <3>2. 2 ^ 2 = 4
      OBVIOUS
    <3>3. m * 4 = 2 * (2 * m)
      OBVIOUS
    <3>4. M = m * 4
      BY <3>1, <3>2
    <3> QED BY <3>3, <3>4
  <2>2. n \in Nat \ {0} /\ n \in 1 .. (Hidden - 1) /\ n % 2 = 0 /\ n \div 2 = m
    <3>1. M <= 2 * Hidden - 1 /\ M = 2 * (2 * m)
      BY <2>1, <1>5 DEF Significands
    <3> HIDE DEF M
    <3> QED BY <1>1, <1>5, <3>1
  <2>3. e + Bias = 0 /\ e \in Int
    BY <1>1, <1>7
  <2>4. /\ ~(e > 2 * Bias) /\ ~(e > Bias /\ e <= 2 * Bias) /\ ~(e < 2 * (1 - Bias))
        /\ e < 1 - Bias /\ e >= 2 * (1 - Bias) /\ e - (1 - Bias) + 1 = 0
    <3> HIDE DEF e
    <3> QED BY <1>1, <2>3
  <2>5. LDExp(Half(neg, M), e) = Times(Times(Half(neg, M), 1 - Bias), e - (1 - Bias))
    <3> HIDE DEF e, M
    <3> QED BY <2>4 DEF LDExp
  <2>6. Times(Half(neg, M), 1 - Bias) = g
    <3>1. 2 * n \in Significands
      BY <1>5, <2>1
    <3> HIDE DEF M, n
    <3> QED BY <1>3, <2>1, <2>2, <3>1
  <2>7. g.neg = neg /\ Mantissa(g) = n /\ Scale(g) = Lowest /\ IsFinite(g)
    <3>1. g.bits = n /\ g.neg = neg
      OBVIOUS
    <3>2. n \div Hidden = 0 /\ n < Infinity
      <4>1. Infinity = (2 * Bias + 1) * Hidden /\ (2 * Bias + 1) * Hidden >= Hidden /\ Infinity \in Nat
        BY <1>1, Format
      <4> HIDE DEF n
      <4> QED BY <1>1, <2>2, <4>1
    <3> HIDE DEF g, n
    <3> QED BY <1>1, <3>1, <3>2 DEF Field, Mantissa, Scale, IsFinite
  <2>8. Scale(g) + (e - (1 - Bias)) = Lowest - 1
    <3> HIDE DEF g, e
    <3>1. e - (1 - Bias) \in Int
      BY <1>1, <2>3
    <3> QED BY <1>1, <2>4, <2>7, <3>1
  <2>9. Nearest(neg, n, Lowest - 1) = [neg |-> neg, bits |-> m]
    <3>1. n \in 1 .. (2 * Hidden - 1)
      BY <1>1, <2>2
    <3> HIDE DEF n
    <3> QED BY <2>2, <3>1, NearestHalved
  <2>10. Times(g, e - (1 - Bias)) = [neg |-> neg, bits |-> m]
    <3> HIDE DEF g, n, e
    <3> QED BY <2>7, <2>8, <2>9 DEF Times
  <2> HIDE DEF g, M
  <2>11. LDExp(Half(neg, M), e) = [neg |-> neg, bits |-> m]
    BY <2>5, <2>6, <2>10
  <2> QED BY <2>11 DEF M
<1> QED BY <1>6, <1>7

-----------------------------------------------------------------------------
\* What the reader makes of the word of a number with this fraction and this
\* exponent.
LEMMA WordOfHalf ==
  ASSUME FormatFits, NEW f, NEW neg \in BOOLEAN, NEW m \in Significands, NEW u \in Undefined,
         NEW e \in Int, e - 1 \in (- (Bias + 1)) .. Bias,
         FRExp(f) = [x |-> Half(neg, m), e |-> e]
  PROVE  FromWord(ToWord(f, u)) = LDExp(Half(neg, 2 * (m \div 2)), e)
<1> DEFINE d == m \div 2
           digits == IF neg THEN - d ELSE d
           word == Or((ZigZag(digits, WordModulus) * 2 ^ ExpBits) % WordModulus,
                      ZigZag(e - 1, WordModulus))
<1>1. d \in 1 .. (Hidden - 1) /\ Hidden \in Nat \ {0}
      /\ LDExp(Nearest(neg, d, 0), 1 - Precision) = Half(neg, 2 * d)
  BY HalfOfDigits, Format
<1>2. ToWord(f, u) = word
  <2>1. FRExp(f).x = Half(neg, m) /\ FRExp(f).e = e
    OBVIOUS
  <2>2. Truncated(LDExp(Half(neg, m), Precision - 1), u) = digits
    BY DigitsOfHalf
  <2> HIDE DEF digits
  <2> QED BY <2>1, <2>2 DEF ToWord
<1>3. digits \in (- Hidden) .. (Hidden - 1) /\ (digits < 0 <=> neg)
      /\ (IF digits < 0 THEN - digits ELSE digits) = d
  <2> HIDE DEF d
  <2> QED BY <1>1
<1>4. ZagZig(word \div 2 ^ ExpBits, WordModulus) = digits
      /\ ZagZig(word % 2 ^ ExpBits, WordModulus) = e - 1
  <2> HIDE DEF digits
  <2> QED BY <1>3, WordParts
<1>5. (digits < 0) = neg
  <2> HIDE DEF digits
  <2> QED BY <1>3
<1>6. e - 1 + 1 = e
  OBVIOUS
<1> HIDE DEF word, d, digits
<1>7. FromWord(word) = LDExp(LDExp(Nearest(neg, d, 0), 1 - Precision), e)
  BY <1>3, <1>4, <1>5, <1>6 DEF FromWord
<1> QED BY <1>1, <1>2, <1>7 DEF d

\* Zero stays zero, and loses its sign.
LEMMA ZeroKept ==
  ASSUME FormatFits, NEW neg \in BOOLEAN, NEW u \in Undefined
  PROVE  FromWord(ToWord(Zero(neg), u)) = Zero(FALSE)
<1>1. /\ Precision \in Nat /\ Precision >= 2 /\ Lowest \in Int /\ Lowest < 0
      /\ Bias \in Nat /\ Bias > Precision + 3 /\ Hidden \in Nat \ {0}
      /\ Infinity \in Nat /\ Infinity > 0
  <2>1. (2 * Bias + 1) * Hidden > 0
    BY Format
  <2> QED BY <2>1, Format
<1>2. ASSUME NEW s \in BOOLEAN
      PROVE  /\ Zero(s).neg = s /\ Mantissa(Zero(s)) = 0 /\ Scale(Zero(s)) = Lowest
             /\ IsFinite(Zero(s)) /\ Zero(s).bits = 0
  <2> DEFINE z == Zero(s)
  <2>1. z.neg = s /\ z.bits = 0
    BY DEF Zero
  <2> HIDE DEF z
  <2>2. z.bits \div Hidden = 0 /\ 0 < Infinity
    BY <1>1, <2>1
  <2>3. Mantissa(z) = 0 /\ Scale(z) = Lowest /\ IsFinite(z)
    BY <1>1, <2>1, <2>2 DEF Field, Mantissa, Scale, IsFinite
  <2> QED BY <2>1, <2>3 DEF z
<1>3. ASSUME NEW s \in BOOLEAN, NEW n \in (1 - Bias) .. Bias
      PROVE  LDExp(Zero(s), n) = Zero(s)
  <2>1. LDExp(Zero(s), n) = Times(Zero(s), n)
    BY LDExpAtOnce
  <2>2. Nearest(s, 0, Lowest + n) = Zero(s)
    BY DEF Nearest
  <2> QED BY <1>2, <2>1, <2>2 DEF Times
<1>4. Precision - 1 \in (1 - Bias) .. Bias /\ 1 - Precision \in (1 - Bias) .. Bias
      /\ 0 \in (1 - Bias) .. Bias
  BY <1>1
<1>5. FRExp(Zero(neg)) = [x |-> Zero(neg), e |-> 0]
  BY <1>2 DEF FRExp
<1>6. Truncated(Zero(neg), u) = 0
  <2>1. BitLength[0] = 0
    BY BitLengthEquation
  <2>2. - Lowest > 0
    BY <1>1
  <2>3. Quotient(0, - Lowest) = 0
    BY <2>1, <2>2 DEF Quotient
  <2>4. ~(Lowest >= 0)
    BY <1>1
  <2> DEFINE size == Quotient(0, - Lowest)
  <2>5. Truncated(Zero(neg), u) = IF neg THEN - size ELSE size
    BY <1>2, <2>4 DEF Truncated
  <2>6. size \in Int /\ size + size = 0
    BY <2>3
  <2> HIDE DEF size
  <2>7. - size = 0 /\ size = 0
    BY <2>6
  <2> QED BY <2>5, <2>7
<1> DEFINE word == Or((ZigZag(0, WordModulus) * 2 ^ ExpBits) % WordModulus,
                      ZigZag(0 - 1, WordModulus))
<1>7. ToWord(Zero(neg), u) = word
  <2>1. FRExp(Zero(neg)).x = Zero(neg) /\ FRExp(Zero(neg)).e = 0
    BY <1>5
  <2>2. Truncated(LDExp(Zero(neg), Precision - 1), u) = 0
    BY <1>3, <1>4, <1>6
  <2> QED BY <2>1, <2>2 DEF ToWord
<1>8. ZagZig(word \div 2 ^ ExpBits, WordModulus) = 0
      /\ ZagZig(word % 2 ^ ExpBits, WordModulus) = 0 - 1
  <2>1. 0 \in (- Hidden) .. (Hidden - 1) /\ 0 - 1 \in (- (Bias + 1)) .. Bias
    BY <1>1
  <2> QED BY <2>1, WordParts
<1>9. Nearest(FALSE, 0, 0) = Zero(FALSE)
  BY DEF Nearest
<1> HIDE DEF word
<1>10. FromWord(word) = LDExp(LDExp(Nearest(FALSE, 0, 0), 1 - Precision), 0)
  <2>1. (0 < 0) = FALSE /\ (0 - 1) + 1 = 0
    OBVIOUS
  <2> QED BY <1>8, <2>1 DEF FromWord
<1> QED BY <1>3, <1>4, <1>7, <1>9, <1>10

\* A normal number loses the lowest bit of its significand.
LEMMA NormalKept ==
  ASSUME FormatFits, NEW neg \in BOOLEAN, NEW k \in Powers, NEW m \in Significands,
         NEW u \in Undefined
  PROVE  FromWord(ToWord(Normal(neg, k, m), u)) = Shortened(Normal(neg, k, m))
<1> DEFINE f == Normal(neg, k, m)
           e == k + 2 - Bias
           n == 2 * (m \div 2)
<1>1. /\ Bias \in Nat /\ Bias > 3 /\ MaxField = 2 * Bias + 1
      /\ Hidden \in Nat \ {0} /\ Hidden % 2 = 0
      /\ k \in 0 .. (2 * Bias - 1) /\ k \in Nat /\ m \in Nat
  BY Format DEF Powers, Significands
<1>2. e \in Int /\ e - 1 \in (- (Bias + 1)) .. Bias
  BY <1>1
<1>3. FRExp(f) = [x |-> Half(neg, m), e |-> e]
  BY FRExpNormal
<1>4. FromWord(ToWord(f, u)) = LDExp(Half(neg, n), e)
  <2> HIDE DEF f, e
  <2> QED BY <1>2, <1>3, WordOfHalf
<1>5. n \in Significands /\ n = m - (m % 2)
  BY HalfOfDigits
<1>6. LDExp(Half(neg, n), e) = Normal(neg, k, n)
  <2> HIDE DEF n
  <2> QED BY <1>5, HalfScaled
<1>7. f.bits = k * Hidden + m /\ f.bits # 0 /\ Field(f) # 0 /\ f.neg = neg
  BY NormalParts
<1>8. (k * Hidden + m) % 2 = m % 2 /\ k * Hidden \in Nat
  <2> DEFINE h == Hidden \div 2
  <2>1. h \in Nat /\ Hidden = 2 * h
    BY <1>1
  <2> HIDE DEF h
  <2>2. k * Hidden = 2 * (k * h) /\ k * h \in Nat
    BY <1>1, <2>1
  <2> DEFINE p == k * h
  <2> HIDE DEF p
  <2>3. p \in Nat /\ (2 * p + m) % 2 = m % 2
    BY <1>1, <2>2 DEF p
  <2> QED BY <2>2, <2>3 DEF p
<1>9. k * Hidden + m - (m % 2) = k * Hidden + n
  BY <1>1, <1>5, <1>8
<1>10. Shortened(f) = [neg |-> neg, bits |-> k * Hidden + m - (m % 2)]
  <2>1. [f EXCEPT !.bits = @ - (@ % 2)] = [neg |-> neg, bits |-> f.bits - (f.bits % 2)]
    BY DEF Normal
  <2> DEFINE b == f.bits
  <2>2. Shortened(f) = [f EXCEPT !.bits = @ - (@ % 2)]
    <3> HIDE DEF f
    <3> QED BY <1>7 DEF Shortened
  <2>3. Shortened(f) = [neg |-> neg, bits |-> b - (b % 2)]
    BY <2>1, <2>2
  <2>4. b = k * Hidden + m
    BY <1>7
  <2>5. b - (b % 2) = k * Hidden + m - (m % 2)
    <3> HIDE DEF b
    <3>1. k * Hidden + m - (m % 2) = (k * Hidden + m) - (m % 2)
      BY <1>1, <1>8
    <3> QED BY <1>8, <2>4, <3>1
  <2> HIDE DEF b, f
  <2> QED BY <2>3, <2>5
<1> QED BY <1>4, <1>6, <1>9, <1>10 DEF Normal

\* A denormal comes back whole.
LEMMA DenormalKept ==
  ASSUME FormatFits, NEW neg \in BOOLEAN, NEW m \in 1 .. (Hidden - 1), m >= Hidden \div 4,
         NEW u \in Undefined
  PROVE  FromWord(ToWord([neg |-> neg, bits |-> m], u)) = [neg |-> neg, bits |-> m]
<1>1. /\ Bias \in Nat /\ Bias > 3 /\ Precision \in Nat /\ Precision >= 2 /\ Hidden \in Nat \ {0}
      /\ m \in Nat \ {0}
  BY Format
<1>2. PICK l \in {Precision - 1, Precision - 2} : l >= 1 /\ 2 ^ (l - 1) <= m /\ m < 2 ^ l
  <2>1. CASE Precision = 2
    <3>1. Hidden = 2
      BY <2>1, PowerOne DEF Hidden
    <3>2. Precision - 1 = 1 /\ m = 1
      BY <2>1, <3>1
    <3>3. 2 ^ (1 - 1) <= 1 /\ 1 < 2 ^ 1
      OBVIOUS
    <3> QED BY <3>2, <3>3
  <2>2. CASE Precision > 2
    <3> DEFINE q == 2 ^ (Precision - 3)
    <3>1. Precision - 3 \in Nat /\ Precision - 2 \in Nat /\ (Precision - 3) + 1 = Precision - 2
          /\ (Precision - 2) + 1 = Precision - 1
          /\ (Precision - 2) - 1 = Precision - 3 /\ (Precision - 1) - 1 = Precision - 2
      BY <1>1, <2>2
    <3>2. q \in Nat \ {0}
      BY <3>1, PowerType
    <3>3. 2 ^ ((Precision - 3) + 1) = 2 * q
      BY <3>1, PowerOne
    <3>4. 2 ^ ((Precision - 2) + 1) = 2 * 2 ^ (Precision - 2)
      BY <3>1, PowerOne
    <3>5. 2 ^ (Precision - 2) = 2 * q /\ 2 ^ (Precision - 1) = 2 * (2 * q) /\ Hidden = 2 * (2 * q)
      BY <3>1, <3>3, <3>4 DEF Hidden
    <3> HIDE DEF q
    <3>6. m >= q /\ m < 2 * (2 * q)
      <4>1. Hidden \div 4 = q
        BY <3>2, <3>5
      <4> QED BY <1>1, <3>2, <3>5, <4>1
    <3>7. CASE m >= 2 * q
      <4>1. Precision - 1 >= 1 /\ 2 ^ ((Precision - 1) - 1) <= m /\ m < 2 ^ (Precision - 1)
        BY <1>1, <3>1, <3>5, <3>6, <3>7
      <4> QED BY <4>1
    <3>8. CASE m < 2 * q
      <4>1. Precision - 2 >= 1 /\ 2 ^ ((Precision - 2) - 1) <= m /\ m < 2 ^ (Precision - 2)
        BY <1>1, <2>2, <3>1, <3>5, <3>6, <3>8 DEF q
      <4> QED BY <4>1
    <3> QED BY <1>1, <3>2, <3>7, <3>8
  <2> QED BY <1>1, <2>1, <2>2
<1> DEFINE f == [neg |-> neg, bits |-> m]
           M == m * 2 ^ (Precision - l)
           e == l - Precision + 2 - Bias
<1>3. l \in 1 .. (Precision - 1) /\ e \in Int /\ e - 1 \in (- (Bias + 1)) .. Bias
  BY <1>1, <1>2
<1>4. M \in Significands /\ FRExp(f) = [x |-> Half(neg, M), e |-> e]
  BY <1>1, <1>2, <1>3, FRExpDenormal
<1>5. M \in Nat /\ 2 * (M \div 2) = M
  <2>1. PICK n \in Nat : M = 2 * n
    <3>1. CASE l = Precision - 1
      <4>1. Precision - l = 1
        BY <1>1, <3>1
      <4>2. m * 2 = 2 * m
        OBVIOUS
      <4> QED BY <1>1, <4>1, <4>2, PowerOne
    <3>2. CASE l = Precision - 2
      <4>1. Precision - l = 2
        BY <1>1, <3>2
      <4>2. 2 ^ 2 = 4
        OBVIOUS
      <4>3. m * 4 = 2 * (2 * m) /\ 2 * m \in Nat
        OBVIOUS
      <4>4. M = m * 4
        BY <4>1, <4>2
      <4> QED BY <4>3, <4>4
    <3> QED BY <3>1, <3>2
  <2> HIDE DEF M
  <2> QED BY <2>1
<1>6. LDExp(Half(neg, M), e) = f
  BY <1>1, <1>2, HalfScaledDown
<1>7. FromWord(ToWord(f, u)) = LDExp(Half(neg, 2 * (M \div 2)), e)
  <2> HIDE DEF f, M, e
  <2> QED BY <1>3, <1>4, WordOfHalf
<1> HIDE DEF M, e
<1> QED BY <1>5, <1>6, <1>7

-----------------------------------------------------------------------------
\* A finite float that is not too small comes back from its word as it was
\* but for the lowest bit of its significand and the sign of zero, whatever a
\* build makes of a float that does not fit the integer (util.cpp:39-166).
THEOREM FloatKept ==
  ASSUME FormatFits, NEW f \in Floats, Kept(f), NEW u \in Undefined
  PROVE  FromWord(ToWord(f, u)) = Shortened(f)
<1>1. f.neg \in BOOLEAN /\ f.bits \in Nat /\ Hidden \in Nat \ {0}
      /\ f = [neg |-> f.neg, bits |-> f.bits]
  BY Parts, Format DEF Floats
<1>2. CASE f.bits = 0
  <2>1. f = Zero(f.neg)
    BY <1>1, <1>2 DEF Zero
  <2>2. Shortened(f) = Zero(FALSE)
    BY <1>2 DEF Shortened
  <2> QED BY <1>1, <2>1, <2>2, ZeroKept
<1>3. CASE f.bits # 0 /\ Field(f) # 0
  <2>1. IsFinite(f)
    BY DEF Kept
  <2>2. PICK k \in Powers, m \in Significands : f = Normal(f.neg, k, m)
    BY <1>3, <2>1, NormalForm
  <2> QED BY <1>1, <2>2, NormalKept
<1>4. CASE f.bits # 0 /\ Field(f) = 0
  <2>1. f.bits \in 1 .. (Hidden - 1) /\ f.bits >= Hidden \div 4
    <3>1. f.bits < Hidden
      BY <1>1, <1>4, Division DEF Field
    <3> QED BY <1>1, <1>4, <3>1 DEF Kept
  <2>2. Shortened(f) = f
    BY <1>4 DEF Shortened
  <2> QED BY <1>1, <2>1, <2>2, DenormalKept
<1> QED BY <1>2, <1>3, <1>4

=============================================================================
