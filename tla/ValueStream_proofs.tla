-------------------------- MODULE ValueStream_proofs --------------------------
(***************************************************************************)
(* One value on its way through a stream: proofs of its properties for     *)
(* every width of a byte, a size and a buffer, and every format of floats. *)
(***************************************************************************)
EXTENDS ValueStream, Integers, FiniteSetTheorems, SequenceTheorems, TLAPS

\* The proofs about floats, and about numbers in general.
SP == INSTANCE FloatCodec_proofs
  WITH ExpBits <- SingleExpBits, Precision <- SinglePrecision, Boost <- SingleBoost

-----------------------------------------------------------------------------
(***************************************************************************)
(* Headers.                                                                *)
(***************************************************************************)
LEMMA Widths ==
  /\ ByteBits \in Nat /\ ByteBits >= 4 /\ TypeBits \in Nat /\ TypeBits >= 3 /\ TypeBits < ByteBits
  /\ ByteModulus \in Nat /\ ByteModulus = 2 * More /\ More \in Nat /\ More > 1
  /\ SizeBits \in Nat /\ SizeModulus \in Nat \ {0}
<1>1. /\ ByteBits \in Nat /\ ByteBits >= 4 /\ TypeBits \in Nat /\ TypeBits >= 3 /\ TypeBits < ByteBits
      /\ SizeBits \in Nat
  BY IntegerAssumption
<1>2. More \in Nat /\ ByteModulus = 2 * More
  <2>1. ByteBits - 1 \in Nat /\ (ByteBits - 1) + 1 = ByteBits
    BY <1>1
  <2> QED BY <2>1, SP!PowerOne, SP!PowerType DEF More, ByteModulus
<1>3. More > 1
  <2>1. ByteBits - 2 \in Nat /\ (ByteBits - 2) + 1 = ByteBits - 1
    BY <1>1
  <2>2. More = 2 * 2 ^ (ByteBits - 2) /\ 2 ^ (ByteBits - 2) \in Nat \ {0}
    BY <2>1, SP!PowerOne, SP!PowerType DEF More
  <2> QED BY <2>2
<1>4. SizeModulus \in Nat \ {0}
  BY <1>1, SP!PowerType DEF SizeModulus
<1>5. ByteModulus \in Nat
  BY <1>2
<1> QED BY <1>1, <1>2, <1>3, <1>4, <1>5

LEMMA HeaderFacts ==
  ASSUME NEW index \in Indices, NEW type \in 0 .. 7
  PROVE  /\ CreateHeader(index, type) \in Nat
         /\ GetHeaderType(CreateHeader(index, type)) = type
         /\ GetHeaderIndex(CreateHeader(index, type)) = index
<1> DEFINE t == 2 ^ TypeBits  i == 2 ^ (ByteBits - TypeBits)
<1>1. t \in Nat /\ t >= 8 /\ i \in Nat /\ ByteModulus = t * i
  <2>1. t \in Nat \ {0}
    BY Widths, SP!PowerType
  <2>2. 2 ^ 3 = 8 /\ 2 ^ 3 <= t
    <3>1. 2 ^ 3 = 8
      OBVIOUS
    <3>2. 2 ^ 3 <= t
      BY Widths, SP!PowerGrows
    <3> QED BY <3>1, <3>2
  <2>3. ByteModulus = t * i /\ i \in Nat \ {0}
    BY Widths, SP!PowerGrows DEF ByteModulus
  <2> QED BY <2>1, <2>2, <2>3
<1>2. index \in 0 .. (i - 1)
  BY DEF Indices
<1>3. index * t \in Nat /\ index * t < t * i
  <2> HIDE DEF t, i
  <2>1. index * t = t * index /\ t * index <= t * (i - 1) /\ t * (i - 1) = t * i - t
    BY <1>1, <1>2
  <2> QED BY <1>1, <1>2, <2>1
<1>4. (index * t) % ByteModulus = index * t
  <2> DEFINE x == index * t
  <2>1. x \in Nat /\ x < ByteModulus /\ ByteModulus \in Nat
    BY <1>1, <1>3, Widths
  <2> HIDE DEF x
  <2>2. x % ByteModulus = x
    BY <2>1, SP!Division
  <2> QED BY <2>2 DEF x
<1>5. type % t = type
  <2>1. t \in Nat \ {0} /\ type \in Nat /\ type < t
    BY <1>1
  <2> HIDE DEF t
  <2> QED BY <2>1, SP!Division
<1>6. CreateHeader(index, type) = t * index + type
  <2>1. CreateHeader(index, type) = index * t + type
    BY <1>4, <1>5 DEF CreateHeader
  <2> HIDE DEF t, i
  <2> QED BY <2>1, <1>1, <1>2
<1>7. (t * index + type) \div t = index /\ (t * index + type) % t = type /\ t * index + type \in Nat
  <2> HIDE DEF t, i
  <2>1. t \in Nat \ {0} /\ index \in Int /\ type \in 0 .. (t - 1)
    BY <1>1, <1>2
  <2>2. t * index \in Nat
    BY <1>1, <1>2
  <2> QED BY <2>1, <2>2, SP!Quotients
<1> QED BY <1>6, <1>7 DEF GetHeaderType, GetHeaderIndex

-----------------------------------------------------------------------------
Digit(n, i) == (n \div 2 ^ ((ByteBits - 1) * (i - 1))) % More

LEMMA Unit ==
  ASSUME NEW i \in Nat
  PROVE  /\ (ByteBits - 1) * i \in Nat
         /\ 2 ^ ((ByteBits - 1) * i) \in Nat \ {0}
         /\ 2 ^ ((ByteBits - 1) * (i + 1)) = 2 ^ ((ByteBits - 1) * i) * More
<1> DEFINE b == ByteBits - 1
<1>1. b \in Nat
  BY Widths
<1>2. b * i \in Nat /\ b * (i + 1) = b * i + b
  <2> HIDE DEF b
  <2> QED BY <1>1
<1>3. 2 ^ (b * i) \in Nat \ {0}
  BY <1>2, SP!PowerType
<1>4. 2 ^ (b * i + b) = 2 ^ (b * i) * 2 ^ b
  BY <1>1, <1>2, SP!PowerSum
<1> QED BY <1>2, <1>3, <1>4 DEF More

Body(f, n) == IF n >= More THEN <<(n % More) + More>> \o f[n \div More] ELSE <<n>>

LEMMA SizeBytesEquation ==
  ASSUME NEW n \in 0 .. (SizeModulus - 1)
  PROVE  /\ SizeBytes[n] = Body(SizeBytes, n)
         /\ n >= More => n \div More \in 0 .. (SizeModulus - 1) /\ n \div More < n
<1> DEFINE S == 0 .. (SizeModulus - 1)
           V == Seq(Nat)
           F == [f \in [S -> V] |-> [k \in S |-> Body(f, k)]]
<1>0. S \in SUBSET Nat /\ <<>> \in V
  BY Widths
<1>1. ASSUME NEW k \in S, k >= More PROVE k \div More \in S /\ k \div More < k
  <2>1. k \in Nat /\ More \in Nat \ {0} /\ More > 1 /\ k > 0
    BY <1>1, Widths
  <2>2. k \div More \in Nat /\ k \div More < k
    BY <2>1, SP!Division
  <2> QED BY <2>1, <2>2, Widths
<1>2. F \in [[S -> V] -> [S -> V]]
  <2>1. ASSUME NEW f \in [S -> V], NEW k \in S PROVE Body(f, k) \in V
    <3>1. CASE k >= More
      <4>1. f[k \div More] \in V
        BY <1>1, <3>1
      <4>2. (k % More) + More \in Nat
        BY <1>0, Widths, SP!Division
      <4> QED BY <3>1, <4>1, <4>2 DEF Body
    <3>2. CASE ~(k >= More)
      BY <3>2, <1>0 DEF Body
    <3> QED BY <3>1, <3>2
  <2> HIDE DEF S, V
  <2> QED BY <2>1
<1>3. SP!Descending(S, V, F)
  <2>1. ASSUME NEW k \in S, NEW p \in [S -> V], NEW q \in [S -> V], \A m \in S : m < k => p[m] = q[m]
        PROVE  F[p][k] = F[q][k]
    <3>1. Body(p, k) = Body(q, k)
      BY <1>1, <2>1 DEF Body
    <3> HIDE DEF S, V
    <3> QED BY <3>1
  <2> HIDE DEF S, V, F
  <2> QED BY <1>2, <2>1 DEF SP!Descending
<1>4. \E f \in [S -> V] : f = F[f]
  <2>1. V # {}
    BY <1>0
  <2> HIDE DEF S, V, F
  <2> QED BY <1>0, <1>3, <2>1, SP!StrongRecursion
<1>5. \E f : f = [k \in S |-> IF k >= More THEN <<(k % More) + More>> \o f[k \div More] ELSE <<k>>]
  <2>1. PICK f \in [S -> V] : f = F[f]
    BY <1>4
  <2>2. F[f] = [k \in S |-> Body(f, k)]
    <3> HIDE DEF S, V
    <3> QED OBVIOUS
  <2>3. f = [k \in S |-> Body(f, k)]
    <3> HIDE DEF S, V, F
    <3> QED BY <2>1, <2>2
  <2>4. f = [k \in S |-> IF k >= More THEN <<(k % More) + More>> \o f[k \div More] ELSE <<k>>]
    <3> HIDE DEF S, V, F
    <3> QED BY <2>3, Zenon DEF Body
  <2> HIDE DEF S, V, F
  <2> QED BY <2>4
<1>6. SizeBytes = [k \in S |-> IF k >= More THEN <<(k % More) + More>> \o SizeBytes[k \div More] ELSE <<k>>]
  BY <1>5, Zenon DEF SizeBytes
<1>7. SizeBytes[n] = Body(SizeBytes, n)
  <2> HIDE DEF S
  <2>1. n \in S
    BY DEF S
  <2> QED BY <1>6, <2>1 DEF Body
<1> QED BY <1>1, <1>7

\* The bytes of a size: all but the last say that more follow, and each has
\* the digit of its place.
SizeInBytes(n, b) ==
  /\ b \in Seq(Nat) /\ Len(b) > 0
  /\ \A i \in 1 .. (Len(b) - 1) : b[i] >= More
  /\ b[Len(b)] < More
  /\ \A i \in 1 .. Len(b) : b[i] % More = Digit(n, i)
  /\ n < 2 ^ ((ByteBits - 1) * Len(b))

LEMMA LastByte ==
  ASSUME NEW n \in Nat, n < More
  PROVE  SizeInBytes(n, <<n>>)
<1>1. n % More = n
  BY Widths, SP!Division
<1>2. (ByteBits - 1) * 0 = 0 /\ (ByteBits - 1) * 1 = ByteBits - 1
  BY Widths
<1>3. Digit(n, 1) = n
  <2>1. (ByteBits - 1) * (1 - 1) = 0
    BY <1>2
  <2>2. n \div 1 = n
    OBVIOUS
  <2> QED BY <1>1, <2>1, <2>2, SP!PowerOne DEF Digit
<1>4. n < 2 ^ ((ByteBits - 1) * 1)
  BY <1>2 DEF More
<1> DEFINE b == <<n>>
<1>5. b \in Seq(Nat) /\ Len(b) = 1 /\ b[1] = n
  OBVIOUS
<1> HIDE DEF b
<1>6. SizeInBytes(n, b)
  BY <1>1, <1>3, <1>4, <1>5 DEF SizeInBytes
<1> QED BY <1>6 DEF b

LEMMA MoreBytes ==
  ASSUME NEW n \in Nat, n >= More, NEW c, SizeInBytes(n \div More, c)
  PROVE  SizeInBytes(n, <<(n % More) + More>> \o c)
<1> DEFINE x == (n % More) + More
           b == <<x>> \o c
           q == n \div More
<1>1. x \in Nat /\ x >= More /\ x % More = n % More /\ q \in Nat
  <2>0. More \in Nat \ {0}
    BY Widths
  <2>1. n % More \in 0 .. (More - 1) /\ q \in Nat
    BY <2>0, SP!Division
  <2>2. (More * 1 + (n % More)) % More = n % More
    <3> DEFINE r == n % More  d == More
    <3>1. r \in 0 .. (d - 1) /\ d \in Nat \ {0}
      BY <2>0, <2>1
    <3>2. (d * 1 + r) % d = r
      <4> HIDE DEF r, d
      <4> QED BY <3>1, SP!Quotients
    <3> QED BY <3>2
  <2>3. More * 1 = More
    BY <2>0
  <2>4. More * 1 + (n % More) = (n % More) + More
    BY <2>0, <2>1
  <2> QED BY <2>0, <2>1, <2>2, <2>4
<1>2. c \in Seq(Nat) /\ Len(c) > 0 /\ Len(c) \in Nat
  BY DEF SizeInBytes
<1>3. /\ b \in Seq(Nat) /\ Len(b) = Len(c) + 1 /\ b[1] = x
      /\ \A i \in 1 .. Len(c) : b[i + 1] = c[i]
  <2> HIDE DEF x
  <2> QED BY <1>1, <1>2
<1> HIDE DEF x, b, q
<1>4. \A i \in 1 .. (Len(b) - 1) : b[i] >= More
  <2>1. ASSUME NEW i \in 1 .. (Len(b) - 1), i # 1 PROVE b[i] >= More
    <3>1. i - 1 \in 1 .. (Len(c) - 1) /\ i - 1 \in 1 .. Len(c) /\ (i - 1) + 1 = i
      BY <1>2, <1>3, <2>1
    <3>2. b[i] = c[i - 1] /\ c[i - 1] >= More
      BY <1>3, <3>1 DEF SizeInBytes
    <3> QED BY <3>2
  <2> QED BY <1>1, <1>3, <2>1
<1>5. b[Len(b)] < More
  <2>1. Len(c) \in 1 .. Len(c)
    BY <1>2
  <2> QED BY <1>3, <2>1 DEF SizeInBytes
<1>6. ASSUME NEW i \in Nat \ {0} PROVE Digit(n, i + 1) = Digit(q, i)
  <2> DEFINE p == 2 ^ ((ByteBits - 1) * (i - 1))
  <2>1. i - 1 \in Nat /\ (i - 1) + 1 = i /\ (i + 1) - 1 = i
    OBVIOUS
  <2>2. p \in Nat \ {0} /\ 2 ^ ((ByteBits - 1) * i) = p * More
    BY <2>1, Unit
  <2>3. p * More = More * p /\ (n \div More) \div p = n \div (More * p)
    <3> HIDE DEF p
    <3>1. p \in Nat \ {0} /\ More \in Nat \ {0}
      BY <2>2, Widths
    <3>2. (n \div More) \div p = n \div (More * p)
      <4> DEFINE d == More
      <4>1. d \in Nat \ {0}
        BY <3>1
      <4> HIDE DEF d
      <4>2. (n \div d) \div p = n \div (d * p)
        BY <3>1, <4>1
      <4> QED BY <4>2 DEF d
    <3>3. p * More = More * p
      BY <3>1
    <3> QED BY <3>2, <3>3
  <2>4. Digit(q, i) = ((n \div More) \div p) % More
    BY DEF Digit, q
  <2>5. Digit(n, i + 1) = (n \div 2 ^ ((ByteBits - 1) * i)) % More
    BY <2>1 DEF Digit
  <2> QED BY <2>2, <2>3, <2>4, <2>5
<1>7. Digit(n, 1) = n % More
  <2>1. (ByteBits - 1) * (1 - 1) = 0 /\ n \div 1 = n
    BY Widths
  <2> QED BY <2>1, SP!PowerOne DEF Digit
<1>8. ASSUME NEW i \in 1 .. Len(b) PROVE b[i] % More = Digit(n, i)
  <2>1. CASE i = 1
    BY <1>1, <1>3, <1>7, <2>1
  <2>2. CASE i # 1
    <3>1. i - 1 \in 1 .. Len(c) /\ (i - 1) + 1 = i /\ i - 1 \in Nat \ {0}
      BY <1>2, <1>3, <2>2
    <3>2. b[i] = c[i - 1] /\ c[i - 1] % More = Digit(q, i - 1)
      BY <1>3, <3>1 DEF SizeInBytes, q
    <3>3. Digit(n, i) = Digit(q, i - 1)
      BY <1>6, <3>1
    <3> QED BY <3>2, <3>3
  <2> QED BY <2>1, <2>2
<1>9. n < 2 ^ ((ByteBits - 1) * Len(b))
  <2> DEFINE p == 2 ^ ((ByteBits - 1) * Len(c))
  <2>1. p \in Nat \ {0} /\ 2 ^ ((ByteBits - 1) * Len(b)) = p * More
    BY <1>2, <1>3, Unit
  <2>2. q < p
    BY DEF SizeInBytes, q
  <2>3. n = More * q + (n % More) /\ n % More < More /\ More \in Nat \ {0}
    BY Widths, SP!Division DEF q
  <2>4. More * (q + 1) <= More * p /\ More * p = p * More /\ More * (q + 1) = More * q + More
    <3> HIDE DEF p
    <3>1. q \in Nat /\ p \in Nat /\ q + 1 <= p
      BY <1>1, <2>1, <2>2
    <3> QED BY <3>1, <2>3
  <2>5. n % More \in Nat /\ More * q \in Nat
    BY <2>3, <1>1, SP!Division
  <2>6. n < p * More
    <3> DEFINE mq == More * q
               mp == p * More
               rm == n % More
    <3>1. mp \in Nat
      BY <2>1, <2>3
    <3>2. mq \in Nat /\ rm \in Nat /\ More \in Nat /\ n = mq + rm /\ rm < More
      BY <2>3, <2>5
    <3>3. mq + More <= mp
      BY <2>4
    <3> HIDE DEF mq, mp, rm, p
    <3>4. n < mp
      BY ONLY <3>1, <3>2, <3>3
    <3> QED BY <3>4 DEF mp
  <2> QED BY <2>1, <2>6
<1> QED BY <1>3, <1>4, <1>5, <1>8, <1>9 DEF SizeInBytes, b, x

LEMMA SizeFacts ==
  ASSUME NEW n \in 0 .. (SizeModulus - 1)
  PROVE  SizeInBytes(n, WriteSize(n))
<1> DEFINE S == {k \in Nat : k < SizeModulus => SizeInBytes(k, SizeBytes[k])}
<1>1. ASSUME NEW k \in Nat, \A m \in Nat : m < k => m \in S PROVE k \in S
  <2> DEFINE top == SizeModulus
  <2>0. top \in Nat /\ More \in Nat /\ top = SizeModulus
    BY Widths
  <2> HIDE DEF top
  <2>1. CASE k < SizeModulus /\ k < More
    <3>0. k \in 0 .. (SizeModulus - 1) /\ ~(k >= More)
      BY <2>0, <2>1
    <3>1. SizeBytes[k] = <<k>>
      BY <3>0, SizeBytesEquation DEF Body
    <3> QED BY <2>1, <3>1, LastByte
  <2>2. CASE k < SizeModulus /\ ~(k < More)
    <3>1. k >= More /\ k \in 0 .. (SizeModulus - 1)
      BY <2>0, <2>2
    <3>2. /\ SizeBytes[k] = <<(k % More) + More>> \o SizeBytes[k \div More]
          /\ k \div More \in 0 .. (SizeModulus - 1) /\ k \div More < k
      BY <3>1, SizeBytesEquation DEF Body
    <3>3. SizeInBytes(k \div More, SizeBytes[k \div More])
      <4> DEFINE m == k \div More
      <4>1. m \in Nat /\ m < k /\ m < SizeModulus
        BY <2>0, <3>2
      <4> HIDE DEF m
      <4>2. SizeInBytes(m, SizeBytes[m])
        BY <1>1, <4>1
      <4> QED BY <4>2 DEF m
    <3>4. SizeInBytes(k, SizeBytes[k])
      BY <3>1, <3>2, <3>3, MoreBytes
    <3> QED BY <3>4
  <2> QED BY <2>1, <2>2
<1>2. Nat \subseteq S
  <2> HIDE DEF S
  <2> QED BY <1>1, SP!StrongInduction
<1>3. n \in Nat /\ n < SizeModulus
  BY Widths
<1> QED BY <1>2, <1>3 DEF WriteSize

-----------------------------------------------------------------------------
\* The bytes of n are in the wire from at on.
SizeAt(n, bytes, at) ==
  /\ bytes \in Seq(Nat) /\ at \in Nat \ {0}
  /\ at + Len(WriteSize(n)) - 1 <= Len(bytes)
  /\ \A i \in 1 .. Len(WriteSize(n)) : bytes[at + i - 1] = WriteSize(n)[i]

LEMMA SizeLengthRead ==
  ASSUME NEW n \in 0 .. (SizeModulus - 1), NEW bytes, NEW at, SizeAt(n, bytes, at)
  PROVE  SizeLength(bytes, at) = Len(WriteSize(n)) /\ Len(WriteSize(n)) \in Nat \ {0}
<1> DEFINE b == WriteSize(n)
           L == Len(b)
           top == Len(bytes) - at + 1
           Ends(k) == /\ k = top \/ bytes[at + k - 1] < More
                      /\ \A j \in 1 .. (k - 1) : bytes[at + j - 1] >= More
<1>1. /\ b \in Seq(Nat) /\ L \in Nat /\ L > 0 /\ b[L] < More
      /\ \A i \in 1 .. (L - 1) : b[i] >= More
  BY SizeFacts DEF SizeInBytes
<1>2. /\ bytes \in Seq(Nat) /\ at \in Nat /\ Len(bytes) \in Nat /\ L <= top /\ top \in Nat
      /\ \A i \in 1 .. L : bytes[at + i - 1] = b[i]
  BY <1>1 DEF SizeAt
<1>3. SizeLength(bytes, at) = CHOOSE k \in 1 .. top : Ends(k)
  BY DEF SizeLength
<1>4. More \in Nat
  BY Widths
<1>5. L \in 1 .. top /\ Ends(L)
  <2> HIDE DEF b, L, top
  <2>1. L \in 1 .. L /\ L \in 1 .. top
    BY <1>1, <1>2
  <2>2. bytes[at + L - 1] < More
    BY <1>1, <1>2, <2>1
  <2>3. ASSUME NEW j \in 1 .. (L - 1) PROVE bytes[at + j - 1] >= More
    <3>1. j \in 1 .. L
      BY <1>1, <2>3
    <3> QED BY <1>1, <1>2, <3>1
  <2> QED BY <2>1, <2>2, <2>3
<1>6. ASSUME NEW k \in 1 .. top, Ends(k) PROVE k = L
  <2> HIDE DEF b, L, top
  <2>1. ASSUME k < L PROVE FALSE
    <3>1. k \in 1 .. (L - 1) /\ k \in 1 .. L /\ k # top
      BY <1>1, <1>2, <2>1
    <3>2. bytes[at + k - 1] = b[k] /\ b[k] >= More /\ b[k] \in Nat
      <4>1. k \in 1 .. Len(b)
        BY <3>1 DEF L
      <4>2. bytes[at + k - 1] = b[k]
        BY <1>2, <3>1
      <4>3. b[k] >= More
        BY <1>1, <3>1
      <4>4. b[k] \in Nat
        <5>1. b \in Seq(Nat)
          BY <1>1
        <5> QED BY <4>1, <5>1
      <4> QED BY <4>2, <4>3, <4>4
    <3>3. bytes[at + k - 1] < More
      BY <1>6, <3>1
    <3> QED BY <3>2, <3>3, <1>4
  <2>2. ASSUME L < k PROVE FALSE
    <3>1. L \in 1 .. (k - 1) /\ L \in 1 .. L
      BY <1>1, <1>2, <2>2
    <3>2. bytes[at + L - 1] = b[L] /\ b[L] \in Nat
      <4>1. L \in 1 .. Len(b)
        BY <3>1 DEF L
      <4>2. bytes[at + L - 1] = b[L]
        BY <1>2, <3>1
      <4>3. b[L] \in Nat
        <5>1. b \in Seq(Nat)
          BY <1>1
        <5> QED BY <4>1, <5>1
      <4> QED BY <4>2, <4>3
    <3>3. bytes[at + L - 1] >= More
      BY <1>6, <3>1
    <3> QED BY <1>1, <1>4, <3>2, <3>3
  <2> QED BY <1>1, <1>2, <2>1, <2>2
<1>7. (CHOOSE k \in 1 .. top : Ends(k)) = L
  <2> HIDE DEF Ends, L, top
  <2> QED BY <1>5, <1>6
<1> QED BY <1>1, <1>3, <1>7

LEMMA SizeRead ==
  ASSUME NEW n \in 0 .. (SizeModulus - 1), NEW bytes, NEW at, SizeAt(n, bytes, at)
  PROVE  ReadSize(bytes, at) = n
<1> DEFINE b == WriteSize(n)
           L == SizeLength(bytes, at)
           P(i) == 2 ^ ((ByteBits - 1) * i)
           Plus(s, k) == s + (bytes[at + k - 1] % More) * P(k - 1)
           G == [p \in (1 .. L) \X Int |-> Plus(p[2], p[1])]
           sum[k \in 0 .. L] ==
             IF k = 0 THEN 0
             ELSE sum[k - 1] + (bytes[at + k - 1] % More) * P(k - 1)
<1>1. /\ b \in Seq(Nat) /\ L = Len(b) /\ L \in Nat \ {0} /\ More \in Nat \ {0} /\ n \in Nat
      /\ \A i \in 1 .. L : b[i] % More = Digit(n, i)
      /\ n < P(L)
  BY SizeFacts, SizeLengthRead, Widths DEF SizeInBytes
<1>2. \A k \in 1 .. L : bytes[at + k - 1] % More = Digit(n, k)
  <2> HIDE DEF b, L
  <2> QED BY <1>1 DEF SizeAt, b
<1>3. \A i \in Nat : P(i) \in Nat \ {0} /\ P(i + 1) = P(i) * More
  BY Unit
<1>4. \A k \in 1 .. L : (bytes[at + k - 1] % More) * P(k - 1) = Digit(n, k) * P(k - 1)
                        /\ Digit(n, k) * P(k - 1) \in Nat
                        /\ Digit(n, k) = (n \div P(k - 1)) % More
                        /\ Digit(n, k) \in Nat
  <2>1. ASSUME NEW k \in 1 .. L
        PROVE  /\ (bytes[at + k - 1] % More) * P(k - 1) = Digit(n, k) * P(k - 1)
               /\ Digit(n, k) * P(k - 1) \in Nat
               /\ Digit(n, k) = (n \div P(k - 1)) % More
               /\ Digit(n, k) \in Nat
    <3>1. k - 1 \in Nat
      BY <1>1
    <3>2. P(k - 1) \in Nat \ {0}
      BY <1>3, <3>1
    <3>3. Digit(n, k) = (n \div P(k - 1)) % More
      BY DEF Digit
    <3>4. Digit(n, k) \in Nat
      <4> HIDE DEF P
      <4>1. n \div P(k - 1) \in Nat
        BY <1>1, <3>2, SP!Division, Zenon
      <4> QED BY <1>1, <3>3, <4>1
    <3>5. Digit(n, k) * P(k - 1) \in Nat
      <4> HIDE DEF P
      <4> QED BY <3>2, <3>4
    <3> QED BY <1>2, <3>3, <3>4, <3>5
  <2> QED BY <2>1
<1> HIDE DEF L, P
<1>5. G \in [(1 .. L) \X Int -> Int]
  <2>1. ASSUME NEW k \in 1 .. L, NEW s \in Int PROVE Plus(s, k) \in Int
    BY <1>4
  <2> HIDE DEF Plus
  <2> QED BY <2>1
<1>6. PICK f \in [0 .. L -> Int] : f[0] = 0 /\ \A k \in 1 .. L : f[k] = Plus(f[k - 1], k)
  <2> DEFINE V == Int
  <2>1. 0 \in V /\ G \in [(1 .. L) \X V -> V]
    BY <1>5
  <2>2. \E f \in [0 .. L -> V] : SP!RecursiveUpto(L, f, 0, G)
    <3> HIDE DEF V, G
    <3> QED BY <1>1, <2>1, SP!RecursionUpto
  <2>3. PICK f \in [0 .. L -> V] : SP!RecursiveUpto(L, f, 0, G)
    BY <2>2
  <2>4. ASSUME NEW k \in 1 .. L PROVE f[k] = Plus(f[k - 1], k)
    <3>1. k - 1 \in 0 .. L
      BY <1>1
    <3>2. f[k - 1] \in V
      BY <2>3, <3>1
    <3>3. f[k] = G[<<k, f[k - 1]>>]
      BY <2>3 DEF SP!RecursiveUpto
    <3> HIDE DEF Plus
    <3> QED BY <3>2, <3>3
  <2>5. f[0] = 0
    BY <2>3 DEF SP!RecursiveUpto
  <2> HIDE DEF Plus
  <2> QED BY <2>3, <2>4, <2>5
<1>7. f = [k \in 0 .. L |-> IF k = 0 THEN 0 ELSE f[k - 1] + (bytes[at + k - 1] % More) * P(k - 1)]
  <2>1. ASSUME NEW k \in 0 .. L PROVE f[k] = IF k = 0 THEN 0 ELSE Plus(f[k - 1], k)
    <3> HIDE DEF Plus
    <3>1. k # 0 => k \in 1 .. L
      BY <1>1
    <3> QED BY <1>6, <3>1
  <2>2. f = [k \in 0 .. L |-> IF k = 0 THEN 0 ELSE Plus(f[k - 1], k)]
    <3> HIDE DEF Plus
    <3> QED BY <1>6, <2>1
  <2> QED BY <2>2, Zenon
<1>8. sum = [k \in 0 .. L |-> IF k = 0 THEN 0 ELSE sum[k - 1] + (bytes[at + k - 1] % More) * P(k - 1)]
  BY <1>7, Zenon
<1>9. ReadSize(bytes, at) = sum[L] % SizeModulus
  BY DEF ReadSize, L, P
<1> HIDE DEF sum
<1> DEFINE S == {k \in 0 .. L : sum[k] = n % P(k)}
<1>10. 0 \in S
  <2>1. P(0) = 1
    <3>1. (ByteBits - 1) * 0 = 0
      BY Widths
    <3> QED BY <3>1, SP!PowerOne DEF P
  <2>2. n % 1 = 0
    BY <1>1
  <2>3. sum[0] = 0
    BY <1>1, <1>8
  <2> QED BY <1>1, <2>1, <2>2, <2>3
<1>11. ASSUME NEW k \in 1 .. L, k - 1 \in S PROVE k \in S
  <2>0. k - 1 \in Nat /\ (k - 1) + 1 = k /\ k \in 0 .. L /\ k # 0
    BY <1>1
  <2> DEFINE p == P(k - 1)
  <2>1. sum[k] = (n % p) + (bytes[at + k - 1] % More) * p
    BY <1>8, <1>11, <2>0
  <2>2. (bytes[at + k - 1] % More) * p = ((n \div p) % More) * p
    BY <1>4
  <2>3. p \in Nat \ {0} /\ P(k) = p * More
    BY <1>3, <2>0
  <2>4. n % (p * More) = (n % p) + p * ((n \div p) % More)
    <3>1. More \in Nat \ {0} /\ n \in Nat /\ p \in Nat \ {0}
      BY <1>1, <2>3
    <3> HIDE DEF p
    <3> QED BY <3>1, SP!NextDigit
  <2>5. ((n \div p) % More) * p = p * ((n \div p) % More)
    <3> HIDE DEF p
    <3>1. (n \div p) % More \in Int
      BY <1>1, <2>3
    <3> QED BY <2>3, <3>1
  <2>6. sum[k] = n % P(k)
    <3> HIDE DEF p
    <3> QED BY <2>1, <2>2, <2>3, <2>4, <2>5
  <2> QED BY <2>0, <2>6
<1>12. L \in S
  <2>1. 0 .. L \subseteq S
    <3> HIDE DEF S
    <3> QED BY <1>1, <1>10, <1>11, SP!InductionUpto
  <2>2. L \in 0 .. L
    BY <1>1
  <2> HIDE DEF S
  <2> QED BY <2>1, <2>2
<1>13. n % P(L) = n
  <2>1. P(L) \in Nat \ {0} /\ n \in Nat /\ n < P(L)
    BY <1>1, <1>3
  <2> QED BY <2>1, SP!Division, Zenon
<1>14. n % SizeModulus = n
  <2>1. SizeModulus \in Nat \ {0} /\ n \in Nat /\ n < SizeModulus
    BY <1>1, Widths
  <2> QED BY <2>1, SP!Division, Zenon
<1> QED BY <1>9, <1>12, <1>13, <1>14

-----------------------------------------------------------------------------
(***************************************************************************)
(* Packed booleans.                                                        *)
(***************************************************************************)
LEMMA BitAdded ==
  ASSUME NEW k \in Nat, NEW v \in 0 .. (2 ^ k - 1), NEW d \in {0, 1}
  PROVE  /\ v + d * 2 ^ k \in 0 .. (2 ^ (k + 1) - 1)
         /\ ((v + d * 2 ^ k) \div 2 ^ k) % 2 = d
         /\ \A i \in 0 .. (k - 1) : ((v + d * 2 ^ k) \div 2 ^ i) % 2 = (v \div 2 ^ i) % 2
<1> DEFINE p == 2 ^ k
           w == v + d * p
<1>1. p \in Nat \ {0} /\ 2 ^ (k + 1) = 2 * p
  BY SP!PowerType, SP!PowerOne
<1>2. w = p * d + v /\ w \in 0 .. (2 * p - 1) /\ d \in Int /\ v \in 0 .. (p - 1)
  <2>1. v \in 0 .. (p - 1)
    OBVIOUS
  <2> HIDE DEF p
  <2> QED BY <1>1, <2>1
<1>3. (w \div p) % 2 = d
  <2>1. (p * d + v) \div p = d
    <3> HIDE DEF p
    <3> QED BY <1>1, <1>2, SP!Quotients
  <2>2. d % 2 = d
    OBVIOUS
  <2> HIDE DEF p, w
  <2> QED BY <1>2, <2>1, <2>2
<1>4. ASSUME NEW i \in 0 .. (k - 1) PROVE (w \div 2 ^ i) % 2 = (v \div 2 ^ i) % 2
  <2> DEFINE a == 2 ^ i
             c == 2 ^ (k - (i + 1))
             q == v \div a
             r == v % a
             s == q + 2 * (c * d)
  <2>1. i \in Nat /\ i + 1 \in Nat /\ i + 1 <= k /\ k - (i + 1) \in Nat
    OBVIOUS
  <2>2. a \in Nat \ {0} /\ c \in Nat \ {0}
    BY <2>1, SP!PowerType
  <2>3. p = a * (2 * c)
    <3>1. p = 2 ^ (i + 1) * c /\ 2 ^ (i + 1) = 2 * a
      BY <2>1, SP!PowerGrows, SP!PowerOne
    <3> HIDE DEF p, a, c
    <3> QED BY <2>2, <3>1
  <2>4. q \in Nat /\ r \in 0 .. (a - 1) /\ v = a * q + r /\ v \in Nat
    <3>1. v \in Nat
      BY <1>1
    <3> HIDE DEF a
    <3> QED BY <2>2, <3>1, SP!Division
  <2>5. s \in Int /\ w = a * s + r
    <3>1. w = a * q + r + d * (a * (2 * c))
      BY <2>3, <2>4
    <3>2. c * d \in Nat
      BY <2>2, <1>2
    <3>3. d * (a * (2 * c)) = a * (2 * (c * d))
      <4> HIDE DEF a, c
      <4> QED BY <2>2, <1>2
    <3>4. a * (q + 2 * (c * d)) = a * q + a * (2 * (c * d))
      <4> DEFINE x == 2 * (c * d)
      <4>1. x \in Nat
        BY <3>2
      <4> HIDE DEF a, c, x, q
      <4>2. a * (q + x) = a * q + a * x
        BY <2>2, <2>4, <4>1
      <4> QED BY <4>2 DEF x
    <3>5. a * q \in Nat /\ a * (2 * (c * d)) \in Nat
      <4> HIDE DEF a, c, q
      <4> QED BY <2>2, <2>4, <3>2
    <3> HIDE DEF a, c, q, w
    <3> QED BY <2>2, <2>4, <3>1, <3>2, <3>3, <3>4, <3>5
  <2>6. (a * s + r) \div a = s
    <3> HIDE DEF a, s, r
    <3> QED BY <2>2, <2>4, <2>5, SP!Quotients
  <2>7. s % 2 = q % 2
    <3> DEFINE x == c * d
    <3>1. x \in Nat
      BY <2>2, <1>2
    <3>2. (q + 2 * x) % 2 = q % 2
      <4> HIDE DEF x, q
      <4> QED BY <2>4, <3>1
    <3> QED BY <3>2
  <2>8. w \div a = s
    <3> HIDE DEF a, s, r, w
    <3> QED BY <2>5, <2>6
  <2> HIDE DEF s, w
  <2> QED BY <2>7, <2>8
<1> QED BY <1>1, <1>2, <1>3, <1>4

LEMMA ByteOfBits ==
  ASSUME NEW values \in Seq(BOOLEAN), NEW first \in Nat, NEW count \in 0 .. ByteBits,
         first + count <= Len(values)
  PROVE  /\ ByteOf(values, first, count) \in Nat
         /\ \A i \in 0 .. (count - 1) :
              (ByteOf(values, first, count) \div 2 ^ i) % 2
                = IF values[first + i + 1] THEN 1 ELSE 0
<1> DEFINE D(k) == IF values[first + k] THEN 1 ELSE 0
           Plus(v, k) == v + (IF values[first + k] THEN 2 ^ (k - 1) ELSE 0)
           G == [p \in (1 .. count) \X Int |-> Plus(p[2], p[1])]
           byte[k \in 0 .. count] ==
             IF k = 0 THEN 0
             ELSE byte[k - 1] + (IF values[first + k] THEN 2 ^ (k - 1) ELSE 0)
<1>1. count \in Nat /\ ByteBits \in Nat /\ count <= ByteBits
  BY Widths
<1>2. \A k \in 1 .. count : k - 1 \in Nat /\ 2 ^ (k - 1) \in Nat \ {0}
  <2>1. \A k \in 1 .. count : k - 1 \in Nat
    BY <1>1
  <2> QED BY <2>1, SP!PowerType
<1>3. PICK f \in [0 .. count -> Int] : f[0] = 0 /\ \A k \in 1 .. count : f[k] = Plus(f[k - 1], k)
  <2> DEFINE V == Int
  <2>1. 0 \in V /\ G \in [(1 .. count) \X V -> V]
    <3>1. ASSUME NEW k \in 1 .. count, NEW v \in Int PROVE Plus(v, k) \in Int
      BY <1>2
    <3> HIDE DEF Plus
    <3> QED BY <3>1
  <2>2. \E f \in [0 .. count -> V] : SP!RecursiveUpto(count, f, 0, G)
    <3> HIDE DEF V, G
    <3> QED BY <1>1, <2>1, SP!RecursionUpto
  <2>3. PICK f \in [0 .. count -> V] : SP!RecursiveUpto(count, f, 0, G)
    BY <2>2
  <2>4. ASSUME NEW k \in 1 .. count PROVE f[k] = Plus(f[k - 1], k)
    <3>1. k - 1 \in 0 .. count
      BY <1>1
    <3>2. f[k - 1] \in V
      BY <2>3, <3>1
    <3>3. f[k] = G[<<k, f[k - 1]>>]
      BY <2>3 DEF SP!RecursiveUpto
    <3> HIDE DEF Plus
    <3> QED BY <3>2, <3>3
  <2>5. f[0] = 0
    BY <2>3 DEF SP!RecursiveUpto
  <2> HIDE DEF Plus
  <2> QED BY <2>3, <2>4, <2>5
<1>4. f = [k \in 0 .. count |-> IF k = 0 THEN 0 ELSE f[k - 1] + (IF values[first + k] THEN 2 ^ (k - 1) ELSE 0)]
  <2>1. ASSUME NEW k \in 0 .. count PROVE f[k] = IF k = 0 THEN 0 ELSE Plus(f[k - 1], k)
    <3> HIDE DEF Plus
    <3>1. k # 0 => k \in 1 .. count
      BY <1>1
    <3> QED BY <1>3, <3>1
  <2>2. f = [k \in 0 .. count |-> IF k = 0 THEN 0 ELSE Plus(f[k - 1], k)]
    <3> HIDE DEF Plus
    <3> QED BY <1>3, <2>1
  <2> QED BY <2>2, Zenon
<1>5. byte = [k \in 0 .. count |-> IF k = 0 THEN 0 ELSE byte[k - 1] + (IF values[first + k] THEN 2 ^ (k - 1) ELSE 0)]
  BY <1>4, Zenon
<1>6. ByteOf(values, first, count) = byte[count] % ByteModulus
  BY DEF ByteOf
<1> HIDE DEF byte
<1> DEFINE Good(k) == /\ byte[k] \in 0 .. (2 ^ k - 1)
                      /\ \A i \in 0 .. (k - 1) : (byte[k] \div 2 ^ i) % 2 = D(i + 1)
           S == {k \in 0 .. count : Good(k)}
<1>7. 0 \in S
  <2>1. byte[0] = 0
    BY <1>1, <1>5
  <2> QED BY <1>1, <2>1, SP!PowerOne
<1>8. ASSUME NEW k \in 1 .. count, k - 1 \in S PROVE k \in S
  <2> DEFINE j == k - 1
             v == byte[j]
  <2>1. j \in Nat /\ j + 1 = k /\ k \in 0 .. count /\ k # 0
    BY <1>1
  <2>2. v \in 0 .. (2 ^ j - 1) /\ \A i \in 0 .. (j - 1) : (v \div 2 ^ i) % 2 = D(i + 1)
    BY <1>8
  <2>3. byte[k] = v + (IF values[first + k] THEN 2 ^ j ELSE 0)
    BY <1>5, <2>1
  <2>4. byte[k] = v + D(k) * 2 ^ j
    <3>1. 2 ^ j \in Nat \ {0}
      BY <1>2
    <3> QED BY <2>3, <3>1
  <2>5. D(k) \in {0, 1}
    OBVIOUS
  <2> HIDE DEF D, v, j
  <2>6. /\ v + D(k) * 2 ^ j \in 0 .. (2 ^ (j + 1) - 1)
        /\ ((v + D(k) * 2 ^ j) \div 2 ^ j) % 2 = D(k)
        /\ \A i \in 0 .. (j - 1) : ((v + D(k) * 2 ^ j) \div 2 ^ i) % 2 = (v \div 2 ^ i) % 2
    BY <2>1, <2>2, <2>5, BitAdded
  <2>7. byte[k] \in 0 .. (2 ^ k - 1)
    BY <2>1, <2>4, <2>6
  <2>8. ASSUME NEW i \in 0 .. (k - 1) PROVE (byte[k] \div 2 ^ i) % 2 = D(i + 1)
    <3>1. CASE i = j
      BY <2>1, <2>4, <2>6, <3>1
    <3>2. CASE i # j
      <4>1. i \in 0 .. (j - 1)
        BY <2>1, <3>2
      <4> QED BY <2>2, <2>4, <2>6, <4>1
    <3> QED BY <3>1, <3>2
  <2> QED BY <2>1, <2>7, <2>8
<1>9. Good(count)
  <2>1. 0 .. count \subseteq S
    <3> HIDE DEF S
    <3> QED BY <1>1, <1>7, <1>8, SP!InductionUpto
  <2>2. count \in 0 .. count
    BY <1>1
  <2> HIDE DEF Good
  <2> QED BY <2>1, <2>2
<1>10. byte[count] % ByteModulus = byte[count] /\ byte[count] \in Nat
  <2>1. 2 ^ count <= 2 ^ ByteBits /\ 2 ^ count \in Nat \ {0} /\ 2 ^ ByteBits \in Nat \ {0}
    BY <1>1, SP!PowerGrows, SP!PowerType
  <2>2. byte[count] \in Nat /\ byte[count] < ByteModulus /\ ByteModulus \in Nat \ {0}
    BY <1>9, <2>1 DEF ByteModulus
  <2> QED BY <2>2, SP!Division, Zenon
<1> HIDE DEF byte
<1> QED BY <1>6, <1>9, <1>10

\* All rounds together have room for every byte there is.
LEMMA RoundsSuffice ==
  ASSUME NEW size \in Nat
  PROVE  Rounds(size) \in Nat /\ Rounds(size) * BlockBytes >= size
<1>1. BlockBytes \in Nat \ {0}
  BY ValueAssumption
<1> DEFINE n == size + BlockBytes - 1
           q == n \div BlockBytes
<1>2. n \in Nat
  BY <1>1
<1>3. q \in Nat /\ n % BlockBytes \in 0 .. (BlockBytes - 1) /\ n = BlockBytes * q + (n % BlockBytes)
  <2> HIDE DEF n
  <2> QED BY <1>1, <1>2, SP!Division
<1>4. BlockBytes * q = q * BlockBytes /\ BlockBytes * q \in Nat
  <2> HIDE DEF q
  <2> QED BY <1>1, <1>3
<1>5. q * BlockBytes >= size
  <2> DEFINE x == BlockBytes * q  r == n % BlockBytes
  <2>1. x \in Nat /\ r \in 0 .. (BlockBytes - 1) /\ size + BlockBytes - 1 = x + r /\ x = q * BlockBytes
    BY <1>3, <1>4
  <2> HIDE DEF x, r, q
  <2> QED BY <1>1, <2>1
<1> QED BY <1>3, <1>5 DEF Rounds

LEMMA WholeBytesFact ==
  ASSUME NEW size \in Nat
  PROVE  WholeBytes(size) = size \div ByteBits /\ size \div ByteBits \in Nat
<1> DEFINE q == size \div ByteBits
           Step(t) == LET left == (size - t * ByteBits) \div ByteBits
                      IN  t + (IF left < BlockBytes THEN left ELSE BlockBytes)
           G == [p \in Nat \X Int |-> Step(p[2])]
           taken[k \in Nat] ==
             IF k = 0 THEN 0
             ELSE LET left == (size - taken[k - 1] * ByteBits) \div ByteBits
                  IN  taken[k - 1] + (IF left < BlockBytes THEN left ELSE BlockBytes)
<1>1. ByteBits \in Nat \ {0} /\ BlockBytes \in Nat \ {0}
  BY Widths, ValueAssumption
<1>2. q \in Nat
  BY <1>1
<1>3. \A t \in Int : (size - t * ByteBits) \div ByteBits = q - t
  <2>1. ASSUME NEW t \in Int PROVE (size - t * ByteBits) \div ByteBits = q - t
    <3> DEFINE r == size % ByteBits
    <3>1. r \in 0 .. (ByteBits - 1) /\ size = ByteBits * q + r
      BY <1>1, SP!Division
    <3>2. size - t * ByteBits = ByteBits * (q - t) + r
      <4> HIDE DEF q, r
      <4>1. ByteBits * (q - t) = ByteBits * q - t * ByteBits
        BY <1>1, <1>2
      <4>2. ByteBits * q \in Int /\ t * ByteBits \in Int /\ r \in Int
        BY <1>1, <1>2, <3>1
      <4> QED BY <3>1, <4>1, <4>2
    <3>3. (ByteBits * (q - t) + r) \div ByteBits = q - t
      <4> DEFINE x == q - t
      <4>1. x \in Int
        BY <1>2
      <4> HIDE DEF x, r
      <4> QED BY <1>1, <3>1, <4>1, SP!Quotients
    <3> QED BY <3>2, <3>3
  <2> QED BY <2>1
<1>4. \A t \in Int : Step(t) = IF q - t < BlockBytes THEN q ELSE t + BlockBytes
  <2> TAKE t \in Int
  <2> DEFINE left == (size - t * ByteBits) \div ByteBits
  <2>1. left = q - t
    BY <1>3
  <2>2. Step(t) = t + (IF left < BlockBytes THEN left ELSE BlockBytes)
    OBVIOUS
  <2> HIDE DEF q, left, Step
  <2> QED BY <1>2, <2>1, <2>2
<1>5. PICK f \in [Nat -> Int] : f[0] = 0 /\ \A n \in Nat : f[n + 1] = Step(f[n])
  <2> DEFINE V == Int
  <2>1. 0 \in V /\ G \in [Nat \X V -> V]
    <3>1. \A t \in Int : Step(t) \in Int
      BY <1>1, <1>2, <1>4
    <3> HIDE DEF Step
    <3> QED BY <3>1
  <2>2. \E f \in [Nat -> V] : SP!Recursive(f, 0, G)
    <3> HIDE DEF G, V
    <3> QED BY <2>1, SP!Recursion
  <2>3. PICK f \in [Nat -> V] : SP!Recursive(f, 0, G)
    BY <2>2
  <2>4. ASSUME NEW n \in Nat PROVE f[n + 1] = Step(f[n])
    <3> HIDE DEF Step
    <3> QED BY <2>3 DEF SP!Recursive
  <2>5. f[0] = 0
    BY <2>3 DEF SP!Recursive
  <2> HIDE DEF Step
  <2> QED BY <2>3, <2>4, <2>5
<1>6. f = [k \in Nat |-> IF k = 0 THEN 0
             ELSE LET left == (size - f[k - 1] * ByteBits) \div ByteBits
                  IN  f[k - 1] + (IF left < BlockBytes THEN left ELSE BlockBytes)]
  <2>1. \A k \in Nat : f[k] = IF k = 0 THEN 0 ELSE Step(f[k - 1])
    <3> HIDE DEF Step
    <3> TAKE k \in Nat
    <3>1. CASE k # 0
      <4>1. k - 1 \in Nat /\ (k - 1) + 1 = k
        BY <3>1
      <4> QED BY <1>5, <3>1, <4>1
    <3> QED BY <1>5, <3>1
  <2>2. f = [k \in Nat |-> IF k = 0 THEN 0 ELSE Step(f[k - 1])]
    <3> HIDE DEF Step
    <3> QED BY <2>1
  <2> QED BY <2>2
<1>7. taken = [k \in Nat |-> IF k = 0 THEN 0
             ELSE LET left == (size - taken[k - 1] * ByteBits) \div ByteBits
                  IN  taken[k - 1] + (IF left < BlockBytes THEN left ELSE BlockBytes)]
  BY <1>6, Zenon
<1>8. WholeBytes(size) = taken[Rounds(size)]
  BY DEF WholeBytes
<1>9. taken[0] = 0 /\ \A k \in Nat : taken[k + 1] = Step(taken[k])
  <2> HIDE DEF Step, taken
  <2>1. taken = [k \in Nat |-> IF k = 0 THEN 0 ELSE Step(taken[k - 1])]
    BY <1>7 DEF Step
  <2>2. taken[0] = 0
    BY <2>1
  <2>3. ASSUME NEW k \in Nat PROVE taken[k + 1] = Step(taken[k])
    <3>1. k + 1 \in Nat /\ k + 1 # 0 /\ (k + 1) - 1 = k
      OBVIOUS
    <3>2. taken[k + 1] = Step(taken[(k + 1) - 1])
      BY <2>1, <3>1
    <3> QED BY <3>1, <3>2
  <2> QED BY <2>2, <2>3
<1> HIDE DEF taken
<1> DEFINE S == {k \in Nat : taken[k] = IF q < k * BlockBytes THEN q ELSE k * BlockBytes}
<1>10. 0 \in S
  <2>1. 0 * BlockBytes = 0
    BY <1>1
  <2> HIDE DEF q
  <2> QED BY <1>2, <1>9, <2>1
<1>11. ASSUME NEW k \in Nat, k \in S PROVE k + 1 \in S
  <2>1. k * BlockBytes \in Nat /\ (k + 1) * BlockBytes = k * BlockBytes + BlockBytes
    BY <1>1
  <2> DEFINE x == k * BlockBytes  t == taken[k]
  <2>2. t = (IF q < x THEN q ELSE x) /\ t \in Int
    <3> HIDE DEF q
    <3> QED BY <1>2, <1>11, <2>1
  <2>3. taken[k + 1] = IF q - t < BlockBytes THEN q ELSE t + BlockBytes
    <3> HIDE DEF q, Step, t
    <3> QED BY <1>4, <1>9, <2>2 DEF t
  <2>4. taken[k + 1] = IF q < x + BlockBytes THEN q ELSE x + BlockBytes
    <3>1. x \in Nat
      BY <2>1
    <3> HIDE DEF q, t, x
    <3> QED BY <1>1, <1>2, <2>2, <2>3, <3>1
  <2> HIDE DEF q
  <2> QED BY <2>1, <2>4
<1>12. Nat \subseteq S
  <2> HIDE DEF S
  <2> QED BY <1>10, <1>11, SP!Induction
<1>13. taken[Rounds(size)] = q
  <2> DEFINE x == Rounds(size) * BlockBytes
  <2>1. Rounds(size) \in Nat /\ x >= size
    BY RoundsSuffice
  <2>2. q <= size
    BY <1>1, SP!Division
  <2>3. x \in Nat
    BY <1>1, <2>1
  <2>4. taken[Rounds(size)] = IF q < x THEN q ELSE x
    BY <1>12, <2>1
  <2> HIDE DEF q, x
  <2> QED BY <1>2, <2>1, <2>2, <2>3, <2>4
<1> QED BY <1>2, <1>8, <1>13

LEMMA Joined ==
  ASSUME NEW s \in Seq(Nat), NEW t \in Seq(Nat)
  PROVE  /\ s \o t \in Seq(Nat) /\ Len(s \o t) = Len(s) + Len(t)
         /\ Len(s) \in Nat /\ Len(t) \in Nat
         /\ \A k \in 1 .. Len(s) : (s \o t)[k] = s[k]
         /\ \A k \in 1 .. Len(t) : (s \o t)[Len(s) + k] = t[k]
OBVIOUS

\* The bytes that are needed, of which the last may be used in part.
LEMMA BytesNeeded ==
  ASSUME NEW size \in Nat
  PROVE  LET whole == size \div ByteBits
         IN  /\ whole \in Nat /\ whole * ByteBits \in Nat /\ whole * ByteBits <= size
             /\ size - whole * ByteBits < ByteBits
             /\ (size + ByteBits - 1) \div ByteBits
                  = whole + (IF whole * ByteBits < size THEN 1 ELSE 0)
<1> DEFINE whole == size \div ByteBits
           r == size % ByteBits
           x == whole * ByteBits
<1>1. ByteBits \in Nat \ {0} /\ ByteBits >= 4
  BY Widths
<1>2. whole \in Nat /\ r \in 0 .. (ByteBits - 1) /\ size = ByteBits * whole + r
  BY <1>1, SP!Division
<1>3. x \in Nat /\ x = ByteBits * whole
  <2> HIDE DEF whole
  <2> QED BY <1>1, <1>2
<1>4. size = x + r
  BY <1>2, <1>3
<1>5. CASE r = 0
  <2>1. size + ByteBits - 1 = ByteBits * whole + (ByteBits - 1)
    <3> HIDE DEF r, x, whole
    <3> QED BY <1>1, <1>3, <1>4, <1>5
  <2>2. (ByteBits * whole + (ByteBits - 1)) \div ByteBits = whole
    <3> DEFINE c == ByteBits - 1
    <3>1. c \in 0 .. (ByteBits - 1) /\ whole \in Int
      BY <1>1, <1>2
    <3> HIDE DEF whole, c
    <3> QED BY <1>1, <3>1, SP!Quotients
  <2> HIDE DEF r, x, whole
  <2> QED BY <1>1, <1>2, <1>3, <1>4, <1>5, <2>1, <2>2 DEF x, whole
<1>6. CASE r # 0
  <2> DEFINE c == r - 1
             y == whole + 1
  <2>0. c \in 0 .. (ByteBits - 1) /\ y \in Int
    BY <1>1, <1>2, <1>6
  <2>1. size + ByteBits - 1 = ByteBits * y + c
    <3>1. ByteBits * y = ByteBits * whole + ByteBits
      <4> HIDE DEF whole
      <4> QED BY <1>1, <1>2
    <3> HIDE DEF r, x, whole, y
    <3> QED BY <1>1, <1>2, <1>3, <1>4, <3>1
  <2>2. (ByteBits * y + c) \div ByteBits = y
    <3> HIDE DEF y, c
    <3> QED BY <1>1, <2>0, SP!Quotients
  <2>3. (size + ByteBits - 1) \div ByteBits = whole + 1
    <3> HIDE DEF whole, c
    <3> QED BY <2>1, <2>2
  <2>4. x < size /\ size - x < ByteBits
    <3> HIDE DEF r, x, whole
    <3> QED BY <1>1, <1>2, <1>3, <1>4, <1>6
  <2>5. x <= size
    <3> HIDE DEF x
    <3> QED BY <1>3, <2>4
  <2>6. /\ whole \in Nat /\ x \in Nat /\ x <= size
        /\ size - x < ByteBits
        /\ (size + ByteBits - 1) \div ByteBits = whole + (IF x < size THEN 1 ELSE 0)
    <3> HIDE DEF whole, x
    <3> QED BY <1>2, <1>3, <2>3, <2>4, <2>5
  <2> QED BY <2>6, Zenon
<1> QED BY <1>2, <1>5, <1>6

\* What is packed: the whole bytes, and the booleans that are left over.
LEMMA PackedBytes ==
  ASSUME NEW values \in Seq(BOOLEAN)
  PROVE  LET whole == Len(values) \div ByteBits
             x == whole * ByteBits
             b == PackedBody(values)
         IN  /\ b \in Seq(Nat)
             /\ Len(b) = whole + (IF x < Len(values) THEN 1 ELSE 0)
             /\ \A k \in 1 .. whole : b[k] = ByteOf(values, (k - 1) * ByteBits, ByteBits)
             /\ x < Len(values) => b[whole + 1] = ByteOf(values, x, Len(values) - x)
<1> DEFINE n == Len(values)
           whole == n \div ByteBits
           x == whole * ByteBits
           first == [k \in 1 .. whole |-> ByteOf(values, (k - 1) * ByteBits, ByteBits)]
           rest == IF n - x > 0 THEN <<ByteOf(values, x, n - x)>> ELSE <<>>
<1>1. n \in Nat /\ whole \in Nat /\ x \in Nat /\ x <= n /\ n - x < ByteBits /\ ByteBits \in Nat
  BY BytesNeeded, Widths
<1>2. PackedBody(values) = first \o rest
  <2>1. WholeBytes(n) = whole
    BY <1>1, WholeBytesFact
  <2> QED BY <2>1, Zenon DEF PackedBody
<1>3. ASSUME NEW k \in 1 .. whole PROVE ByteOf(values, (k - 1) * ByteBits, ByteBits) \in Nat
  <2> DEFINE a == (k - 1) * ByteBits
  <2>1. k - 1 \in Nat /\ k <= whole
    BY <1>1
  <2>2. a \in Nat /\ a + ByteBits = k * ByteBits /\ k * ByteBits <= whole * ByteBits
    <3> HIDE DEF whole
    <3> QED BY <1>1, <2>1
  <2>3. a + ByteBits <= n
    <3> HIDE DEF whole, a
    <3>1. k * ByteBits \in Nat /\ whole * ByteBits \in Nat
      BY <1>1
    <3> QED BY <1>1, <2>2, <3>1
  <2>4. ByteBits \in 0 .. ByteBits
    BY <1>1
  <2> HIDE DEF a
  <2>5. ByteOf(values, a, ByteBits) \in Nat
    BY <2>2, <2>3, <2>4, ByteOfBits
  <2> QED BY <2>5 DEF a
<1>4. first \in Seq(Nat) /\ Len(first) = whole
  <2> HIDE DEF whole
  <2> QED BY <1>1, <1>3
<1>5. ASSUME x < n PROVE ByteOf(values, x, n - x) \in Nat
  <2>1. n - x \in 0 .. ByteBits /\ x + (n - x) <= n
    BY <1>1
  <2> HIDE DEF x
  <2> QED BY <1>1, <2>1, ByteOfBits
<1>6. rest \in Seq(Nat) /\ Len(rest) = (IF x < n THEN 1 ELSE 0) /\ (x < n => rest[1] = ByteOf(values, x, n - x))
  <2> HIDE DEF x, n
  <2>1. CASE x < n
    <3>1. n - x > 0
      BY <1>1, <2>1
    <3> QED BY <1>5, <2>1, <3>1
  <2>2. CASE ~(x < n)
    <3>1. ~(n - x > 0)
      BY <1>1, <2>2
    <3> QED BY <2>2, <3>1
  <2> QED BY <2>1, <2>2
<1>7. \A k \in 1 .. whole : first[k] = ByteOf(values, (k - 1) * ByteBits, ByteBits)
  OBVIOUS
<1> DEFINE b == first \o rest
<1>8. /\ b \in Seq(Nat) /\ Len(b) = whole + (IF x < n THEN 1 ELSE 0)
      /\ \A k \in 1 .. whole : b[k] = first[k]
      /\ x < n => b[whole + 1] = rest[1]
  <2> HIDE DEF first, rest, x, n, whole
  <2>1. rest \in Seq(Nat) /\ first \in Seq(Nat) /\ Len(first) = whole /\ whole \in Nat
    BY <1>1, <1>4, <1>6
  <2>2. /\ b \in Seq(Nat) /\ Len(b) = whole + Len(rest)
        /\ \A k \in 1 .. whole : b[k] = first[k]
        /\ \A k \in 1 .. Len(rest) : b[whole + k] = rest[k]
    BY <2>1, Joined
  <2>3. x < n => 1 \in 1 .. Len(rest)
    BY <1>6
  <2> HIDE DEF b
  <2> QED BY <1>6, <2>2, <2>3
<1> HIDE DEF first, rest, x, whole
<1>9. /\ \A k \in 1 .. whole : b[k] = ByteOf(values, (k - 1) * ByteBits, ByteBits)
      /\ x < n => b[whole + 1] = ByteOf(values, x, n - x)
  BY <1>6, <1>7, <1>8
<1> HIDE DEF b
<1> QED BY <1>2, <1>8, <1>9 DEF b, x, whole

\* Writer, reader and skipper count the same bytes, and the reader makes the
\* same booleans of them.
LEMMA BodyFacts ==
  ASSUME NEW values \in Seq(BOOLEAN), NEW packed \in BOOLEAN
  PROVE  /\ WriteVectorBody(values, packed) \in Seq(Nat)
         /\ Len(WriteVectorBody(values, packed)) = BodyLength(Len(values), packed)
         /\ Len(WriteVectorBody(values, packed)) = SkippedLength(Len(values), packed)
<1>1. Len(values) \in Nat
  OBVIOUS
<1>2. CASE packed
  <2> DEFINE whole == Len(values) \div ByteBits
  <2>1. WholeBytes(Len(values)) = whole
    BY <1>1, WholeBytesFact
  <2>2. /\ PackedBody(values) \in Seq(Nat)
        /\ Len(PackedBody(values)) = whole + (IF whole * ByteBits < Len(values) THEN 1 ELSE 0)
    BY PackedBytes
  <2>3. (Len(values) + ByteBits - 1) \div ByteBits = whole + (IF whole * ByteBits < Len(values) THEN 1 ELSE 0)
    BY <1>1, BytesNeeded
  <2> HIDE DEF whole
  <2> QED BY <1>2, <2>1, <2>2, <2>3 DEF WriteVectorBody, BodyLength, SkippedLength
<1>3. CASE ~packed
  <2>1. WriteVectorBody(values, packed) = [i \in 1 .. Len(values) |-> IF values[i] THEN 1 ELSE 0]
    BY <1>3 DEF WriteVectorBody
  <2> QED BY <1>1, <1>3, <2>1 DEF BodyLength, SkippedLength
<1> QED BY <1>2, <1>3

LEMMA BooleansRead ==
  ASSUME NEW values \in Seq(BOOLEAN), NEW packed \in BOOLEAN
  PROVE  ReadVectorBody(WriteVectorBody(values, packed), Len(values), packed) = values
<1> DEFINE n == Len(values)
           b == WriteVectorBody(values, packed)
           whole == n \div ByteBits
           x == whole * ByteBits
<1>1. n \in Nat /\ whole \in Nat /\ x \in Nat /\ x <= n /\ n - x < ByteBits /\ ByteBits \in Nat \ {0}
  BY BytesNeeded, Widths
<1>2. ASSUME packed, NEW j \in 1 .. n PROVE BitOf(b, n, j - 1) = values[j]
  <2>0. WholeBytes(n) = whole /\ b = PackedBody(values)
    BY <1>1, <1>2, WholeBytesFact DEF WriteVectorBody
  <2>1. /\ \A k \in 1 .. whole : b[k] = ByteOf(values, (k - 1) * ByteBits, ByteBits)
        /\ x < n => b[whole + 1] = ByteOf(values, x, n - x)
    BY <2>0, PackedBytes
  <2>2. values[j] \in BOOLEAN /\ j - 1 \in Nat /\ j - 1 < n
    BY <1>1
  <2>3. CASE j - 1 < x
    <3> DEFINE k == (j - 1) \div ByteBits
               i == (j - 1) % ByteBits
    <3>1. k \in Nat /\ i \in 0 .. (ByteBits - 1) /\ j - 1 = ByteBits * k + i
      BY <1>1, <2>2, SP!Division
    <3>2. k + 1 \in 1 .. whole
      <4>1. ByteBits * k < ByteBits * whole
        <5> HIDE DEF k, i, whole
        <5>1. ByteBits * k \in Nat /\ x = ByteBits * whole
          BY <1>1, <3>1
        <5> QED BY <1>1, <2>3, <3>1, <5>1
      <4>2. k < whole
        <5> HIDE DEF k, whole
        <5>1. k >= whole => ByteBits * k >= ByteBits * whole
          BY <1>1, <3>1
        <5>2. ByteBits * k \in Nat /\ ByteBits * whole \in Nat
          BY <1>1, <3>1
        <5> QED BY <1>1, <3>1, <4>1, <5>1, <5>2
      <4> HIDE DEF k, whole
      <4> QED BY <1>1, <3>1, <4>2
    <3> DEFINE a == k * ByteBits
    <3>3. a \in Nat /\ a = ByteBits * k /\ (k + 1) - 1 = k
      <4> HIDE DEF k
      <4> QED BY <1>1, <3>1
    <3>4. b[k + 1] = ByteOf(values, a, ByteBits)
      <4>1. b[k + 1] = ByteOf(values, ((k + 1) - 1) * ByteBits, ByteBits)
        <5> HIDE DEF k, b, whole
        <5> QED BY <2>1, <3>2
      <4> HIDE DEF k, b
      <4> QED BY <3>3, <4>1
    <3>5. a + ByteBits <= n /\ j - 1 - a = i /\ a + i + 1 = j
      <4> HIDE DEF k, i, a, whole
      <4>1. a + ByteBits = (k + 1) * ByteBits /\ (k + 1) * ByteBits <= whole * ByteBits
        BY <1>1, <3>1, <3>2 DEF a
      <4>2. whole * ByteBits <= n
        BY <1>1
      <4>3. whole * ByteBits \in Nat
        BY <1>1
      <4> QED BY <1>1, <3>1, <3>3, <4>1, <4>2, <4>3
    <3>6. (ByteOf(values, a, ByteBits) \div 2 ^ i) % 2 = IF values[a + i + 1] THEN 1 ELSE 0
      <4>1. ByteBits \in 0 .. ByteBits
        BY <1>1
      <4> HIDE DEF a, i
      <4> QED BY <1>1, <3>1, <3>3, <3>5, <4>1, ByteOfBits
    <3>7. BitOf(b, n, j - 1) = ((b[k + 1] \div 2 ^ (j - 1 - a)) % 2 = 1)
      <4> HIDE DEF b, n
      <4> QED BY <2>0, <2>3 DEF BitOf
    <3> HIDE DEF a, i, k, b, n
    <3> QED BY <2>2, <3>4, <3>5, <3>6, <3>7
  <2>4. CASE ~(j - 1 < x)
    <3> DEFINE i == j - 1 - x
    <3>1. i \in 0 .. (n - x - 1) /\ x + i + 1 = j /\ x < n /\ n - x \in 0 .. ByteBits /\ x + (n - x) <= n
      <4> HIDE DEF x
      <4> QED BY <1>1, <2>2, <2>4
    <3>2. (ByteOf(values, x, n - x) \div 2 ^ i) % 2 = IF values[x + i + 1] THEN 1 ELSE 0
      <4> HIDE DEF x, i
      <4> QED BY <1>1, <3>1, ByteOfBits
    <3>3. BitOf(b, n, j - 1) = ((b[whole + 1] \div 2 ^ (j - 1 - x)) % 2 = 1)
      <4> HIDE DEF b, n
      <4> QED BY <2>0, <2>4 DEF BitOf
    <3>4. b[whole + 1] = ByteOf(values, x, n - x)
      BY <2>1, <3>1
    <3> HIDE DEF b, n, x, whole
    <3> QED BY <2>2, <3>1, <3>2, <3>3, <3>4
  <2> QED BY <2>3, <2>4
<1>3. ASSUME ~packed, NEW j \in 1 .. n PROVE (b[j] > 0) = values[j]
  <2>1. b[j] = IF values[j] THEN 1 ELSE 0
    BY <1>3 DEF WriteVectorBody
  <2>2. values[j] \in BOOLEAN
    OBVIOUS
  <2> HIDE DEF b
  <2> QED BY <2>1, <2>2
<1>4. ReadVectorBody(b, n, packed) = [j \in 1 .. n |-> values[j]]
  <2> HIDE DEF b
  <2> QED BY <1>2, <1>3 DEF ReadVectorBody
<1>5. values = [j \in 1 .. n |-> values[j]]
  OBVIOUS
<1> QED BY <1>4, <1>5

-----------------------------------------------------------------------------
(***************************************************************************)
(* Integers.                                                               *)
(***************************************************************************)
Kinds == UInt8 .. UInt64

\* The modulus of a type divides that of a wider one.
LEMMA Moduli ==
  ASSUME NEW s \in Kinds, NEW t \in Kinds, s <= t
  PROVE  /\ ModulusOf(s) \in Nat \ {0} /\ ModulusOf(s) % 2 = 0
         /\ \E c \in Nat \ {0} : ModulusOf(t) = ModulusOf(s) * c /\ (s < t => c >= 2)
<1> DEFINE a == s - UInt8
           d == t - s
           e == 2 ^ a
           g == 2 ^ d
           w == ByteBits * e
           v == ByteBits * (2 ^ (t - UInt8))
<1>1. a \in Nat /\ d \in Nat /\ a + d = t - UInt8 /\ (s < t => d > 0) /\ ByteBits \in Nat /\ ByteBits >= 4
  BY Widths DEF Kinds, UInt8, UInt64
<1>2. e \in Nat \ {0} /\ g \in Nat \ {0} /\ 2 ^ (t - UInt8) = e * g
  BY <1>1, SP!PowerType, SP!PowerSum
<1>3. s < t => g >= 2
  <2>1. ASSUME s < t PROVE g >= 2
    <3>1. d - 1 \in Nat /\ (d - 1) + 1 = d
      BY <1>1, <2>1
    <3>2. g = 2 * 2 ^ (d - 1) /\ 2 ^ (d - 1) \in Nat \ {0}
      BY <3>1, SP!PowerOne, SP!PowerType
    <3> HIDE DEF g
    <3> QED BY <3>2
  <2> QED BY <2>1
<1>4. w \in Nat /\ w >= 4 /\ v \in Nat /\ v = w * g /\ w <= v /\ (s < t => w < v)
  <2>1. w \in Nat /\ w >= 4
    <3> HIDE DEF e
    <3> QED BY <1>1, <1>2
  <2>2. v = w * g
    <3> HIDE DEF e, g
    <3>1. v = ByteBits * (e * g)
      BY <1>2
    <3> HIDE DEF v
    <3> QED BY <1>1, <1>2, <3>1
  <2>3. w <= w * g /\ (g >= 2 => w < w * g) /\ w * g \in Nat
    <3> HIDE DEF w, g
    <3> QED BY <1>2, <2>1
  <2> QED BY <1>3, <2>1, <2>2, <2>3
<1>5. ModulusOf(s) = 2 ^ w /\ ModulusOf(t) = 2 ^ v
  BY DEF ModulusOf
<1> HIDE DEF w, v
<1>6. 2 ^ w \in Nat \ {0} /\ 2 ^ w = 2 * 2 ^ (w - 1) /\ 2 ^ (w - 1) \in Nat \ {0}
  <2>1. w - 1 \in Nat /\ (w - 1) + 1 = w
    BY <1>4
  <2> QED BY <1>4, <2>1, SP!PowerType, SP!PowerOne
<1>7. 2 ^ v = 2 ^ w * 2 ^ (v - w) /\ 2 ^ (v - w) \in Nat \ {0} /\ (w < v => 2 * 2 ^ w <= 2 ^ v)
  BY <1>4, SP!PowerGrows
<1>8. s < t => 2 ^ (v - w) >= 2
  <2> DEFINE x == 2 ^ w  y == 2 ^ (v - w)
  <2>1. x \in Nat \ {0} /\ y \in Nat \ {0} /\ (s < t => 2 * x <= x * y)
    BY <1>4, <1>6, <1>7
  <2> HIDE DEF x, y
  <2>2. s < t => y >= 2
    BY <2>1
  <2> QED BY <2>2 DEF y
<1>9. (2 * 2 ^ (w - 1)) % 2 = 0
  <2> DEFINE x == 2 ^ (w - 1)
  <2>1. x \in Nat
    BY <1>6
  <2> HIDE DEF x
  <2>2. (2 * x) % 2 = 0
    BY <2>1
  <2> QED BY <2>2 DEF x
<1> QED BY <1>5, <1>6, <1>7, <1>8, <1>9

\* A number is what is left of it, and a multiple of the modulus.
LEMMA Residue ==
  ASSUME NEW n \in Int, NEW m \in Nat \ {0}
  PROVE  n % m \in 0 .. (m - 1) /\ \E q \in Int : n = m * q + (n % m)
<1>1. n \div m \in Int /\ n = m * (n \div m) + (n % m) /\ n % m \in 0 .. (m - 1)
  OBVIOUS
<1> QED BY <1>1

\* The rest for a modulus is also that of the rest for a multiple of it.
LEMMA ResidueOfResidue ==
  ASSUME NEW n \in Int, NEW m \in Nat \ {0}, NEW c \in Nat \ {0}
  PROVE  (n % (m * c)) % m = n % m
<1> DEFINE u == n % (m * c)
           r == n % m
<1>1. m * c \in Nat \ {0}
  OBVIOUS
<1>2. PICK q \in Int : n = (m * c) * q + u
  BY <1>1, Residue, Zenon
<1>3. u \in Int
  <2>1. u \in 0 .. (m * c - 1)
    BY <1>1, Residue, Zenon
  <2> QED BY <1>1, <2>1
<1>4. PICK p \in Int : u = m * p + (u % m)
  <2> HIDE DEF u
  <2> QED BY <1>3, Residue
<1>5. u % m \in 0 .. (m - 1)
  <2> HIDE DEF u
  <2> QED BY <1>3, Residue
<1> DEFINE k == c * q + p
           s == u % m
<1>6. k \in Int /\ n = m * k + s
  <2> HIDE DEF s
  <2>1. c * q \in Int /\ m * (c * q + p) = m * (c * q) + m * p
    OBVIOUS
  <2>2. m * (c * q) = (m * c) * q
    OBVIOUS
  <2>3. s \in Int /\ u = m * p + s
    BY <1>4, <1>5 DEF s
  <2> HIDE DEF u
  <2> QED BY <1>2, <2>1, <2>2, <2>3
<1>7. (m * k + s) % m = s
  <2>1. s \in 0 .. (m - 1)
    BY <1>5
  <2> HIDE DEF k, s
  <2> QED BY <1>6, <2>1, SP!Quotients
<1> QED BY <1>6, <1>7

\* A member reads what was written exactly if it can hold it, and no negative
\* number has been made a positive one of a wider type.
LEMMA CastKeeps ==
  ASSUME NEW from \in Kinds, NEW to \in Kinds, NEW before \in BOOLEAN, NEW after \in BOOLEAN,
         NEW n \in RangeOf(from, before)
  PROVE  /\ n \in Int /\ n % ModulusOf(from) \in Nat
         /\ (Cast(n % ModulusOf(from), from, to, after) = n)
              <=> (n \in RangeOf(to, after) /\ (n >= 0 \/ to <= from))
<1> DEFINE M == ModulusOf(from)
           W == ModulusOf(to)
           u == n % M
           v == u % W
           got == IF after THEN Signed(v, W) ELSE v
           Keeps == (got = n) <=> (n \in RangeOf(to, after) /\ (n >= 0 \/ to <= from))
<1>1. M \in Nat \ {0} /\ M % 2 = 0 /\ W \in Nat \ {0} /\ W % 2 = 0
  <2>1. from <= from /\ to <= to
    BY DEF Kinds, UInt8, UInt64
  <2> QED BY <2>1, Moduli
<1>2. n \in Int /\ (n < 0 => before) /\ -(M \div 2) <= n /\ n < M /\ (before => n < M \div 2)
  <2>1. M \div 2 \in Nat /\ M = 2 * (M \div 2)
    <3> HIDE DEF M
    <3> QED BY <1>1
  <2> QED BY <1>1, <2>1 DEF RangeOf
<1>3. u \in 0 .. (M - 1)
  <2> HIDE DEF M
  <2> QED BY <1>1, <1>2, Residue
<1>4. Cast(u, from, to, after) = got
  BY DEF Cast
<1>5. RangeOf(to, after) = IF after THEN (- (W \div 2)) .. (W \div 2 - 1) ELSE 0 .. (W - 1)
  BY DEF RangeOf
<1>6. W \div 2 \in Nat \ {0} /\ W = 2 * (W \div 2)
  <2> HIDE DEF W
  <2> QED BY <1>1
<1>7. ASSUME to <= from PROVE Keeps
  <2>1. PICK c \in Nat \ {0} : M = W * c
    BY <1>7, Moduli
  <2>2. v = n % W
    <3> HIDE DEF M, W
    <3> QED BY <1>1, <1>2, <2>1, ResidueOfResidue DEF v, u
  <2>3. v \in 0 .. (W - 1)
    <3> HIDE DEF W
    <3> QED BY <1>1, <1>2, <2>2, Residue
  <2>4. ASSUME n \in 0 .. (W - 1) PROVE v = n
    <3> HIDE DEF W, v
    <3> QED BY <1>1, <2>2, <2>4
  <2>5. ASSUME n \in (- W) .. (- 1) PROVE v = n + W
    <3> DEFINE k == n + W
    <3>1. k \in 0 .. (W - 1) /\ n = W * (- 1) + k
      <4> HIDE DEF W
      <4> QED BY <1>1, <2>5
    <3>2. (W * (- 1) + k) % W = k
      <4> HIDE DEF W, k
      <4> QED BY <1>1, <3>1, SP!Quotients
    <3> HIDE DEF W, v
    <3> QED BY <2>2, <3>1, <3>2
  <2>6. CASE ~after
    <3>1. got = v /\ RangeOf(to, after) = 0 .. (W - 1)
      BY <1>5, <2>6
    <3> HIDE DEF W, v, u, got
    <3> QED BY <1>1, <1>2, <1>7, <2>3, <2>4, <3>1
  <2>7. CASE after
    <3> DEFINE h == W \div 2
    <3>1. h \in Nat \ {0} /\ W = 2 * h
      BY <1>6
    <3>2. (Signed(v, W) = n) <=> n \in (- h) .. (h - 1)
      <4> HIDE DEF h, W, v
      <4>1. ASSUME n \in (- h) .. (h - 1) PROVE Signed(v, W) = n
        <5>1. CASE n >= 0
          BY <1>2, <2>4, <3>1, <4>1, <5>1 DEF Signed
        <5>2. CASE n < 0
          BY <1>2, <2>5, <3>1, <4>1, <5>2 DEF Signed
        <5> QED BY <1>2, <5>1, <5>2
      <4>2. Signed(v, W) \in (- h) .. (h - 1)
        BY <2>3, <3>1 DEF Signed
      <4> QED BY <4>1, <4>2
    <3>3. got = Signed(v, W) /\ RangeOf(to, after) = (- h) .. (h - 1)
      BY <1>5, <2>7
    <3> HIDE DEF W, v, u, h, got
    <3> QED BY <1>7, <3>2, <3>3
  <2> QED BY <2>6, <2>7
<1>8. ASSUME from < to PROVE Keeps
  <2>0. from <= to
    BY <1>8 DEF Kinds, UInt8, UInt64
  <2>1. PICK c \in Nat \ {0} : W = M * c /\ c >= 2
    BY <1>8, <2>0, Moduli
  <2>2. 2 * M <= W
    <3> HIDE DEF M, W
    <3> QED BY <1>1, <2>1
  <2>3. v = u
    <3> HIDE DEF M, W, u
    <3> QED BY <1>1, <1>3, <2>2
  <2>4. got = u
    <3> HIDE DEF M, W, u, v
    <3> QED BY <1>1, <1>3, <2>2, <2>3 DEF Signed
  <2>5. (u = n) <=> n >= 0
    <3> HIDE DEF M
    <3> QED BY <1>1, <1>2, <1>3
  <2>6. n >= 0 => n \in RangeOf(to, after)
    <3> DEFINE h == W \div 2
    <3>1. h \in Nat \ {0} /\ W = 2 * h
      BY <1>6
    <3> HIDE DEF h, M, W
    <3> QED BY <1>1, <1>2, <1>5, <2>2, <3>1 DEF h
  <2>7. ~(to <= from)
    BY <1>8 DEF Kinds, UInt8, UInt64
  <2> HIDE DEF M, W, u, v, got
  <2> QED BY <2>4, <2>5, <2>6, <2>7
<1>9. to <= from \/ from < to
  BY DEF Kinds, UInt8, UInt64
<1>10. u \in Nat
  BY <1>1, <1>3
<1> HIDE DEF W, v, got
<1> QED BY <1>2, <1>4, <1>7, <1>8, <1>9, <1>10

-----------------------------------------------------------------------------
LEMMA SingleCodec ==
  /\ SP!FormatFits <=> Single!FormatFits
  /\ SP!Floats = Single!Floats /\ SP!Undefined = Single!Undefined
  /\ \A f, u : SP!ToWord(f, u) = Single!ToWord(f, u)
  /\ \A w : SP!FromWord(w) = Single!FromWord(w)
  /\ \A f : (SP!Kept(f) <=> Single!Kept(f)) /\ SP!Shortened(f) = Single!Shortened(f)
<1>1. /\ SP!Bias = Single!Bias /\ SP!Hidden = Single!Hidden
      /\ SP!MaxField = Single!MaxField /\ SP!WordModulus = Single!WordModulus
  BY Zenon DEF SP!Bias, Single!Bias, SP!Hidden, Single!Hidden, SP!MaxField, Single!MaxField, SP!WordModulus, Single!WordModulus
<1>2. /\ SP!Infinity = Single!Infinity /\ SP!Lowest = Single!Lowest
      /\ SP!FormatFits <=> Single!FormatFits
      /\ SP!Floats = Single!Floats /\ SP!Undefined = Single!Undefined
  BY <1>1, Zenon DEF SP!Infinity, Single!Infinity, SP!Lowest, Single!Lowest, SP!FormatFits, Single!FormatFits, SP!Floats, Single!Floats, SP!Undefined, Single!Undefined
<1>3. SP!BitLength = Single!BitLength
  BY Zenon DEF SP!BitLength, Single!BitLength
<1>4. \A f : /\ SP!Field(f) = Single!Field(f) /\ SP!Fraction(f) = Single!Fraction(f)
             /\ SP!IsFinite(f) <=> Single!IsFinite(f)
  BY <1>1, <1>2, Zenon DEF SP!Field, Single!Field, SP!Fraction, Single!Fraction, SP!IsFinite, Single!IsFinite
<1>5. \A f : SP!Mantissa(f) = Single!Mantissa(f) /\ SP!Scale(f) = Single!Scale(f)
  BY <1>1, <1>2, <1>4 DEF SP!Mantissa, Single!Mantissa, SP!Scale, Single!Scale
<1>6. \A b : SP!Zero(b) = Single!Zero(b)
  BY Zenon DEF SP!Zero, Single!Zero
<1>7. \A m, n : SP!Quotient(m, n) = Single!Quotient(m, n) /\ SP!Shifted(m, n) = Single!Shifted(m, n)
  BY <1>3, Zenon DEF SP!Quotient, Single!Quotient, SP!Shifted, Single!Shifted
<1>8. \A b, m, s : SP!Nearest(b, m, s) = Single!Nearest(b, m, s)
  BY <1>1, <1>2, <1>3, <1>6, <1>7, SMTT(60) DEF SP!Nearest, Single!Nearest
<1>9. \A f, n : SP!Times(f, n) = Single!Times(f, n)
  BY <1>4, <1>5, <1>8 DEF SP!Times, Single!Times
<1>10. \A f, n : SP!LDExp(f, n) = Single!LDExp(f, n)
  BY <1>1, <1>9 DEF SP!LDExp, Single!LDExp
<1>11. \A f : SP!Split(f) = Single!Split(f)
  BY <1>1, <1>4 DEF SP!Split, Single!Split
<1>12. \A f : SP!FRExp(f) = Single!FRExp(f)
  BY <1>4, <1>9, <1>11 DEF SP!FRExp, Single!FRExp
<1>13. \A f, u : SP!Truncated(f, u) = Single!Truncated(f, u)
  BY <1>4, <1>5, <1>7 DEF SP!Truncated, Single!Truncated
<1>14. \A h, l : SP!Or(h, l) = Single!Or(h, l)
  BY Zenon DEF SP!Or, Single!Or
<1>15. \A s, m : SP!ZigZag(s, m) = Single!ZigZag(s, m) /\ SP!ZagZig(s, m) = Single!ZagZig(s, m)
  BY Zenon DEF SP!ZigZag, Single!ZigZag, SP!ZagZig, Single!ZagZig, SP!Signed, Single!Signed, SP!Xor, Single!Xor
<1>16. \A f, u : SP!ToWord(f, u) = Single!ToWord(f, u)
  BY <1>1, <1>10, <1>12, <1>13, <1>14, <1>15, Zenon DEF SP!ToWord, Single!ToWord
<1>17. \A w : SP!FromWord(w) = Single!FromWord(w)
  BY <1>1, <1>8, <1>10, <1>15, Zenon DEF SP!FromWord, Single!FromWord
<1>18. \A f : (SP!Kept(f) <=> Single!Kept(f)) /\ SP!Shortened(f) = Single!Shortened(f)
  BY <1>1, <1>4, <1>6 DEF SP!Kept, Single!Kept, SP!Shortened, Single!Shortened
<1> QED BY <1>2, <1>16, <1>17, <1>18

DP == INSTANCE FloatCodec_proofs
  WITH ExpBits <- DoubleExpBits, Precision <- DoublePrecision, Boost <- DoubleBoost

LEMMA DoubleCodec ==
  /\ DP!FormatFits <=> Double!FormatFits
  /\ DP!Floats = Double!Floats /\ DP!Undefined = Double!Undefined
  /\ \A f, u : DP!ToWord(f, u) = Double!ToWord(f, u)
  /\ \A w : DP!FromWord(w) = Double!FromWord(w)
  /\ \A f : (DP!Kept(f) <=> Double!Kept(f)) /\ DP!Shortened(f) = Double!Shortened(f)
<1>1. /\ DP!Bias = Double!Bias /\ DP!Hidden = Double!Hidden
      /\ DP!MaxField = Double!MaxField /\ DP!WordModulus = Double!WordModulus
  BY Zenon DEF DP!Bias, Double!Bias, DP!Hidden, Double!Hidden, DP!MaxField, Double!MaxField, DP!WordModulus, Double!WordModulus
<1>2. /\ DP!Infinity = Double!Infinity /\ DP!Lowest = Double!Lowest
      /\ DP!FormatFits <=> Double!FormatFits
      /\ DP!Floats = Double!Floats /\ DP!Undefined = Double!Undefined
  BY <1>1, Zenon DEF DP!Infinity, Double!Infinity, DP!Lowest, Double!Lowest, DP!FormatFits, Double!FormatFits, DP!Floats, Double!Floats, DP!Undefined, Double!Undefined
<1>3. DP!BitLength = Double!BitLength
  BY Zenon DEF DP!BitLength, Double!BitLength
<1>4. \A f : /\ DP!Field(f) = Double!Field(f) /\ DP!Fraction(f) = Double!Fraction(f)
             /\ DP!IsFinite(f) <=> Double!IsFinite(f)
  BY <1>1, <1>2, Zenon DEF DP!Field, Double!Field, DP!Fraction, Double!Fraction, DP!IsFinite, Double!IsFinite
<1>5. \A f : DP!Mantissa(f) = Double!Mantissa(f) /\ DP!Scale(f) = Double!Scale(f)
  BY <1>1, <1>2, <1>4 DEF DP!Mantissa, Double!Mantissa, DP!Scale, Double!Scale
<1>6. \A b : DP!Zero(b) = Double!Zero(b)
  BY Zenon DEF DP!Zero, Double!Zero
<1>7. \A m, n : DP!Quotient(m, n) = Double!Quotient(m, n) /\ DP!Shifted(m, n) = Double!Shifted(m, n)
  BY <1>3, Zenon DEF DP!Quotient, Double!Quotient, DP!Shifted, Double!Shifted
<1>8. \A b, m, s : DP!Nearest(b, m, s) = Double!Nearest(b, m, s)
  BY <1>1, <1>2, <1>3, <1>6, <1>7, SMTT(60) DEF DP!Nearest, Double!Nearest
<1>9. \A f, n : DP!Times(f, n) = Double!Times(f, n)
  BY <1>4, <1>5, <1>8 DEF DP!Times, Double!Times
<1>10. \A f, n : DP!LDExp(f, n) = Double!LDExp(f, n)
  BY <1>1, <1>9 DEF DP!LDExp, Double!LDExp
<1>11. \A f : DP!Split(f) = Double!Split(f)
  BY <1>1, <1>4 DEF DP!Split, Double!Split
<1>12. \A f : DP!FRExp(f) = Double!FRExp(f)
  BY <1>4, <1>9, <1>11 DEF DP!FRExp, Double!FRExp
<1>13. \A f, u : DP!Truncated(f, u) = Double!Truncated(f, u)
  BY <1>4, <1>5, <1>7 DEF DP!Truncated, Double!Truncated
<1>14. \A h, l : DP!Or(h, l) = Double!Or(h, l)
  BY Zenon DEF DP!Or, Double!Or
<1>15. \A s, m : DP!ZigZag(s, m) = Double!ZigZag(s, m) /\ DP!ZagZig(s, m) = Double!ZagZig(s, m)
  BY Zenon DEF DP!ZigZag, Double!ZigZag, DP!ZagZig, Double!ZagZig, DP!Signed, Double!Signed, DP!Xor, Double!Xor
<1>16. \A f, u : DP!ToWord(f, u) = Double!ToWord(f, u)
  BY <1>1, <1>10, <1>12, <1>13, <1>14, <1>15, Zenon DEF DP!ToWord, Double!ToWord
<1>17. \A w : DP!FromWord(w) = Double!FromWord(w)
  BY <1>1, <1>8, <1>10, <1>15, Zenon DEF DP!FromWord, Double!FromWord
<1>18. \A f : (DP!Kept(f) <=> Double!Kept(f)) /\ DP!Shortened(f) = Double!Shortened(f)
  BY <1>1, <1>4, <1>6 DEF DP!Kept, Double!Kept, DP!Shortened, Double!Shortened
<1> QED BY <1>2, <1>16, <1>17, <1>18

-----------------------------------------------------------------------------
(***************************************************************************)
(* Sizes of which the compiler makes the bytes (serialisation.h): the two  *)
(* integers of VarInt hold the bytes of WriteSize in order, and each step  *)
(* of FromVarInt takes the lowest of them.  With one byte more than the    *)
(* first integer has room for, the first one is lost.                      *)
(***************************************************************************)
\* A number without its lowest digits, one after the other.
LEMMA RemainingFacts ==
  ASSUME NEW n \in Nat, NEW i \in Nat
  PROVE  /\ Remaining(n, 0) = n
         /\ Remaining(n, i) \in Nat /\ Remaining(n, i) <= n
         /\ Remaining(n, i + 1) = Remaining(n, i) \div More
         /\ Remaining(n, i + 1) = Remaining(n \div More, i)
<1> DEFINE p == 2 ^ ((ByteBits - 1) * i)
           d == More
<1>1. p \in Nat \ {0} /\ 2 ^ ((ByteBits - 1) * (i + 1)) = p * d
  BY Unit
<1>2. d \in Nat \ {0}
  BY Widths
<1>3. Remaining(n, 0) = n
  <2>1. (ByteBits - 1) * 0 = 0 /\ n \div 1 = n
    BY Widths
  <2> QED BY <2>1, SP!PowerOne DEF Remaining
<1>4. Remaining(n, i) = n \div p /\ Remaining(n, i + 1) = n \div (p * d)
      /\ Remaining(n \div More, i) = (n \div d) \div p
  BY <1>1 DEF Remaining
<1> HIDE DEF p
<1>5. n \div p \in Nat /\ n \div p <= n
  BY <1>1, SP!Division
<1>6. (n \div p) \div d = n \div (p * d)
  <2> HIDE DEF d
  <2> QED BY <1>1, <1>2, SP!DividedTwice
<1>7. (n \div d) \div p = n \div (p * d)
  <2> HIDE DEF d
  <2>1. (n \div d) \div p = n \div (d * p)
    BY <1>1, <1>2, SP!DividedTwice
  <2>2. d * p = p * d
    BY <1>1, <1>2
  <2> QED BY <2>1, <2>2
<1> QED BY <1>3, <1>4, <1>5, <1>6, <1>7

\* The bytes of a size are the digits, of which all but the last say so.
SizeByte(n, i, L) ==
  IF i < L - 1 THEN (Remaining(n, i) % More) + More ELSE Remaining(n, i)

Shaped(n, b) ==
  /\ b \in Seq(Nat) /\ Len(b) > 0
  /\ \A i \in 0 .. (Len(b) - 1) : b[i + 1] = SizeByte(n, i, Len(b))
  /\ \A i \in 0 .. (Len(b) - 2) : Remaining(n, i) >= More
  /\ Remaining(n, Len(b) - 1) < More

LEMMA LastShaped ==
  ASSUME NEW n \in Nat, n < More
  PROVE  Shaped(n, <<n>>)
<1> DEFINE b == <<n>>
<1>1. b \in Seq(Nat) /\ Len(b) = 1 /\ b[1] = n
  OBVIOUS
<1>2. Remaining(n, 0) = n
  BY RemainingFacts
<1> HIDE DEF b
<1>3. 0 .. (Len(b) - 2) = {} /\ \A i \in 0 .. (Len(b) - 1) : i = 0
  BY <1>1
<1>4. b[0 + 1] = SizeByte(n, 0, Len(b))
  BY <1>1, <1>2 DEF SizeByte
<1>5. Shaped(n, b)
  <2>1. \A i \in 0 .. (Len(b) - 1) : b[i + 1] = SizeByte(n, i, Len(b))
    BY <1>3, <1>4
  <2>2. Remaining(n, Len(b) - 1) < More
    BY <1>1, <1>2
  <2> QED BY <1>1, <1>3, <2>1, <2>2 DEF Shaped
<1> QED BY <1>5 DEF b

LEMMA MoreShaped ==
  ASSUME NEW n \in Nat, n >= More, NEW c, Shaped(n \div More, c)
  PROVE  Shaped(n, <<(n % More) + More>> \o c)
<1> DEFINE x == (n % More) + More
           b == <<x>> \o c
           q == n \div More
<1>1. x \in Nat /\ q \in Nat /\ More \in Nat \ {0}
  <2>1. More \in Nat \ {0}
    BY Widths
  <2> QED BY <2>1, SP!Division
<1>2. c \in Seq(Nat) /\ Len(c) > 0 /\ Len(c) \in Nat
  BY DEF Shaped
<1>3. /\ b \in Seq(Nat) /\ Len(b) = Len(c) + 1 /\ b[1] = x
      /\ \A i \in 1 .. Len(c) : b[i + 1] = c[i]
  <2> HIDE DEF x
  <2> QED BY <1>1, <1>2
<1>4. \A i \in Nat : Remaining(n, i + 1) = Remaining(q, i)
  BY RemainingFacts
<1>5. Remaining(n, 0) = n
  BY RemainingFacts
<1> HIDE DEF b, q
<1>6. ASSUME NEW i \in 0 .. (Len(b) - 1) PROVE b[i + 1] = SizeByte(n, i, Len(b))
  <2>1. CASE i = 0
    BY <1>2, <1>3, <1>5, <2>1 DEF SizeByte
  <2>2. CASE i # 0
    <3>1. PICK j : j = i - 1
      OBVIOUS
    <3>2. j \in 0 .. (Len(c) - 1) /\ i = j + 1 /\ i \in 1 .. Len(c) /\ j \in Nat
          /\ (i < Len(b) - 1 <=> j < Len(c) - 1)
      BY <1>2, <1>3, <2>2, <3>1, SMTT(30)
    <3>3. b[i + 1] = c[j + 1]
      BY <1>3, <3>2
    <3>4. c[j + 1] = SizeByte(q, j, Len(c))
      BY <3>2 DEF Shaped, q
    <3>5. Remaining(n, i) = Remaining(q, j)
      BY <1>4, <3>2
    <3> HIDE DEF x
    <3> QED BY <3>2, <3>3, <3>4, <3>5 DEF SizeByte
  <2> QED BY <2>1, <2>2
<1>7. ASSUME NEW i \in 0 .. (Len(b) - 2) PROVE Remaining(n, i) >= More
  <2>1. CASE i = 0
    BY <1>5, <2>1
  <2>2. CASE i # 0
    <3>1. i - 1 \in 0 .. (Len(c) - 2) /\ i - 1 \in Nat /\ (i - 1) + 1 = i
      BY <1>2, <1>3, <2>2
    <3>2. Remaining(q, i - 1) >= More
      BY <3>1 DEF Shaped, q
    <3> QED BY <1>4, <3>1, <3>2
  <2> QED BY <2>1, <2>2
<1>8. Remaining(n, Len(b) - 1) < More
  <2>1. Len(c) - 1 \in Nat /\ (Len(c) - 1) + 1 = Len(b) - 1
    BY <1>2, <1>3
  <2>2. Remaining(q, Len(c) - 1) < More
    BY DEF Shaped, q
  <2> QED BY <1>4, <2>1, <2>2
<1>9. Shaped(n, b)
  BY <1>2, <1>3, <1>6, <1>7, <1>8 DEF Shaped
<1> QED BY <1>9 DEF b

LEMMA SizeShaped ==
  ASSUME NEW n \in 0 .. (SizeModulus - 1)
  PROVE  Shaped(n, WriteSize(n))
<1> DEFINE S == {k \in Nat : k < SizeModulus => Shaped(k, SizeBytes[k])}
<1>0. SizeModulus \in Nat /\ More \in Nat
  BY Widths
<1>1. ASSUME NEW k \in Nat, \A m \in Nat : m < k => m \in S PROVE k \in S
  <2>1. CASE k < SizeModulus /\ k < More
    <3>0. k \in 0 .. (SizeModulus - 1) /\ ~(k >= More)
      BY <1>0, <2>1
    <3>1. SizeBytes[k] = <<k>>
      BY <3>0, SizeBytesEquation DEF Body
    <3> QED BY <2>1, <3>1, LastShaped
  <2>2. CASE k < SizeModulus /\ ~(k < More)
    <3>1. k >= More /\ k \in 0 .. (SizeModulus - 1)
      BY <1>0, <2>2
    <3>2. /\ SizeBytes[k] = <<(k % More) + More>> \o SizeBytes[k \div More]
          /\ k \div More \in 0 .. (SizeModulus - 1) /\ k \div More < k
      BY <3>1, SizeBytesEquation DEF Body
    <3>3. PICK m : m = k \div More
      OBVIOUS
    <3>4. m \in Nat /\ m < k /\ m < SizeModulus
      BY <1>0, <3>2, <3>3
    <3>5. Shaped(m, SizeBytes[m])
      BY <1>1, <3>4
    <3>6. Shaped(k, <<(k % More) + More>> \o SizeBytes[k \div More])
      BY <3>1, <3>3, <3>5, MoreShaped
    <3>7. Shaped(k, SizeBytes[k])
      BY <3>2, <3>6
    <3> QED BY <3>7
  <2> QED BY <2>1, <2>2
<1>2. Nat \subseteq S
  <2> HIDE DEF S
  <2> QED BY <1>1, SP!StrongInduction
<1>3. n \in Nat /\ n < SizeModulus
  BY <1>0
<1> QED BY <1>2, <1>3 DEF WriteSize

\* There is at most one place where the digits stop.
LEMMA SizeEnds ==
  ASSUME NEW n \in 0 .. (SizeModulus - 1)
  PROVE  /\ Len(WriteSize(n)) \in 1 .. (FirstBytes + 2)
         /\ Remaining(n, Len(WriteSize(n))) = 0
         /\ Len(WriteSize(n)) > 1 => Remaining(n, Len(WriteSize(n)) - 1) > 0
<1> DEFINE b == WriteSize(n)
<1>1. PICK L : L = Len(b)
  OBVIOUS
<1>2. /\ L \in Nat /\ L > 0 /\ n \in Nat /\ More \in Nat \ {0} /\ FirstBytes \in Nat \ {0}
      /\ \A i \in 0 .. (L - 2) : Remaining(n, i) >= More
      /\ Remaining(n, L - 1) < More
  <2>1. Shaped(n, b)
    BY SizeShaped
  <2>2. b \in Seq(Nat) /\ SizeModulus \in Nat
    BY <2>1, Widths DEF Shaped
  <2> QED BY <1>1, <2>1, <2>2, Widths, IntegerAssumption DEF Shaped
<1>3. L - 1 \in Nat /\ (L - 1) + 1 = L
  BY <1>2
<1>4. Remaining(n, L) = 0
  <2>1. PICK r : r = Remaining(n, L - 1)
    OBVIOUS
  <2>2. r \in Nat /\ r < More /\ Remaining(n, L) = r \div More
    <3>1. r \in Nat /\ Remaining(n, (L - 1) + 1) = r \div More
      BY <1>2, <1>3, <2>1, RemainingFacts
    <3>2. Remaining(n, L) = r \div More
      BY <1>3, <3>1
    <3>3. r < More
      BY <1>2, <2>1, Zenon
    <3> QED BY <3>1, <3>2, <3>3
  <2> QED BY <1>2, <2>2, SP!Division
<1>5. ASSUME L > 1 PROVE Remaining(n, L - 1) > 0
  <2>1. L - 2 \in Nat /\ (L - 2) + 1 = L - 1 /\ L - 2 \in 0 .. (L - 2)
    BY <1>2, <1>5
  <2>2. PICK r : r = Remaining(n, L - 2)
    OBVIOUS
  <2>3. r \in Nat /\ ~(r < More) /\ Remaining(n, L - 1) = r \div More
    <3>1. r \in Nat /\ Remaining(n, L - 1) = r \div More
      BY <1>2, <2>1, <2>2, RemainingFacts
    <3>2. r >= More
      BY <1>2, <2>1, <2>2
    <3> QED BY <1>2, <3>1, <3>2
  <2>4. r \div More \in Nat /\ r \div More # 0
    BY <1>2, <2>3, SP!Division
  <2> QED BY <2>3, <2>4
<1>6. L <= FirstBytes + 2
  <2> SUFFICES ASSUME L > FirstBytes + 2 PROVE FALSE
    BY <1>2
  <2>1. PICK k : k = FirstBytes + 1
    OBVIOUS
  <2>2. k \in Nat /\ k + 1 = FirstBytes + 2 /\ k \in 0 .. (L - 2)
    BY <1>2, <2>1
  <2>3. Remaining(n, k) \in Nat /\ Remaining(n, k) >= More /\ Remaining(n, k + 1) = Remaining(n, k) \div More
    BY <1>2, <2>2, RemainingFacts
  <2>4. Remaining(n, k) \div More # 0
    <3>1. PICK r : r = Remaining(n, k)
      OBVIOUS
    <3> QED BY <1>2, <2>3, <3>1, SP!Division
  <2>5. Remaining(n, k + 1) = 0
    <3>1. PICK w : w = (ByteBits - 1) * (k + 1)
      OBVIOUS
    <3>2. w \in Nat /\ SizeBits \in Nat /\ SizeBits <= w
      BY <2>2, <3>1, Unit, IntegerAssumption
    <3>3. 2 ^ SizeBits <= 2 ^ w /\ 2 ^ w \in Nat \ {0} /\ 2 ^ SizeBits \in Nat
      BY <3>2, SP!PowerGrows, SP!PowerType
    <3>4. PICK p : p = 2 ^ w
      OBVIOUS
    <3>5. n < p /\ p \in Nat \ {0}
      BY <1>2, <3>3, <3>4 DEF SizeModulus
    <3>6. n \div p = 0
      BY <1>2, <3>5, SP!Division
    <3> QED BY <3>1, <3>4, <3>6 DEF Remaining
  <2> QED BY <2>3, <2>4, <2>5
<1>7. L \in 1 .. (FirstBytes + 2)
  BY <1>2, <1>6
<1> QED BY <1>1, <1>4, <1>5, <1>7

LEMMA VarIntSizeRight ==
  ASSUME NEW n \in 0 .. (SizeModulus - 1)
  PROVE  VarIntSize(n) = Len(WriteSize(n))
<1> DEFINE Ends(k) == /\ Remaining(n, k - 1) < More
                      /\ \A j \in 1 .. (k - 1) : Remaining(n, j - 1) >= More
           top == FirstBytes + 2
<1>1. PICK L : L = Len(WriteSize(n))
  OBVIOUS
<1>2. n \in Nat /\ More \in Nat /\ top \in Nat
  BY Widths, IntegerAssumption
<1>3. L \in 1 .. top
  BY <1>1, SizeEnds
<1>4. /\ \A i \in 0 .. (L - 2) : Remaining(n, i) >= More
      /\ Remaining(n, L - 1) < More
  BY <1>1, SizeShaped DEF Shaped
<1>5. \A i \in Nat : Remaining(n, i) \in Nat
  BY <1>2, RemainingFacts
<1>6. Ends(L)
  <2>1. ASSUME NEW j \in 1 .. (L - 1) PROVE Remaining(n, j - 1) >= More
    <3>1. j - 1 \in 0 .. (L - 2)
      BY <1>2, <1>3
    <3> QED BY <1>4, <3>1
  <2> QED BY <1>4, <2>1
<1>7. ASSUME NEW k \in 1 .. top, Ends(k) PROVE k = L
  <2> HIDE DEF top
  <2>1. ASSUME k < L PROVE FALSE
    <3>1. k - 1 \in 0 .. (L - 2) /\ k - 1 \in Nat
      BY <1>2, <1>3, <2>1
    <3>2. Remaining(n, k - 1) >= More /\ Remaining(n, k - 1) \in Nat
      BY <1>4, <1>5, <3>1
    <3>3. Remaining(n, k - 1) < More
      BY <1>7
    <3> QED BY <1>2, <3>2, <3>3
  <2>2. ASSUME L < k PROVE FALSE
    <3>1. L \in 1 .. (k - 1) /\ L - 1 \in Nat
      BY <1>2, <1>3, <2>2
    <3>2. Remaining(n, L - 1) >= More /\ Remaining(n, L - 1) \in Nat
      BY <1>5, <1>7, <3>1
    <3> QED BY <1>2, <1>4, <3>2
  <2> QED BY <1>2, <1>3, <2>1, <2>2
<1>8. VarIntSize(n) = CHOOSE k \in 1 .. top : Ends(k)
  BY DEF VarIntSize
<1>9. (CHOOSE k \in 1 .. top : Ends(k)) = L
  <2> HIDE DEF Ends, top
  <2> QED BY <1>3, <1>6, <1>7
<1> QED BY <1>1, <1>8, <1>9

LEMMA LastIndexRight ==
  ASSUME NEW n \in 0 .. (SizeModulus - 1), NEW L, L = Len(WriteSize(n))
  PROVE  LastIndex(n) = IF L <= FirstBytes THEN L - 1 ELSE FirstBytes
<1> DEFINE Ends(i) == /\ i = FirstBytes \/ Remaining(n, i) < More
                      /\ \A j \in 0 .. (i - 1) : Remaining(n, j) >= More
<1>1. PICK k : k = IF L <= FirstBytes THEN L - 1 ELSE FirstBytes
  OBVIOUS
<1>2. n \in Nat /\ More \in Nat /\ FirstBytes \in Nat \ {0}
  BY Widths, IntegerAssumption
<1>3. L \in Nat /\ L > 0
  BY <1>2, SizeEnds
<1>4. /\ \A i \in 0 .. (L - 2) : Remaining(n, i) >= More
      /\ Remaining(n, L - 1) < More
  BY SizeShaped DEF Shaped
<1>5. \A i \in Nat : Remaining(n, i) \in Nat
  BY <1>2, RemainingFacts
<1>6. k \in 0 .. FirstBytes /\ Ends(k)
  <2>1. k \in Nat /\ k <= FirstBytes /\ k <= L - 1 /\ (k = FirstBytes \/ k = L - 1)
    BY <1>1, <1>2, <1>3
  <2>2. ASSUME NEW j \in 0 .. (k - 1) PROVE Remaining(n, j) >= More
    <3>1. j \in 0 .. (L - 2)
      BY <1>3, <2>1
    <3> QED BY <1>4, <3>1
  <2>3. k = FirstBytes \/ Remaining(n, k) < More
    BY <1>4, <2>1
  <2> QED BY <1>2, <2>1, <2>2, <2>3
<1>7. ASSUME NEW i \in 0 .. FirstBytes, Ends(i) PROVE i = k
  <2>1. k \in Nat /\ k <= FirstBytes /\ i \in Nat /\ i <= FirstBytes
    BY <1>2, <1>6
  <2>2. ASSUME i < k PROVE FALSE
    <3>1. i \in 0 .. (k - 1) /\ i # FirstBytes
      BY <1>2, <2>1, <2>2
    <3>2. Remaining(n, i) < More /\ Remaining(n, i) >= More /\ Remaining(n, i) \in Nat
      BY <1>5, <1>6, <1>7, <2>1, <3>1
    <3> QED BY <1>2, <3>2
  <2>3. ASSUME k < i PROVE FALSE
    <3>1. k \in 0 .. (i - 1) /\ k # FirstBytes
      BY <1>2, <2>1, <2>3
    <3>2. Remaining(n, k) < More /\ Remaining(n, k) >= More /\ Remaining(n, k) \in Nat
      BY <1>5, <1>6, <1>7, <2>1, <3>1
    <3> QED BY <1>2, <3>2
  <2> QED BY <2>1, <2>2, <2>3
<1>8. LastIndex(n) = CHOOSE i \in 0 .. FirstBytes : Ends(i)
  BY DEF LastIndex
<1>9. (CHOOSE i \in 0 .. FirstBytes : Ends(i)) = k
  <2> HIDE DEF Ends
  <2> QED BY <1>6, <1>7
<1> QED BY <1>1, <1>8, <1>9

\* The bytes 1 to k of b in one integer, the first of them highest.
Shift(i) == 2 ^ (ByteBits * i)
Packs(x, b, k) ==
  /\ x \in Nat /\ x < Shift(k)
  /\ \A i \in 1 .. k : (x \div Shift(k - i)) % ByteModulus = b[i]

LEMMA ShiftFacts ==
  ASSUME NEW i \in Nat
  PROVE  /\ Shift(0) = 1 /\ Shift(1) = ByteModulus
         /\ Shift(i) \in Nat \ {0} /\ Shift(i + 1) = Shift(i) * ByteModulus
         /\ ByteModulus \in Nat \ {0}
<1> DEFINE b == ByteBits
<1>1. b \in Nat
  BY Widths
<1>2. b * i \in Nat /\ b * (i + 1) = b * i + b /\ b * 0 = 0 /\ b * 1 = b
  <2> HIDE DEF b
  <2> QED BY <1>1
<1>3. 2 ^ (b * i) \in Nat \ {0} /\ 2 ^ b \in Nat \ {0}
  BY <1>1, <1>2, SP!PowerType
<1>4. 2 ^ (b * i + b) = 2 ^ (b * i) * 2 ^ b
  BY <1>1, <1>2, SP!PowerSum
<1> QED BY <1>2, <1>3, <1>4, SP!PowerOne DEF Shift, ByteModulus

LEMMA ShiftGrows ==
  ASSUME NEW i \in Nat, NEW j \in Nat, i <= j
  PROVE  Shift(i) <= Shift(j)
<1> DEFINE b == ByteBits
<1>1. b \in Nat
  BY Widths
<1>2. b * i \in Nat /\ b * j \in Nat /\ b * i <= b * j
  <2> HIDE DEF b
  <2> QED BY <1>1
<1> QED BY <1>2, SP!PowerGrows DEF Shift

LEMMA NothingPacked ==
  ASSUME NEW b PROVE Packs(0, b, 0)
<1>1. 0 < Shift(0)
  BY ShiftFacts
<1>2. 1 .. 0 = {}
  OBVIOUS
<1> QED BY <1>1, <1>2 DEF Packs

LEMMA ByteAppended ==
  ASSUME NEW b, NEW k \in Nat, NEW x, Packs(x, b, k), NEW c \in 0 .. (ByteModulus - 1), b[k + 1] = c
  PROVE  Packs(x * ByteModulus + c, b, k + 1)
<1> DEFINE m == ByteModulus
           y == x * m + c
<1>1. m \in Nat \ {0} /\ Shift(k) \in Nat \ {0} /\ Shift(k + 1) = Shift(k) * m
  BY ShiftFacts
<1>2. x \in Nat /\ x < Shift(k) /\ c \in 0 .. (m - 1)
  BY DEF Packs
<1>3. y \in Nat /\ y < Shift(k + 1)
  <2>1. PICK s : s = Shift(k)
    OBVIOUS
  <2>2. x + 1 <= s /\ s \in Nat /\ x \in Nat /\ m \in Nat /\ c \in 0 .. (m - 1)
    BY <1>1, <1>2, <2>1
  <2> HIDE DEF m
  <2>3. x * m \in Nat /\ (x + 1) * m = x * m + m /\ (x + 1) * m <= s * m
    BY ONLY <2>2
  <2>4. s * m \in Nat
    BY ONLY <2>2
  <2>5. x * m + c \in Nat /\ x * m + c < s * m
    BY ONLY <2>2, <2>3, <2>4
  <2> QED BY <1>1, <2>1, <2>5
<1>4. y \div m = x /\ y % m = c
  <2> HIDE DEF m
  <2>1. (m * x + c) \div m = x /\ (m * x + c) % m = c
    BY <1>1, <1>2, SP!Quotients
  <2>2. x * m = m * x
    BY <1>1, <1>2
  <2> QED BY <2>1, <2>2
<1> HIDE DEF y
<1>5. ASSUME NEW i \in 1 .. (k + 1) PROVE (y \div Shift(k + 1 - i)) % m = b[i]
  <2>1. CASE i = k + 1
    <3>1. k + 1 - i = 0
      BY <2>1
    <3>2. y \div 1 = y
      BY <1>3
    <3> QED BY <1>4, <2>1, <3>1, <3>2, ShiftFacts
  <2>2. CASE i # k + 1
    <3>1. PICK j : j = k - i
      OBVIOUS
    <3>2. j \in Nat /\ k + 1 - i = j + 1 /\ i \in 1 .. k
      BY <2>2, <3>1
    <3>3. PICK s : s = Shift(j)
      OBVIOUS
    <3>4. s \in Nat \ {0} /\ Shift(j + 1) = s * m
      BY <3>2, <3>3, ShiftFacts
    <3>5. PICK w \in Nat \ {0} : w = m
      BY <1>1
    <3>6. (y \div w) \div s = y \div (w * s) /\ w * s = s * w
      <4>1. (y \div w) \div s = y \div (w * s)
        BY <1>3, <3>4, <3>5, SP!DividedTwice
      <4>2. w * s = s * w
        BY <1>3, <3>4, <3>5
      <4> QED BY <4>1, <4>2
    <3>7. y \div Shift(k + 1 - i) = x \div Shift(k - i)
      BY <1>4, <3>1, <3>2, <3>3, <3>4, <3>5, <3>6
    <3>8. (x \div Shift(k - i)) % m = b[i]
      BY <3>2 DEF Packs
    <3> QED BY <3>7, <3>8
  <2> QED BY <2>1, <2>2
<1>6. Packs(y, b, k + 1)
  BY <1>3, <1>5 DEF Packs
<1> QED BY <1>6 DEF y

LEMMA ByteTaken ==
  ASSUME NEW b, NEW k \in Nat, NEW x, Packs(x, b, k + 1)
  PROVE  Packs(x \div ByteModulus, b, k) /\ x % ByteModulus = b[k + 1]
<1> DEFINE m == ByteModulus
           y == x \div m
<1>1. m \in Nat \ {0} /\ Shift(k) \in Nat \ {0} /\ Shift(k + 1) = Shift(k) * m
  BY ShiftFacts
<1>2. x \in Nat /\ x < Shift(k + 1)
  BY DEF Packs
<1>3. y \in Nat /\ y < Shift(k)
  <2>1. PICK s : s = Shift(k)
    OBVIOUS
  <2>2. PICK w : w = m
    OBVIOUS
  <2>3. s \in Nat \ {0} /\ w \in Nat \ {0} /\ x \in Nat /\ x < s * w
    BY <1>1, <1>2, <2>1, <2>2
  <2>4. x \div w \in Nat /\ x = w * (x \div w) + (x % w) /\ x % w \in 0 .. (w - 1)
    BY <2>3, SP!Division
  <2>5. PICK q, r : q = x \div w /\ r = x % w
    OBVIOUS
  <2>6. q \in Nat /\ r \in Nat /\ w * q + r < s * w
    BY <2>3, <2>4, <2>5
  <2>7. q < s
    <3> SUFFICES ASSUME q >= s PROVE FALSE
      BY <2>3, <2>6
    <3>1. w * q >= w * s /\ w * s = s * w /\ w * q \in Nat /\ w * s \in Nat
      BY ONLY <2>3, <2>6, q >= s
    <3> QED BY ONLY <2>6, <3>1
  <2> QED BY <2>1, <2>2, <2>5, <2>6, <2>7
<1> HIDE DEF y
<1>4. ASSUME NEW i \in 1 .. k PROVE (y \div Shift(k - i)) % m = b[i]
  <2>1. PICK j : j = k - i
    OBVIOUS
  <2>2. j \in Nat /\ k + 1 - i = j + 1 /\ i \in 1 .. (k + 1)
    BY <2>1
  <2>3. PICK s : s = Shift(j)
    OBVIOUS
  <2>4. s \in Nat \ {0} /\ Shift(j + 1) = s * m
    BY <2>2, <2>3, ShiftFacts
  <2>5. PICK w \in Nat \ {0} : w = m
    BY <1>1
  <2>6. (x \div w) \div s = x \div (w * s) /\ w * s = s * w
    <3>1. (x \div w) \div s = x \div (w * s)
      BY <1>2, <2>4, <2>5, SP!DividedTwice
    <3>2. w * s = s * w
      BY <1>2, <2>4, <2>5
    <3> QED BY <3>1, <3>2
  <2>7. y \div Shift(k - i) = x \div Shift(k + 1 - i)
    BY <2>1, <2>2, <2>3, <2>4, <2>5, <2>6 DEF y
  <2>8. (x \div Shift(k + 1 - i)) % m = b[i]
    BY <2>2 DEF Packs
  <2> QED BY <2>7, <2>8
<1>5. x % m = b[k + 1]
  <2>1. k + 1 \in 1 .. (k + 1) /\ k + 1 - (k + 1) = 0
    OBVIOUS
  <2>2. (x \div Shift(k + 1 - (k + 1))) % m = b[k + 1]
    BY <2>1 DEF Packs
  <2>3. x \div 1 = x
    BY <1>2
  <2> QED BY <2>1, <2>2, <2>3, ShiftFacts
<1>6. Packs(y, b, k)
  BY <1>3, <1>4 DEF Packs
<1> QED BY <1>5, <1>6 DEF y

\* What VarIntFirst makes of one more byte.
LEMMA FirstPartEquation ==
  ASSUME NEW n \in Nat, NEW i \in Nat
  PROVE  /\ FirstPart(n, 0) = 0 /\ FirstPart(n, i) \in Nat
         /\ FirstPart(n, i + 1) =
              (FirstPart(n, i) * ByteModulus + (Remaining(n, i) % More) + More) % FirstModulus
<1> DEFINE Plus(s, k) == (s * ByteModulus + (Remaining(n, k) % More) + More) % FirstModulus
           G == [p \in Nat \X Nat |-> Plus(p[2], p[1])]
           first[k \in Nat] ==
             IF k = 0 THEN 0
             ELSE (first[k - 1] * ByteModulus + (Remaining(n, k - 1) % More) + More) % FirstModulus
<1>1. ByteModulus \in Nat /\ More \in Nat \ {0} /\ FirstModulus \in Nat \ {0}
  <2>1. FirstModulus = Shift(FirstBytes) /\ FirstBytes \in Nat
    BY IntegerAssumption DEF FirstModulus, Shift
  <2> QED BY <2>1, ShiftFacts, Widths
<1>2. ASSUME NEW s \in Nat, NEW k \in Nat PROVE Plus(s, k) \in Nat
  <2>1. PICK d, m, g : d = ByteModulus /\ m = More /\ g = FirstModulus
    OBVIOUS
  <2>2. PICK r : r = Remaining(n, k)
    OBVIOUS
  <2>3. r \in Nat /\ d \in Nat /\ m \in Nat \ {0} /\ g \in Nat \ {0}
    BY <1>1, <2>1, <2>2, RemainingFacts
  <2>4. r % m \in Nat
    BY <2>3, SP!Division
  <2>5. PICK t : t = s * d + (r % m) + m
    OBVIOUS
  <2>6. t \in Nat
    BY <2>3, <2>4, <2>5
  <2>7. t % g \in Nat
    BY <2>3, <2>6, SP!Division
  <2> QED BY <2>1, <2>2, <2>5, <2>7
<1>3. PICK f \in [Nat -> Nat] : f[0] = 0 /\ \A k \in Nat : f[k + 1] = Plus(f[k], k)
  <2> DEFINE V == Nat
  <2>1. 0 \in V /\ G \in [Nat \X V -> V]
    <3> HIDE DEF Plus
    <3> QED BY <1>2
  <2>2. PICK f \in [Nat -> V] : SP!Recursive(f, 0, G)
    <3> HIDE DEF V, G
    <3> QED BY <2>1, SP!Recursion
  <2>3. ASSUME NEW k \in Nat PROVE f[k + 1] = Plus(f[k], k)
    <3>1. f[k] \in Nat
      BY <2>2
    <3>2. f[k + 1] = G[<<k, f[k]>>]
      BY <2>2 DEF SP!Recursive
    <3> HIDE DEF Plus
    <3> QED BY <3>1, <3>2
  <2>4. f[0] = 0
    BY <2>2 DEF SP!Recursive
  <2> HIDE DEF Plus
  <2> QED BY <2>2, <2>3, <2>4
<1>4. f = [k \in Nat |-> IF k = 0 THEN 0
                         ELSE (f[k - 1] * ByteModulus + (Remaining(n, k - 1) % More) + More) % FirstModulus]
  <2>1. ASSUME NEW k \in Nat PROVE f[k] = IF k = 0 THEN 0 ELSE Plus(f[k - 1], k - 1)
    <3> HIDE DEF Plus
    <3>1. k # 0 => k - 1 \in Nat /\ (k - 1) + 1 = k
      OBVIOUS
    <3> QED BY <1>3, <3>1
  <2>2. f = [k \in Nat |-> IF k = 0 THEN 0 ELSE Plus(f[k - 1], k - 1)]
    <3> HIDE DEF Plus
    <3> QED BY <1>3, <2>1
  <2> QED BY <2>2, Zenon
<1>5. first = [k \in Nat |-> IF k = 0 THEN 0
                 ELSE (first[k - 1] * ByteModulus + (Remaining(n, k - 1) % More) + More) % FirstModulus]
  BY <1>4, Zenon
<1>6. FirstPart(n, 0) = first[0] /\ FirstPart(n, i) = first[i] /\ FirstPart(n, i + 1) = first[i + 1]
  BY DEF FirstPart
<1> HIDE DEF first
<1>7. first[0] = 0
  BY <1>5
<1>8. \A k \in Nat : first[k + 1] = Plus(first[k], k)
  <2> TAKE k \in Nat
  <2>1. k + 1 \in Nat /\ k + 1 # 0 /\ (k + 1) - 1 = k
    OBVIOUS
  <2>2. first[k + 1] = IF k + 1 = 0 THEN 0 ELSE Plus(first[(k + 1) - 1], (k + 1) - 1)
    BY <1>5, <2>1
  <2> HIDE DEF Plus
  <2> QED BY <2>1, <2>2
<1>9. i \in {k \in Nat : first[k] \in Nat}
  <2> DEFINE S == {k \in Nat : first[k] \in Nat}
  <2>1. 0 \in S
    BY <1>7
  <2>2. \A k \in Nat : k \in S => k + 1 \in S
    <3> SUFFICES ASSUME NEW k \in Nat, first[k] \in Nat PROVE first[k + 1] \in Nat
      OBVIOUS
    <3> HIDE DEF Plus
    <3>1. PICK s \in Nat : s = first[k]
      OBVIOUS
    <3>2. Plus(s, k) \in Nat
      BY <1>2
    <3>3. first[k + 1] = Plus(s, k)
      BY <1>8, <3>1
    <3> QED BY <3>2, <3>3
  <2>3. Nat \subseteq S
    <3> HIDE DEF S
    <3> QED BY <2>1, <2>2, SP!Induction
  <2> QED BY <2>3
<1> QED BY <1>6, <1>7, <1>8, <1>9

\* As long as no byte is lost, the first part is the bytes one after the other.
LEMMA FirstPartPacks ==
  ASSUME NEW n \in 0 .. (SizeModulus - 1), NEW b, b = WriteSize(n),
         NEW k \in Nat, k <= FirstBytes, k < Len(b)
  PROVE  Packs(FirstPart(n, k), b, k)
<1>0. n \in Nat /\ Len(b) \in Nat /\ FirstBytes \in Nat
  BY Widths, SizeEnds, IntegerAssumption
<1> DEFINE S == {j \in 0 .. k : Packs(FirstPart(n, j), b, j)}
<1>1. 0 \in S
  BY <1>0, FirstPartEquation, NothingPacked
<1>2. ASSUME NEW i \in 1 .. k, i - 1 \in S PROVE i \in S
  <2>1. PICK j : j = i - 1
    OBVIOUS
  <2>2. j \in Nat /\ j + 1 = i /\ j < Len(b) - 1 /\ j + 1 <= FirstBytes /\ j \in 0 .. (Len(b) - 1)
    BY <1>0, <2>1
  <2>3. PICK x : x = FirstPart(n, j)
    OBVIOUS
  <2>4. Packs(x, b, j)
    BY <1>2, <2>1, <2>3
  <2>5. PICK c : c = (Remaining(n, j) % More) + More
    OBVIOUS
  <2>6. b[j + 1] = c
    <3>1. b[j + 1] = SizeByte(n, j, Len(b))
      BY <2>2, SizeShaped DEF Shaped
    <3> QED BY <2>2, <2>5, <3>1 DEF SizeByte
  <2>7. c \in 0 .. (ByteModulus - 1) /\ (Remaining(n, j) % More) \in Nat /\ More \in Nat
    <3>1. Remaining(n, j) \in Nat /\ More \in Nat \ {0} /\ ByteModulus = 2 * More
      BY <1>0, <2>2, RemainingFacts, Widths
    <3>2. Remaining(n, j) % More \in 0 .. (More - 1)
      <4>1. PICK r, m : r = Remaining(n, j) /\ m = More
        OBVIOUS
      <4>2. r \in Nat /\ m \in Nat \ {0}
        BY <3>1, <4>1
      <4>3. r % m \in 0 .. (m - 1)
        BY <4>2, SP!Division
      <4> QED BY <4>1, <4>3
    <3> QED BY <2>5, <3>1, <3>2
  <2>8. Packs(x * ByteModulus + c, b, j + 1)
    BY <2>2, <2>4, <2>6, <2>7, ByteAppended
  <2>9. x * ByteModulus + c < FirstModulus /\ x * ByteModulus + c \in Nat /\ FirstModulus \in Nat \ {0}
    <3>1. PICK y : y = x * ByteModulus + c
      OBVIOUS
    <3>2. y \in Nat /\ y < Shift(j + 1)
      BY <2>8, <3>1 DEF Packs
    <3>3. Shift(j + 1) <= FirstModulus /\ FirstModulus \in Nat \ {0} /\ Shift(j + 1) \in Nat
      <4>1. FirstModulus = Shift(FirstBytes)
        BY DEF FirstModulus, Shift
      <4> QED BY <1>0, <2>2, <4>1, ShiftGrows, ShiftFacts
    <3> QED BY <3>1, <3>2, <3>3
  <2>10. FirstPart(n, j + 1) = (x * ByteModulus + c) % FirstModulus
    <3>1. FirstPart(n, j + 1) = (x * ByteModulus + (Remaining(n, j) % More) + More) % FirstModulus
      BY <1>0, <2>2, <2>3, FirstPartEquation
    <3>2. PICK xm : xm = x * ByteModulus
      OBVIOUS
    <3>3. xm \in Nat
      <4>1. x \in Nat /\ ByteModulus \in Nat
        BY <2>4, Widths DEF Packs
      <4> QED BY <3>2, <4>1
    <3>4. xm + (Remaining(n, j) % More) + More = xm + c
      BY <2>5, <2>7, <3>3
    <3> QED BY <3>1, <3>2, <3>4
  <2>11. FirstPart(n, j + 1) = x * ByteModulus + c
    <3>1. PICK y : y = x * ByteModulus + c
      OBVIOUS
    <3>2. y % FirstModulus = y
      BY <2>9, <3>1, SP!Division
    <3> QED BY <2>10, <3>1, <3>2
  <2> QED BY <2>2, <2>8, <2>11
<1>3. 0 .. k \subseteq S
  <2> HIDE DEF S
  <2> QED BY <1>1, <1>2, SP!InductionUpto
<1>4. k \in S
  <2> HIDE DEF S
  <2> QED BY <1>3
<1> QED BY <1>4

\* The two integers that the compiler makes of a size of L bytes.
Parts(b, L, first, second) ==
  /\ first \in Nat /\ first < Shift(FirstBytes)
  /\ L <= FirstBytes => Packs(first, b, L)
  /\ L <= FirstBytes + 1 => second = 0
  /\ L = FirstBytes + 2 => /\ Packs(first, b, FirstBytes)
                           /\ second = b[FirstBytes + 1] * ByteModulus + b[FirstBytes + 2]

LEMMA BytesAre ==
  ASSUME NEW n \in 0 .. (SizeModulus - 1), NEW b, b = WriteSize(n)
  PROVE  /\ n \in Nat /\ Len(b) \in 1 .. (FirstBytes + 2) /\ FirstBytes \in Nat \ {0}
         /\ \A i \in 1 .. Len(b) : b[i] \in 0 .. (ByteModulus - 1)
         /\ \A i \in 1 .. (Len(b) - 1) : b[i] = (Remaining(n, i - 1) % More) + More /\ b[i] >= More
         /\ b[Len(b)] = Remaining(n, Len(b) - 1) /\ b[Len(b)] < More
<1>1. n \in Nat /\ FirstBytes \in Nat \ {0} /\ ByteModulus = 2 * More /\ More \in Nat \ {0}
  BY Widths, IntegerAssumption
<1>2. PICK L : L = Len(b)
  OBVIOUS
<1>3. L \in 1 .. (FirstBytes + 2) /\ L \in Nat
  BY <1>1, <1>2, SizeEnds
<1>4. /\ \A i \in 0 .. (L - 1) : b[i + 1] = SizeByte(n, i, L)
      /\ Remaining(n, L - 1) < More
  BY <1>2, SizeShaped DEF Shaped
<1>5. ASSUME NEW i \in 1 .. (L - 1)
      PROVE  b[i] = (Remaining(n, i - 1) % More) + More /\ b[i] >= More /\ b[i] \in 0 .. (ByteModulus - 1)
  <2>1. i - 1 \in 0 .. (L - 1) /\ (i - 1) + 1 = i /\ i - 1 < L - 1 /\ i - 1 \in Nat
    BY <1>3
  <2>2. b[i] = (Remaining(n, i - 1) % More) + More
    BY <1>4, <2>1 DEF SizeByte
  <2>3. PICK r, m : r = Remaining(n, i - 1) /\ m = More
    OBVIOUS
  <2>4. r \in Nat /\ m \in Nat \ {0}
    BY <1>1, <2>1, <2>3, RemainingFacts
  <2>5. r % m \in 0 .. (m - 1)
    BY <2>4, SP!Division
  <2>6. PICK d : d = r % m
    OBVIOUS
  <2>7. b[i] = d + m /\ d \in 0 .. (m - 1) /\ m \in Nat /\ ByteModulus = 2 * m /\ More = m
    BY <1>1, <2>2, <2>3, <2>4, <2>5, <2>6
  <2> QED BY <2>2, <2>7
<1>6. b[L] = Remaining(n, L - 1) /\ b[L] < More /\ b[L] \in 0 .. (ByteModulus - 1)
  <2>1. L - 1 \in 0 .. (L - 1) /\ (L - 1) + 1 = L /\ ~(L - 1 < L - 1) /\ L - 1 \in Nat
    BY <1>3
  <2>2. b[L] = Remaining(n, L - 1)
    BY <1>4, <2>1 DEF SizeByte
  <2>3. Remaining(n, L - 1) \in Nat
    BY <1>1, <2>1, RemainingFacts
  <2>4. b[L] \in Nat /\ b[L] < More
    BY <1>4, <2>2, <2>3
  <2> QED BY <1>1, <2>2, <2>4
<1>7. ASSUME NEW i \in 1 .. L PROVE b[i] \in 0 .. (ByteModulus - 1)
  <2>1. i = L \/ i \in 1 .. (L - 1)
    BY <1>3
  <2> QED BY <1>5, <1>6, <2>1
<1>8. \A i \in 1 .. (L - 1) : b[i] = (Remaining(n, i - 1) % More) + More /\ b[i] >= More
  BY <1>5
<1> QED BY <1>1, <1>2, <1>3, <1>6, <1>7, <1>8

LEMMA VarIntParts ==
  ASSUME NEW n \in 0 .. (SizeModulus - 1), NEW b, b = WriteSize(n)
  PROVE  \E first, second :
           /\ VarInt(n)[1] = first /\ VarInt(n)[2] = second
           /\ Parts(b, Len(b), first, second)
<1>1. PICK L : L = Len(b)
  OBVIOUS
<1>2. /\ n \in Nat /\ L \in 1 .. (FirstBytes + 2) /\ FirstBytes \in Nat \ {0}
      /\ \A i \in 1 .. L : b[i] \in 0 .. (ByteModulus - 1)
      /\ \A i \in 1 .. (L - 1) : b[i] = (Remaining(n, i - 1) % More) + More
      /\ b[L] = Remaining(n, L - 1)
  BY <1>1, BytesAre
<1>3. More \in Nat \ {0} /\ ByteModulus \in Nat
  BY Widths
<1>4. LastIndex(n) = IF L <= FirstBytes THEN L - 1 ELSE FirstBytes
  BY <1>1, LastIndexRight
<1>5. FirstModulus = Shift(FirstBytes) /\ FirstModulus \in Nat \ {0}
  <2>1. FirstModulus = Shift(FirstBytes)
    BY DEF FirstModulus, Shift
  <2> QED BY <1>2, <2>1, ShiftFacts
<1>6. CASE L <= FirstBytes + 1
  <2>1. LastIndex(n) = L - 1 /\ L - 1 \in Nat /\ L - 1 <= FirstBytes /\ L - 1 < L /\ (L - 1) + 1 = L
    BY <1>2, <1>4, <1>6
  <2>2. PICK x, y : x = FirstPart(n, L - 1) /\ y = x * ByteModulus + b[L]
    OBVIOUS
  <2>3. Packs(x, b, L - 1)
    BY <1>1, <2>1, <2>2, FirstPartPacks
  <2>4. b[L] \in 0 .. (ByteModulus - 1)
    BY <1>2
  <2>5. Packs(y, b, L)
    <3>1. PICK k : k = L - 1
      OBVIOUS
    <3>2. k \in Nat /\ b[k + 1] = b[L] /\ Packs(x, b, k) /\ k + 1 = L
      BY <2>1, <2>3, <3>1
    <3>3. Packs(x * ByteModulus + b[L], b, k + 1)
      BY <2>4, <3>2, ByteAppended
    <3> QED BY <2>2, <3>2, <3>3
  <2>6. VarInt(n) = <<y % FirstModulus, 0>>
    <3>1. Remaining(n, L - 1) < More
      BY <1>1, BytesAre
    <3> QED BY <1>2, <2>1, <2>2, <3>1 DEF VarInt
  <2>7. y \in Nat /\ y < Shift(L)
    BY <2>5 DEF Packs
  <2>8. y % FirstModulus \in 0 .. (FirstModulus - 1)
    BY <1>5, <2>7, SP!Division
  <2>9. ASSUME L <= FirstBytes PROVE y % FirstModulus = y
    <3>1. L \in Nat /\ FirstBytes \in Nat
      BY <1>2
    <3>2. Shift(L) <= FirstModulus /\ Shift(L) \in Nat
      BY <1>5, <2>9, <3>1, ShiftGrows, ShiftFacts
    <3>3. y < FirstModulus
      BY <1>5, <2>7, <3>2
    <3> QED BY <1>5, <2>7, <3>3, SP!Division
  <2>10. PICK first : first = y % FirstModulus
    OBVIOUS
  <2>11. first \in Nat /\ first < Shift(FirstBytes)
    BY <1>5, <2>8, <2>10
  <2>12. L <= FirstBytes => Packs(first, b, L)
    BY <2>5, <2>9, <2>10
  <2>13. L # FirstBytes + 2
    BY <1>2, <1>6
  <2>14. Parts(b, L, first, 0)
    BY <2>11, <2>12, <2>13 DEF Parts
  <2>15. VarInt(n)[1] = first /\ VarInt(n)[2] = 0
    BY <2>6, <2>10
  <2> QED BY <1>1, <2>14, <2>15
<1>7. CASE L > FirstBytes + 1
  <2>1. PICK F : F = FirstBytes
    OBVIOUS
  <2>2. /\ L = F + 2 /\ LastIndex(n) = F /\ F \in Nat /\ F < L /\ F + 1 \in 1 .. (L - 1) /\ F \in 0 .. (L - 2)
        /\ (F + 1) - 1 = F /\ L - 1 = F + 1
    BY <1>2, <1>4, <1>7, <2>1
  <2>3. PICK r : r = Remaining(n, F)
    OBVIOUS
  <2>4. r \in Nat /\ r >= More /\ Remaining(n, F + 1) = r \div More
    <3>1. r >= More
      BY <1>1, <2>2, <2>3, SizeShaped DEF Shaped
    <3> QED BY <1>2, <2>2, <2>3, <3>1, RemainingFacts
  <2>5. Remaining(n, F + 1) < More
    <3>1. Remaining(n, L - 1) < More
      BY <1>1, BytesAre
    <3> QED BY <2>2, <3>1
  <2>6. (r \div More) % More = r \div More
    <3>1. PICK q, m : q = r \div More /\ m = More
      OBVIOUS
    <3>2. m \in Nat \ {0} /\ q \in Nat /\ q < m
      BY <1>3, <2>4, <2>5, <3>1, SP!Division
    <3> QED BY <3>1, <3>2, SP!Division
  <2>7. b[F + 1] = (r % More) + More /\ b[F + 2] = r \div More
    BY <1>2, <2>2, <2>3, <2>4
  <2>8. PICK first, second : first = FirstPart(n, F) /\ second = VarIntSecond(r)
    OBVIOUS
  <2>9. VarInt(n) = <<first, second>>
    <3>1. ~(r < More)
      BY <1>3, <2>4
    <3> QED BY <2>2, <2>3, <2>8, <3>1 DEF VarInt
  <2>10. second = b[F + 1] * ByteModulus + b[F + 2]
    BY <2>6, <2>7, <2>8 DEF VarIntSecond
  <2>11. Packs(first, b, F)
    <3>1. F \in Nat /\ F <= FirstBytes /\ F < Len(b)
      BY <1>1, <2>1, <2>2
    <3>2. Packs(FirstPart(n, F), b, F)
      BY <3>1, FirstPartPacks
    <3> QED BY <2>8, <3>2
  <2>12. first \in Nat /\ first < Shift(F)
    BY <2>11 DEF Packs
  <2>13. ~(L <= F) /\ ~(L <= F + 1)
    BY <2>2
  <2>14. Parts(b, L, first, second)
    BY <2>1, <2>10, <2>11, <2>12, <2>13 DEF Parts
  <2>15. VarInt(n)[1] = first /\ VarInt(n)[2] = second
    BY <2>9
  <2> QED BY <1>1, <2>14, <2>15
<1> QED BY <1>2, <1>6, <1>7

\* The byte of a size that the serialiser takes from the two integers.
PackedByte(first, second, L, i) ==
  IF i < FirstBytes
  THEN (first \div Shift((IF L < FirstBytes THEN L ELSE FirstBytes) - 1 - i)) % ByteModulus
  ELSE (second \div Shift(L - 1 - i)) % ByteModulus

LEMMA BytesOfParts ==
  ASSUME NEW n \in 0 .. (SizeModulus - 1), NEW b, b = WriteSize(n),
         NEW first, NEW second, Parts(b, Len(b), first, second)
  PROVE  (Len(b) # FirstBytes + 1) <=> (\A i \in 0 .. (Len(b) - 1) : PackedByte(first, second, Len(b), i) = b[i + 1])
<1>1. PICK L, F : L = Len(b) /\ F = FirstBytes
  OBVIOUS
<1>2. /\ n \in Nat /\ L \in 1 .. (F + 2) /\ F \in Nat \ {0}
      /\ \A i \in 1 .. L : b[i] \in 0 .. (ByteModulus - 1)
      /\ b[L] = Remaining(n, L - 1)
  BY <1>1, BytesAre
<1>3. ByteModulus \in Nat \ {0} /\ Shift(0) = 1 /\ Shift(1) = ByteModulus
  BY ShiftFacts
<1>4. ASSUME NEW x, NEW k \in Nat, Packs(x, b, k), NEW i \in 0 .. (k - 1)
      PROVE  (x \div Shift(k - 1 - i)) % ByteModulus = b[i + 1]
  <2>1. i + 1 \in 1 .. k /\ k - (i + 1) = k - 1 - i
    BY <1>4
  <2>2. (x \div Shift(k - (i + 1))) % ByteModulus = b[i + 1]
    BY <1>4, <2>1 DEF Packs
  <2> QED BY <2>1, <2>2
<1>5. CASE L <= F
  <2>1. Packs(first, b, L) /\ L \in Nat /\ L # F + 1 /\ (IF L < F THEN L ELSE F) = L
    BY <1>1, <1>2, <1>5 DEF Parts
  <2>2. ASSUME NEW i \in 0 .. (L - 1) PROVE PackedByte(first, second, L, i) = b[i + 1]
    <3>1. i < F
      BY <1>2, <1>5
    <3>2. (first \div Shift(L - 1 - i)) % ByteModulus = b[i + 1]
      BY <1>4, <2>1
    <3> QED BY <1>1, <2>1, <3>1, <3>2 DEF PackedByte
  <2> QED BY <1>1, <2>1, <2>2
<1>6. CASE L = F + 1
  <2>1. second = 0
    BY <1>1, <1>2, <1>6 DEF Parts
  <2>2. L > 1 /\ F \in 0 .. (L - 1) /\ ~(F < F) /\ L - 1 - F = 0 /\ F + 1 = L
    BY <1>2, <1>6
  <2>3. PackedByte(first, second, L, F) = 0
    <3>1. (0 \div 1) % ByteModulus = 0
      BY <1>3
    <3> QED BY <1>1, <1>3, <2>1, <2>2, <3>1 DEF PackedByte
  <2>4. b[L] # 0
    <3>1. Remaining(n, L - 1) > 0
      BY <1>1, <2>2, SizeEnds
    <3> QED BY <1>2, <3>1
  <2>5. PackedByte(first, second, L, F) # b[F + 1]
    BY <2>2, <2>3, <2>4
  <2> QED BY <1>1, <1>6, <2>2, <2>5
<1>7. CASE L = F + 2
  <2>1. Packs(first, b, F) /\ second = b[F + 1] * ByteModulus + b[F + 2]
    BY <1>1, <1>7 DEF Parts
  <2>2. F \in Nat /\ F + 1 \in 1 .. L /\ F + 2 \in 1 .. L /\ (IF L < F THEN L ELSE F) = F /\ L # F + 1
    BY <1>2, <1>7
  <2>3. PICK c, d, m : c = b[F + 1] /\ d = b[F + 2] /\ m = ByteModulus
    OBVIOUS
  <2>4. c \in 0 .. (m - 1) /\ d \in 0 .. (m - 1) /\ m \in Nat \ {0}
    BY <1>2, <1>3, <2>2, <2>3
  <2>5. second = m * c + d /\ second \in Nat
    <3>1. c * m = m * c /\ m * c + d \in Nat
      BY <2>4
    <3> QED BY <2>1, <2>3, <3>1
  <2>6. second \div m = c /\ second % m = d
    <3>1. c \in Int /\ m \in Nat \ {0} /\ d \in 0 .. (m - 1)
      BY <2>4
    <3>2. (m * c + d) \div m = c /\ (m * c + d) % m = d
      BY <3>1, SP!Quotients
    <3> QED BY <2>5, <3>2
  <2>7. c % m = c /\ second \div 1 = second
    <3>1. c \in Nat /\ c < m
      BY <2>4
    <3>2. c % m = c
      BY <2>4, <3>1, SP!Division
    <3> QED BY <2>5, <3>2
  <2>8. ASSUME NEW i \in 0 .. (L - 1) PROVE PackedByte(first, second, L, i) = b[i + 1]
    <3>1. CASE i < F
      <4>1. i \in 0 .. (F - 1)
        BY <2>2, <3>1
      <4>2. (first \div Shift(F - 1 - i)) % ByteModulus = b[i + 1]
        BY <1>4, <2>1, <2>2, <4>1
      <4> QED BY <1>1, <2>2, <3>1, <4>2 DEF PackedByte
    <3>2. CASE i = F
      <4>1. ~(i < F) /\ L - 1 - i = 1
        BY <1>7, <2>2, <3>2
      <4>2. PackedByte(first, second, L, i) = (second \div Shift(1)) % ByteModulus
        BY <1>1, <4>1 DEF PackedByte
      <4> QED BY <1>3, <2>3, <2>6, <2>7, <3>2, <4>2
    <3>3. CASE i = F + 1
      <4>1. ~(i < F) /\ L - 1 - i = 0 /\ i + 1 = F + 2
        BY <1>7, <2>2, <3>3
      <4>2. PackedByte(first, second, L, i) = (second \div Shift(0)) % ByteModulus
        BY <1>1, <4>1 DEF PackedByte
      <4> QED BY <1>3, <2>3, <2>6, <2>7, <4>1, <4>2
    <3> QED BY <1>7, <2>2, <3>1, <3>2, <3>3
  <2> QED BY <1>1, <2>2, <2>8
<1> QED BY <1>2, <1>5, <1>6, <1>7

\* FromVarIntHelper, on the number so far and the two integers.
Stepped(r) == IF r[2] = 0 /\ r[3] = 0 THEN r ELSE Unpacked(r[1], r[2], r[3])

Steps(run) == \A k \in Nat : run[k + 1] = Stepped(run[k])

Runs(run, first, second) == run[0] = <<0, first, second>> /\ Steps(run)

LEMMA SteppedType ==
  ASSUME NEW v \in Nat, NEW f \in Nat, NEW s \in Nat
  PROVE  Stepped(<<v, f, s>>) \in Nat \X Nat \X Nat
<1>1. PICK d, m, g : d = ByteModulus /\ m = More /\ g = SizeModulus
  OBVIOUS
<1>2. d \in Nat \ {0} /\ m \in Nat \ {0} /\ g \in Nat \ {0}
  BY <1>1, Widths, ShiftFacts
<1>3. f \div d \in Nat /\ s \div d \in Nat /\ f % m \in Nat /\ s % m \in Nat
  BY <1>2, SP!Division
<1>4. ASSUME NEW x \in Nat PROVE (v * m + x) % g \in Nat
  <2>1. PICK t : t = v * m + x
    OBVIOUS
  <2>2. t \in Nat
    BY <1>2, <2>1
  <2>3. t % g \in Nat
    BY <1>2, <2>2, SP!Division
  <2> QED BY <2>1, <2>3
<1>5. (v * m + (f % m)) % g \in Nat /\ (v * m + (s % m)) % g \in Nat
  BY <1>3, <1>4
<1>6. Unpacked(v, f, s) =
        IF s # 0 THEN <<(v * m + (s % m)) % g, f, s \div d>> ELSE <<(v * m + (f % m)) % g, f \div d, 0>>
  BY <1>1 DEF Unpacked
<1>7. Unpacked(v, f, s) \in Nat \X Nat \X Nat
  BY <1>3, <1>5, <1>6
<1> QED BY <1>7 DEF Stepped

\* It is a run of so many steps, of which the last leave the number alone.
LEMMA FromVarIntRuns ==
  ASSUME NEW first \in Nat, NEW second \in Nat
  PROVE  \E run : Runs(run, first, second) /\ FromVarInt(first, second) = run[FirstBytes + 2][1]
<1> DEFINE V == Nat \X Nat \X Nat
           G == [p \in Nat \X V |-> Stepped(p[2])]
           run[k \in Nat] ==
             IF k = 0 THEN <<0, first, second>>
             ELSE LET r == run[k - 1]
                  IN  IF r[2] = 0 /\ r[3] = 0 THEN r ELSE Unpacked(r[1], r[2], r[3])
<1>1. ASSUME NEW r \in V PROVE Stepped(r) \in V
  <2>1. r = <<r[1], r[2], r[3]>> /\ r[1] \in Nat /\ r[2] \in Nat /\ r[3] \in Nat
    OBVIOUS
  <2>2. Stepped(<<r[1], r[2], r[3]>>) \in V
    BY <2>1, SteppedType
  <2> QED BY <2>1, <2>2
<1>2. <<0, first, second>> \in V
  OBVIOUS
<1> HIDE DEF V
<1>3. G \in [Nat \X V -> V]
  BY <1>1
<1>4. PICK f \in [Nat -> V] : f[0] = <<0, first, second>> /\ \A k \in Nat : f[k + 1] = Stepped(f[k])
  <2>1. PICK f \in [Nat -> V] : SP!Recursive(f, <<0, first, second>>, G)
    <3> DEFINE a == <<0, first, second>>
    <3> HIDE DEF a, G
    <3>1. a \in V
      BY <1>2 DEF a
    <3>2. \E f \in [Nat -> V] : SP!Recursive(f, a, G)
      BY <1>3, <3>1, SP!Recursion
    <3> QED BY <3>2 DEF a
  <2>2. ASSUME NEW k \in Nat PROVE f[k + 1] = Stepped(f[k])
    <3>1. f[k] \in V
      BY <2>1
    <3>2. f[k + 1] = G[<<k, f[k]>>]
      BY <2>1 DEF SP!Recursive
    <3> QED BY <3>1, <3>2
  <2>3. f[0] = <<0, first, second>>
    BY <2>1 DEF SP!Recursive
  <2> QED BY <2>1, <2>2, <2>3
<1>5. f = [k \in Nat |-> IF k = 0 THEN <<0, first, second>>
                         ELSE LET r == f[k - 1]
                              IN  IF r[2] = 0 /\ r[3] = 0 THEN r ELSE Unpacked(r[1], r[2], r[3])]
  <2>1. ASSUME NEW k \in Nat PROVE f[k] = IF k = 0 THEN <<0, first, second>> ELSE Stepped(f[k - 1])
    <3>1. k # 0 => k - 1 \in Nat /\ (k - 1) + 1 = k
      OBVIOUS
    <3> QED BY <1>4, <3>1
  <2>2. f = [k \in Nat |-> IF k = 0 THEN <<0, first, second>> ELSE Stepped(f[k - 1])]
    BY <1>4, <2>1
  <2> QED BY <2>2, Zenon DEF Stepped
<1>6. run = [k \in Nat |-> IF k = 0 THEN <<0, first, second>>
                           ELSE LET r == run[k - 1]
                                IN  IF r[2] = 0 /\ r[3] = 0 THEN r ELSE Unpacked(r[1], r[2], r[3])]
  BY <1>5, Zenon
<1>7. FromVarInt(first, second) = run[FirstBytes + 2][1]
  BY DEF FromVarInt
<1> HIDE DEF run
<1>8. run[0] = <<0, first, second>>
  BY <1>6
<1>9. \A k \in Nat : run[k + 1] = Stepped(run[k])
  <2> TAKE k \in Nat
  <2>1. k + 1 \in Nat /\ k + 1 # 0 /\ (k + 1) - 1 = k
    OBVIOUS
  <2>2. run[k + 1] = LET r == run[(k + 1) - 1]
                     IN  IF r[2] = 0 /\ r[3] = 0 THEN r ELSE Unpacked(r[1], r[2], r[3])
    BY <1>6, <2>1
  <2>3. run[k + 1] = Stepped(run[(k + 1) - 1])
    BY <2>2, Zenon DEF Stepped
  <2> QED BY <2>1, <2>3
<1>10. Runs(run, first, second)
  BY <1>8, <1>9 DEF Runs, Steps
<1> QED BY <1>7, <1>10

\* A byte that is taken turns the number so far into it and the digits so far.
LEMMA DigitBack ==
  ASSUME NEW n \in 0 .. (SizeModulus - 1), NEW b, b = WriteSize(n), NEW m \in 1 .. Len(b),
         NEW x \in Nat, x % ByteModulus = b[m]
  PROVE  /\ (Remaining(n, m) * More + (x % More)) % SizeModulus = Remaining(n, m - 1)
         /\ x = 0 => Remaining(n, m - 1) = 0 /\ Remaining(n, m) = 0
<1>1. PICK L, d, g, w : L = Len(b) /\ d = More /\ g = SizeModulus /\ w = ByteModulus
  OBVIOUS
<1>2. /\ n \in Nat /\ n < g /\ g \in Nat \ {0} /\ d \in Nat \ {0} /\ w = d * 2 /\ L \in Nat
      /\ m \in Nat /\ m >= 1 /\ m <= L
  <2>1. n \in Nat /\ L \in 1 .. (FirstBytes + 2) /\ FirstBytes \in Nat
    BY <1>1, BytesAre
  <2> QED BY <1>1, <2>1, Widths
<1>3. m - 1 \in Nat /\ (m - 1) + 1 = m
  BY <1>2
<1>4. PICK r, q : r = Remaining(n, m - 1) /\ q = Remaining(n, m)
  OBVIOUS
<1>5. r \in Nat /\ r <= n /\ q = r \div d
  <2>1. r \in Nat /\ r <= n /\ Remaining(n, (m - 1) + 1) = r \div d
    BY <1>1, <1>2, <1>3, <1>4, RemainingFacts
  <2> QED BY <1>3, <1>4, <2>1
<1>6. q \in Nat /\ r = d * q + (r % d) /\ r % d \in 0 .. (d - 1) /\ (r < d => r % d = r /\ q = 0)
  BY <1>2, <1>5, SP!Division
<1>7. b[m] % d = r % d /\ (b[m] = 0 => r = 0)
  <2>1. CASE m = L
    <3>1. b[m] = r /\ r < d
      BY <1>1, <1>4, <2>1, BytesAre
    <3> QED BY <3>1
  <2>2. CASE m # L
    <3>1. m \in 1 .. (L - 1)
      BY <1>2, <2>2
    <3>2. b[m] = (r % d) + d /\ b[m] >= d
      BY <1>1, <1>4, <3>1, BytesAre
    <3>3. PICK e : e = r % d
      OBVIOUS
    <3>4. e \in 0 .. (d - 1) /\ d \in Nat \ {0}
      BY <1>2, <1>6, <3>3
    <3>5. (d * 1 + e) % d = e
      BY <3>4, SP!Quotients
    <3>6. d * 1 + e = e + d /\ e + d # 0
      BY <3>4
    <3> QED BY <3>2, <3>3, <3>5, <3>6
  <2> QED BY <2>1, <2>2
<1>8. x % d = r % d
  <2>1. (x % (d * 2)) % d = x % d
    <3>1. x \in Int /\ d \in Nat \ {0} /\ 2 \in Nat \ {0}
      BY <1>2
    <3> QED BY <3>1, ResidueOfResidue, Zenon
  <2> QED BY <1>1, <1>2, <1>7, <2>1
<1>9. q * d + (x % d) = r
  <2>1. PICK e : e = r % d
    OBVIOUS
  <2>2. r = d * q + e /\ d \in Nat /\ q \in Nat /\ e \in Nat
    BY <1>2, <1>6, <2>1
  <2>3. q * d = d * q
    BY <2>2
  <2> QED BY <1>8, <2>1, <2>2, <2>3
<1>10. r % g = r
  <2>1. r < g
    BY <1>2, <1>5
  <2> QED BY <1>2, <1>5, <2>1, SP!Division
<1>11. ASSUME x = 0 PROVE r = 0 /\ q = 0
  <2>1. 0 % w = 0
    BY <1>2
  <2>2. b[m] = 0
    BY <1>1, <1>11, <2>1
  <2>3. r = 0
    BY <1>7, <2>2
  <2> QED BY <1>2, <1>6, <2>3
<1> QED BY <1>1, <1>4, <1>9, <1>10, <1>11

\* From the bytes 1 to m in the first integer and the digits above them.
LEMMA Unwound ==
  ASSUME NEW n \in 0 .. (SizeModulus - 1), NEW b, b = WriteSize(n),
         NEW run, Steps(run), NEW k \in Nat, NEW m \in 0 .. Len(b),
         NEW x, Packs(x, b, m), run[k] = <<Remaining(n, m), x, 0>>
  PROVE  run[k + m] = <<n, 0, 0>>
<1> DEFINE At(i, j, y) == Packs(y, b, i) /\ run[j] = <<Remaining(n, i), y, 0>>
           S == {i \in 0 .. Len(b) : \A j \in Nat : \A y \in Nat : At(i, j, y) => run[j + i] = <<n, 0, 0>>}
<1>0. n \in Nat /\ Len(b) \in Nat
  <2>1. n \in Nat /\ Len(b) \in 1 .. (FirstBytes + 2) /\ FirstBytes \in Nat
    BY BytesAre
  <2> QED BY <2>1
<1>1. 0 \in S
  <2>1. ASSUME NEW j \in Nat, NEW y \in Nat, At(0, j, y) PROVE run[j + 0] = <<n, 0, 0>>
    <3>1. y \in Nat /\ y < 1
      BY <2>1, ShiftFacts DEF Packs
    <3>2. y = 0
      BY <3>1
    <3>3. Remaining(n, 0) = n
      BY <1>0, RemainingFacts
    <3>4. j + 0 = j
      BY <2>1
    <3> QED BY <2>1, <3>2, <3>3, <3>4
  <2>2. \A j \in Nat : \A y \in Nat : At(0, j, y) => run[j + 0] = <<n, 0, 0>>
    BY <2>1, Zenon
  <2>3. 0 \in 0 .. Len(b)
    BY <1>0
  <2> HIDE DEF At
  <2> QED BY <2>2, <2>3, Zenon
<1>2. ASSUME NEW i \in 1 .. Len(b), i - 1 \in S PROVE i \in S
  <2>1. ASSUME NEW j \in Nat, NEW y \in Nat, At(i, j, y) PROVE run[j + i] = <<n, 0, 0>>
    <3>1. PICK h : h = i - 1
      OBVIOUS
    <3>2. h \in Nat /\ i = h + 1 /\ h \in 0 .. Len(b) /\ j + 1 \in Nat /\ (j + 1) + h = j + i
      BY <1>0, <3>1
    <3>3. PICK z : z = y \div ByteModulus
      OBVIOUS
    <3>4. Packs(z, b, h) /\ y % ByteModulus = b[i]
      <4>1. Packs(y, b, h + 1)
        BY <2>1, <3>2
      <4>2. Packs(y \div ByteModulus, b, h) /\ y % ByteModulus = b[h + 1]
        BY <3>2, <4>1, ByteTaken
      <4> QED BY <3>2, <3>3, <4>2
    <3>5. z \in Nat
      BY <3>4 DEF Packs
    <3>6. run[j + 1] = Stepped(<<Remaining(n, i), y, 0>>)
      BY <2>1 DEF Steps
    <3>7. /\ (Remaining(n, i) * More + (y % More)) % SizeModulus = Remaining(n, i - 1)
          /\ y = 0 => Remaining(n, i - 1) = 0 /\ Remaining(n, i) = 0
      BY <3>4, DigitBack
    <3>8. Stepped(<<Remaining(n, i), y, 0>>) = <<Remaining(n, h), z, 0>>
      <4>1. CASE y = 0
        <5>1. z = 0
          <6>1. PICK w : w = ByteModulus
            OBVIOUS
          <6>2. w \in Nat \ {0}
            BY <6>1, ShiftFacts
          <6>3. 0 \div w = 0
            BY <6>2
          <6> QED BY <3>3, <4>1, <6>1, <6>3
        <5>2. Stepped(<<Remaining(n, i), y, 0>>) = <<Remaining(n, i), y, 0>>
          BY <4>1 DEF Stepped
        <5> QED BY <3>1, <3>7, <4>1, <5>1, <5>2
      <4>2. CASE y # 0
        <5>1. Stepped(<<Remaining(n, i), y, 0>>) = Unpacked(Remaining(n, i), y, 0)
          BY <4>2 DEF Stepped
        <5>2. Unpacked(Remaining(n, i), y, 0) =
                <<(Remaining(n, i) * More + (y % More)) % SizeModulus, y \div ByteModulus, 0>>
          BY DEF Unpacked
        <5> QED BY <3>1, <3>3, <3>7, <5>1, <5>2
      <4> QED BY <4>1, <4>2
    <3>9. At(h, j + 1, z)
      BY <3>4, <3>6, <3>8
    <3>10. h \in S
      BY <1>2, <3>1
    <3> HIDE DEF At
    <3>11. run[(j + 1) + h] = <<n, 0, 0>>
      BY <3>2, <3>5, <3>9, <3>10
    <3> QED BY <3>2, <3>11
  <2>2. \A j \in Nat : \A y \in Nat : At(i, j, y) => run[j + i] = <<n, 0, 0>>
    BY <2>1, Zenon
  <2>3. i \in 0 .. Len(b)
    BY <1>0
  <2> HIDE DEF At
  <2> QED BY <2>2, <2>3, Zenon
<1>3. 0 .. Len(b) \subseteq S
  <2> HIDE DEF S
  <2> QED BY <1>0, <1>1, <1>2, SP!InductionUpto
<1>4. m \in S
  <2> HIDE DEF S
  <2> QED BY <1>3
<1>5. x \in Nat /\ At(m, k, x)
  BY DEF Packs
<1> HIDE DEF At
<1> QED BY <1>4, <1>5

\* When nothing is left, the number stays.
LEMMA Stays ==
  ASSUME NEW run, Steps(run), NEW k \in Nat, NEW v,
         run[k] = <<v, 0, 0>>, NEW j \in Nat
  PROVE  run[k + j] = <<v, 0, 0>>
<1> DEFINE S == {i \in Nat : run[k + i] = <<v, 0, 0>>}
<1>1. 0 \in S
  OBVIOUS
<1>2. \A i \in Nat : i \in S => i + 1 \in S
  <2> SUFFICES ASSUME NEW i \in Nat, run[k + i] = <<v, 0, 0>> PROVE run[k + (i + 1)] = <<v, 0, 0>>
    OBVIOUS
  <2>1. k + i \in Nat /\ (k + i) + 1 = k + (i + 1)
    OBVIOUS
  <2>2. run[(k + i) + 1] = Stepped(<<v, 0, 0>>)
    BY <2>1 DEF Steps
  <2>3. Stepped(<<v, 0, 0>>) = <<v, 0, 0>>
    BY DEF Stepped
  <2> QED BY <2>1, <2>2, <2>3
<1>3. Nat \subseteq S
  <2> HIDE DEF S
  <2> QED BY <1>1, <1>2, SP!Induction
<1> QED BY <1>3

\* Of one byte too many, less than the number comes back.
DigitShift(i) == 2 ^ ((ByteBits - 1) * i)

LEMMA StepLow ==
  ASSUME NEW k \in Nat, NEW j \in Nat, NEW v \in Nat, v < DigitShift(k), NEW y \in Nat, y < Shift(j + 1)
  PROVE  \E u \in Nat, z \in Nat :
           Stepped(<<v, y, 0>>) = <<u, z, 0>> /\ u < DigitShift(k + 1) /\ z < Shift(j)
<1>1. PICK p, s, d, w, g : p = DigitShift(k) /\ s = Shift(j) /\ d = More /\ w = ByteModulus /\ g = SizeModulus
  OBVIOUS
<1>2. /\ p \in Nat \ {0} /\ s \in Nat \ {0} /\ d \in Nat \ {0} /\ w \in Nat \ {0} /\ g \in Nat \ {0}
      /\ DigitShift(k + 1) = p * d /\ Shift(j + 1) = s * w
  <2>1. p \in Nat \ {0} /\ DigitShift(k + 1) = p * d
    BY <1>1, Unit DEF DigitShift
  <2>2. s \in Nat \ {0} /\ w \in Nat \ {0} /\ Shift(j + 1) = s * w
    BY <1>1, ShiftFacts
  <2>3. d \in Nat \ {0} /\ g \in Nat \ {0}
    BY <1>1, Widths
  <2> QED BY <2>1, <2>2, <2>3
<1>3. v < p /\ y < s * w
  BY <1>1, <1>2
<1>4. CASE y = 0
  <2>1. Stepped(<<v, y, 0>>) = <<v, 0, 0>>
    BY <1>4 DEF Stepped
  <2>2. p <= p * d /\ p * d \in Nat
    BY <1>2
  <2>3. v < DigitShift(k + 1)
    BY <1>2, <1>3, <2>2
  <2>4. 0 < Shift(j)
    BY <1>1, <1>2
  <2> QED BY <2>1, <2>3, <2>4
<1>5. CASE y # 0
  <2>1. PICK t, z : t = v * d + (y % d) /\ z = y \div w
    OBVIOUS
  <2>2. Stepped(<<v, y, 0>>) = <<t % g, z, 0>>
    BY <1>1, <1>5, <2>1 DEF Stepped, Unpacked
  <2>3. y % d \in 0 .. (d - 1)
    BY <1>2, SP!Division
  <2>4. t \in Nat /\ t < p * d
    <3>1. PICK e : e = y % d
      OBVIOUS
    <3>2. e \in 0 .. (d - 1) /\ v + 1 <= p /\ v \in Nat /\ p \in Nat /\ d \in Nat /\ t = v * d + e
      BY <1>2, <1>3, <2>1, <2>3, <3>1
    <3>3. v * d \in Nat /\ (v + 1) * d = v * d + d /\ (v + 1) * d <= p * d /\ p * d \in Nat
      BY ONLY <3>2
    <3> QED BY ONLY <3>2, <3>3
  <2>5. t % g \in Nat /\ t % g <= t
    <3>1. t \div g \in Nat /\ t % g \in 0 .. (g - 1) /\ t = g * (t \div g) + (t % g)
      BY <1>2, <2>4, SP!Division
    <3>2. PICK q, e : q = t \div g /\ e = t % g
      OBVIOUS
    <3>3. g * q \in Nat /\ t = g * q + e /\ e \in Nat
      <4>1. q \in Nat /\ e \in 0 .. (g - 1) /\ g \in Nat
        BY <1>2, <3>1, <3>2
      <4>2. t = g * q + e
        BY <3>1, <3>2
      <4> QED BY <4>1, <4>2
    <3> QED BY <3>2, <3>3
  <2>6. p * d \in Nat
    BY <1>2
  <2>7. t % g < DigitShift(k + 1)
    BY <1>2, <2>4, <2>5, <2>6
  <2>8. z \in Nat /\ z < s
    <3>1. y \div w \in Nat /\ y = w * (y \div w) + (y % w) /\ y % w \in 0 .. (w - 1)
      BY <1>2, SP!Division
    <3>2. PICK e : e = y % w
      OBVIOUS
    <3>3. z \in Nat /\ e \in Nat /\ w * z + e < s * w /\ s \in Nat /\ w \in Nat \ {0}
      BY <1>2, <1>3, <2>1, <3>1, <3>2
    <3>4. z < s
      <4> SUFFICES ASSUME z >= s PROVE FALSE
        BY <3>3
      <4>1. w * z >= w * s /\ w * s = s * w /\ w * z \in Nat /\ w * s \in Nat
        BY ONLY <3>3, z >= s
      <4> QED BY ONLY <3>3, <4>1
    <3> QED BY <3>3, <3>4
  <2> QED BY <1>1, <2>2, <2>5, <2>7, <2>8
<1> QED BY <1>4, <1>5

LEMMA ByteLost ==
  ASSUME NEW n \in 0 .. (SizeModulus - 1), Len(WriteSize(n)) = FirstBytes + 1,
         NEW first \in Nat, first < Shift(FirstBytes), NEW run, Runs(run, first, 0)
  PROVE  run[FirstBytes + 2][1] # n
<1>1. PICK F : F = FirstBytes
  OBVIOUS
<1>2. n \in Nat /\ F \in Nat \ {0}
  BY <1>1, BytesAre
<1> DEFINE Low(k) == \E v \in Nat, y \in Nat : run[k] = <<v, y, 0>> /\ v < DigitShift(k) /\ y < Shift(F - k)
           S == {k \in 0 .. F : Low(k)}
<1>3. 0 \in S
  <2>1. F - 0 = F /\ 0 \in 0 .. F
    BY <1>2
  <2>2. DigitShift(0) \in Nat \ {0}
    BY Unit DEF DigitShift
  <2>3. run[0] = <<0, first, 0>> /\ 0 < DigitShift(0) /\ first < Shift(F - 0)
    BY <1>1, <2>1, <2>2 DEF Runs
  <2> QED BY <2>1, <2>3
<1>4. ASSUME NEW k \in 1 .. F, k - 1 \in S PROVE k \in S
  <2>1. PICK h, j : h = k - 1 /\ j = F - k
    OBVIOUS
  <2>2. h \in Nat /\ j \in Nat /\ h + 1 = k /\ F - h = j + 1 /\ F - k = j
    BY <1>2, <2>1
  <2>3. PICK v \in Nat, y \in Nat : run[h] = <<v, y, 0>> /\ v < DigitShift(h) /\ y < Shift(j + 1)
    BY <1>4, <2>1, <2>2
  <2>4. \E u \in Nat, z \in Nat : Stepped(<<v, y, 0>>) = <<u, z, 0>> /\ u < DigitShift(h + 1) /\ z < Shift(j)
    BY <2>2, <2>3, StepLow, SMTT(30)
  <2>5. run[h + 1] = Stepped(<<v, y, 0>>)
    BY <2>2, <2>3 DEF Runs, Steps
  <2>6. Low(k)
    BY <2>2, <2>4, <2>5
  <2>7. k \in 0 .. F
    BY <1>2
  <2> HIDE DEF Low
  <2> QED BY <2>6, <2>7
<1>5. Low(F)
  <2>1. 0 .. F \subseteq S
    <3> HIDE DEF S
    <3> QED BY <1>2, <1>3, <1>4, SP!InductionUpto
  <2>2. F \in S
    <3> HIDE DEF S
    <3> QED BY <1>2, <2>1
  <2> HIDE DEF Low
  <2> QED BY <2>2
<1>6. PICK v \in Nat, y \in Nat : run[F] = <<v, y, 0>> /\ v < DigitShift(F) /\ y < Shift(0)
  <2>1. F - F = 0
    BY <1>2
  <2> QED BY <1>5, <2>1
<1>7. run[F] = <<v, 0, 0>>
  <2>1. y = 0
    BY <1>6, ShiftFacts
  <2> QED BY <1>6, <2>1
<1>8. run[F + 2] = <<v, 0, 0>>
  <2>1. Steps(run) /\ F \in Nat /\ 2 \in Nat
    BY <1>2 DEF Runs
  <2> QED BY <1>7, <2>1, Stays, SMTT(30)
<1>9. ~(n < DigitShift(F))
  <2>1. Remaining(n, F) > 0
    <3>1. Len(WriteSize(n)) > 1 /\ Len(WriteSize(n)) - 1 = F
      BY <1>1, <1>2
    <3> QED BY <3>1, SizeEnds
  <2>2. PICK p : p = DigitShift(F)
    OBVIOUS
  <2>3. p \in Nat \ {0} /\ Remaining(n, F) = n \div p
    BY <1>2, <2>2, Unit DEF DigitShift, Remaining
  <2>4. n < p => n \div p = 0
    BY <1>2, <2>3, SP!Division
  <2> QED BY <2>1, <2>2, <2>3, <2>4
<1> QED BY <1>1, <1>6, <1>8, <1>9

\* But of any other number of bytes, the number comes back.
LEMMA FromVarIntBack ==
  ASSUME NEW n \in 0 .. (SizeModulus - 1), NEW b, b = WriteSize(n),
         NEW first, NEW second, Parts(b, Len(b), first, second)
  PROVE  (Len(b) # FirstBytes + 1) <=> (FromVarInt(first, second) = n)
<1>1. PICK L, F, w : L = Len(b) /\ F = FirstBytes /\ w = ByteModulus
  OBVIOUS
<1>2. /\ n \in Nat /\ L \in 1 .. (F + 2) /\ F \in Nat \ {0}
      /\ \A i \in 1 .. L : b[i] \in 0 .. (w - 1)
      /\ \A i \in 1 .. (L - 1) : b[i] >= More
  BY <1>1, BytesAre
<1>3. w \in Nat \ {0} /\ More \in Nat /\ More > 1
  BY <1>1, ShiftFacts, Widths
<1>4. first \in Nat /\ first < Shift(F)
  BY <1>1 DEF Parts
<1>5. Remaining(n, L) = 0
  BY <1>1, SizeEnds
<1>6. CASE L <= F
  <2>1. second = 0 /\ Packs(first, b, L) /\ L # F + 1 /\ L \in Nat /\ L \in 0 .. Len(b)
    <3>1. L <= F + 1 /\ L # F + 1 /\ L \in Nat /\ L \in 0 .. L
      BY <1>2, <1>6
    <3> QED BY <1>1, <1>6, <3>1 DEF Parts
  <2>2. PICK run : Runs(run, first, 0) /\ FromVarInt(first, 0) = run[FirstBytes + 2][1]
    BY <1>4, FromVarIntRuns
  <2>3. run[0] = <<0, first, 0>> /\ Steps(run)
    BY <2>2 DEF Runs
  <2>4. run[0 + L] = <<n, 0, 0>>
    <3>1. run[0] = <<Remaining(n, L), first, 0>>
      BY <1>5, <2>3
    <3>2. 0 \in Nat /\ L \in 0 .. Len(b) /\ Packs(first, b, L) /\ Steps(run)
      BY <2>1, <2>3
    <3> QED BY <3>1, <3>2, Unwound
  <2>5. PICK j : j = F + 2 - L
    OBVIOUS
  <2>6. j \in Nat /\ L + j = F + 2 /\ 0 + L = L
    BY <1>2, <2>1, <2>5
  <2>7. run[L + j] = <<n, 0, 0>>
    <3>1. Steps(run) /\ L \in Nat /\ j \in Nat /\ run[L] = <<n, 0, 0>>
      BY <2>1, <2>3, <2>4, <2>6
    <3> QED BY <3>1, Stays
  <2> QED BY <1>1, <2>1, <2>2, <2>6, <2>7
<1>7. CASE L = F + 1
  <2>1. second = 0
    <3>1. L <= F + 1
      BY <1>2, <1>7
    <3> QED BY <1>1, <3>1 DEF Parts
  <2>2. PICK run : Runs(run, first, 0) /\ FromVarInt(first, 0) = run[FirstBytes + 2][1]
    BY <1>4, FromVarIntRuns
  <2>3. run[FirstBytes + 2][1] # n
    BY <1>1, <1>4, <1>7, <2>2, ByteLost
  <2> QED BY <1>1, <1>7, <2>1, <2>2, <2>3
<1>8. CASE L = F + 2
  <2>1. PICK c, e : c = b[F + 1] /\ e = b[F + 2]
    OBVIOUS
  <2>2. /\ F \in Nat /\ F + 1 \in 1 .. (L - 1) /\ F + 1 \in 1 .. L /\ F + 2 \in 1 .. L /\ L # F + 1
        /\ L - 1 = F + 1 /\ (F + 1) - 1 = F /\ F \in 0 .. L /\ 2 + F = F + 2
    BY <1>2, <1>8
  <2>3. Packs(first, b, F) /\ second = c * w + e
    BY <1>1, <1>8, <2>1 DEF Parts
  <2>4. c \in 0 .. (w - 1) /\ e \in 0 .. (w - 1) /\ c >= More /\ c # 0
    BY <1>2, <1>3, <2>1, <2>2
  <2>5. PICK s : s = w * c + e
    OBVIOUS
  <2>6. s \in Nat /\ second = s /\ s # 0
    <3>1. w * c = c * w /\ w * c \in Nat /\ w * c > 0
      BY <1>3, <2>4
    <3>2. w * c + e \in Nat /\ w * c + e # 0
      BY <2>4, <3>1
    <3> QED BY <2>3, <2>5, <3>1, <3>2
  <2>7. s \div w = c /\ s % w = e
    <3>1. c \in Int /\ w \in Nat \ {0} /\ e \in 0 .. (w - 1)
      BY <1>3, <2>4
    <3>2. (w * c + e) \div w = c /\ (w * c + e) % w = e
      BY <3>1, SP!Quotients
    <3> QED BY <2>5, <3>2
  <2>8. c \div w = 0 /\ c % w = c /\ c \in Nat
    <3>1. c \in Nat /\ c < w
      BY <1>3, <2>4
    <3> QED BY <1>3, <3>1, SP!Division
  <2>9. PICK run : Runs(run, first, s) /\ FromVarInt(first, s) = run[FirstBytes + 2][1]
    BY <1>4, <2>6, FromVarIntRuns
  <2>10. run[0] = <<0, first, s>> /\ Steps(run)
    BY <2>9 DEF Runs
  <2>11. run[1] = <<Remaining(n, F + 1), first, c>>
    <3>1. run[0 + 1] = Stepped(run[0])
      BY <2>10 DEF Steps
    <3>2. run[1] = Stepped(<<0, first, s>>)
      BY <2>10, <3>1
    <3>3. Stepped(<<0, first, s>>) = <<(0 * More + (s % More)) % SizeModulus, first, s \div w>>
      BY <1>1, <2>6 DEF Stepped, Unpacked
    <3>4. s % ByteModulus = b[L] /\ L \in 1 .. Len(b)
      BY <1>1, <1>8, <2>1, <2>2, <2>7
    <3>5. (Remaining(n, L) * More + (s % More)) % SizeModulus = Remaining(n, L - 1)
      BY <2>6, <3>4, DigitBack
    <3> QED BY <1>5, <2>2, <2>7, <3>2, <3>3, <3>5
  <2>12. run[2] = <<Remaining(n, F), first, 0>>
    <3>1. run[1 + 1] = Stepped(run[1])
      BY <2>10 DEF Steps
    <3>2. run[2] = Stepped(<<Remaining(n, F + 1), first, c>>)
      BY <2>11, <3>1
    <3>3. Stepped(<<Remaining(n, F + 1), first, c>>) =
            <<(Remaining(n, F + 1) * More + (c % More)) % SizeModulus, first, c \div w>>
      BY <1>1, <2>4 DEF Stepped, Unpacked
    <3>4. c % ByteModulus = b[F + 1] /\ F + 1 \in 1 .. Len(b)
      BY <1>1, <2>1, <2>2, <2>8
    <3>5. (Remaining(n, F + 1) * More + (c % More)) % SizeModulus = Remaining(n, (F + 1) - 1)
      BY <2>8, <3>4, DigitBack
    <3> QED BY <2>2, <2>8, <3>2, <3>3, <3>5
  <2>13. run[2 + F] = <<n, 0, 0>>
    <3>1. 2 \in Nat /\ F \in 0 .. Len(b)
      BY <1>1, <2>2
    <3>2. Packs(first, b, F) /\ Steps(run)
      BY <2>3, <2>10
    <3> QED BY <2>12, <3>1, <3>2, Unwound
  <2>14. run[FirstBytes + 2][1] = n
    BY <1>1, <2>2, <2>13
  <2> QED BY <1>1, <2>2, <2>6, <2>9, <2>14
<1> QED BY <1>2, <1>6, <1>7, <1>8

LEMMA CompiledSize ==
  ASSUME NEW n \in 0 .. (SizeModulus - 1), item.value = n
  PROVE  CompiledAgrees
<1> DEFINE b == WriteSize(n)
           L == Len(b)
           first == VarInt(n)[1]
           second == VarInt(n)[2]
           inFirst == IF L < FirstBytes THEN L ELSE FirstBytes
           byte(i) == IF i < FirstBytes
                      THEN (first \div 2 ^ (ByteBits * (inFirst - 1 - i))) % ByteModulus
                      ELSE (second \div 2 ^ (ByteBits * (L - 1 - i))) % ByteModulus
<1>1. Parts(b, L, first, second)
  <2>1. \E x, y : VarInt(n)[1] = x /\ VarInt(n)[2] = y /\ Parts(b, L, x, y)
    BY VarIntParts
  <2> QED BY <2>1, Zenon
<1>2. VarIntSize(n) = L
  BY VarIntSizeRight
<1>3. (L # FirstBytes + 1) <=> (FromVarInt(first, second) = n)
  <2> HIDE DEF first, second
  <2> QED BY <1>1, FromVarIntBack
<1>4. \A i : byte(i) = PackedByte(first, second, L, i)
  BY Zenon DEF PackedByte, Shift
<1>5. (L # FirstBytes + 1) <=> (\A i \in 0 .. (L - 1) : PackedByte(first, second, L, i) = b[i + 1])
  <2> HIDE DEF first, second
  <2> QED BY <1>1, BytesOfParts
<1>6. (L # FirstBytes + 1) <=> (\A i \in 0 .. (L - 1) : byte(i) = b[i + 1])
  <2> HIDE DEF byte, b, L, first, second
  <2> QED BY <1>4, <1>5, Zenon
<1> QED BY <1>2, <1>3, <1>6, Zenon DEF CompiledAgrees

-----------------------------------------------------------------------------
(***************************************************************************)
(* The stream.  What is on the wire is exactly what the writer of the item *)
(* wrote; what was received is told from it.                               *)
(***************************************************************************)
SizeItem(n) == [kind |-> "size", value |-> n]
IntegerItem(i, index) ==
  [kind |-> "integer", index |-> index, type |-> i.type, signed |-> i.signed, value |-> i.value]
FloatItem(f) == [kind |-> "float", value |-> f]
DoubleItem(f) == [kind |-> "double", value |-> f]
BooleansItem(v) == [kind |-> "booleans", value |-> v]

IntegerWire(i, index) == <<CreateHeader(index, i.type), i.value % ModulusOf(i.type)>>
FloatWire(f, u) == <<CreateHeader(0, UInt32), Single!ToWord(f, u)>>
DoubleWire(f, u) == <<CreateHeader(0, UInt64), Double!ToWord(f, u)>>
BooleansWire(v, packed) ==
  <<CreateHeader(0, Array), CreateHeader(IF packed THEN 1 ELSE 0, UInt8)>>
    \o WriteSize(Len(v)) \o WriteVectorBody(v, packed)

Written(i, bytes) ==
  \/ i = Nothing /\ bytes = <<>>
  \/ \E n \in Sizes : i = SizeItem(n) /\ bytes = WriteSize(n)
  \/ \E j \in Numbers, index \in Indices : i = IntegerItem(j, index) /\ bytes = IntegerWire(j, index)
  \/ \E f \in Singles, u \in Single!Undefined : i = FloatItem(f) /\ bytes = FloatWire(f, u)
  \/ \E f \in Doubles, u \in Double!Undefined : i = DoubleItem(f) /\ bytes = DoubleWire(f, u)
  \/ \E v \in BooleanVectors, packed \in BOOLEAN :
       i = BooleansItem(v) /\ bytes = BooleansWire(v, packed)

\* What may be received of an item.
Readable(i) ==
  {"skipped", i.kind} \cup (IF i.kind \in {"float", "double"} THEN {"float", "double"} ELSE {})
Arrived(i, bytes, at, r) ==
  \/ r = Nothing /\ at = 1
  \/ i.kind # "nothing" /\ r.kind \in Readable(i) /\ at = Len(bytes) + 1

\* The inductive invariant.
Inv == Written(item, wire) /\ Arrived(item, wire, position, received) /\ ValuesKept /\ FloatsKept

LEMMA Types ==
  /\ Array \in 0 .. 7 /\ \A t \in Kinds : t \in 0 .. 7 /\ t # Array
  /\ UInt8 \in Kinds /\ UInt32 \in Kinds /\ UInt64 \in Kinds /\ UInt32 # UInt64
BY DEF Array, Kinds, UInt8, UInt32, UInt64

LEMMA Headers == 0 \in Indices /\ 1 \in Indices
<1>1. ByteBits - TypeBits - 1 \in Nat /\ (ByteBits - TypeBits - 1) + 1 = ByteBits - TypeBits
  BY Widths
<1>2. 2 ^ (ByteBits - TypeBits) = 2 * 2 ^ (ByteBits - TypeBits - 1)
      /\ 2 ^ (ByteBits - TypeBits - 1) \in Nat \ {0}
  BY <1>1, SP!PowerOne, SP!PowerType
<1> DEFINE p == 2 ^ (ByteBits - TypeBits - 1)
<1> HIDE DEF p
<1>3. 2 ^ (ByteBits - TypeBits) = 2 * p /\ p \in Nat \ {0}
  BY <1>2 DEF p
<1> QED BY <1>3 DEF Indices

LEMMA IntegerWireFacts ==
  ASSUME NEW i \in Numbers, NEW index \in Indices
  PROVE  LET w == IntegerWire(i, index)
         IN  /\ w \in Seq(Nat) /\ Len(w) = 2 /\ w[2] = i.value % ModulusOf(i.type)
             /\ GetHeaderType(w[1]) = i.type /\ GetHeaderIndex(w[1]) = index
             /\ i.type \in Kinds /\ i.type # Array
<1>1. i.type \in Kinds /\ i.signed \in BOOLEAN /\ i.value \in RangeOf(i.type, i.signed)
  BY ValueAssumption DEF Kinds
<1>2. i.type \in 0 .. 7 /\ i.type # Array
  BY <1>1, Types
<1>3. i.value % ModulusOf(i.type) \in Nat
  BY <1>1, CastKeeps
<1>4. /\ CreateHeader(index, i.type) \in Nat
      /\ GetHeaderType(CreateHeader(index, i.type)) = i.type
      /\ GetHeaderIndex(CreateHeader(index, i.type)) = index
  BY <1>2, HeaderFacts
<1> DEFINE h == CreateHeader(index, i.type)  r == i.value % ModulusOf(i.type)
<1> HIDE DEF h, r
<1>5. <<h, r>> \in Seq(Nat) /\ Len(<<h, r>>) = 2 /\ <<h, r>>[1] = h /\ <<h, r>>[2] = r
  BY <1>3, <1>4 DEF h, r
<1> QED BY <1>1, <1>2, <1>4, <1>5 DEF IntegerWire, h, r

LEMMA FloatWireFacts ==
  ASSUME NEW f \in Singles, NEW u \in Single!Undefined
  PROVE  LET w == FloatWire(f, u)
         IN  /\ w \in Seq(Nat) /\ Len(w) = 2 /\ w[2] = Single!ToWord(f, u)
             /\ GetHeaderType(w[1]) = UInt32
             /\ Single!Kept(f) => Single!FromWord(w[2]) = Single!Shortened(f)
<1>1. SP!FormatFits /\ f \in SP!Floats /\ u \in SP!Undefined
  BY ValueAssumption, SingleCodec
<1>2. SP!ToWord(f, u) \in Nat
  BY <1>1, SP!WordType
<1>3. Single!Kept(f) => Single!FromWord(Single!ToWord(f, u)) = Single!Shortened(f)
  <2>1. SP!Kept(f) => SP!FromWord(SP!ToWord(f, u)) = SP!Shortened(f)
    BY <1>1, SP!FloatKept
  <2> QED BY <2>1, SingleCodec
<1>4. CreateHeader(0, UInt32) \in Nat /\ GetHeaderType(CreateHeader(0, UInt32)) = UInt32
  BY Types, Headers, HeaderFacts
<1> DEFINE h == CreateHeader(0, UInt32)  r == Single!ToWord(f, u)
<1>5. r \in Nat
  BY <1>2, SingleCodec
<1> HIDE DEF h, r
<1>6. <<h, r>> \in Seq(Nat) /\ Len(<<h, r>>) = 2 /\ <<h, r>>[1] = h /\ <<h, r>>[2] = r
  BY <1>4, <1>5 DEF h
<1> QED BY <1>3, <1>4, <1>6 DEF FloatWire, h, r

LEMMA DoubleWireFacts ==
  ASSUME NEW f \in Doubles, NEW u \in Double!Undefined
  PROVE  LET w == DoubleWire(f, u)
         IN  /\ w \in Seq(Nat) /\ Len(w) = 2 /\ w[2] = Double!ToWord(f, u)
             /\ GetHeaderType(w[1]) = UInt64
             /\ Double!Kept(f) => Double!FromWord(w[2]) = Double!Shortened(f)
<1>1. DP!FormatFits /\ f \in DP!Floats /\ u \in DP!Undefined
  BY ValueAssumption, DoubleCodec
<1>2. DP!ToWord(f, u) \in Nat
  BY <1>1, DP!WordType
<1>3. Double!Kept(f) => Double!FromWord(Double!ToWord(f, u)) = Double!Shortened(f)
  <2>1. DP!Kept(f) => DP!FromWord(DP!ToWord(f, u)) = DP!Shortened(f)
    BY <1>1, DP!FloatKept
  <2> QED BY <2>1, DoubleCodec
<1>4. CreateHeader(0, UInt64) \in Nat /\ GetHeaderType(CreateHeader(0, UInt64)) = UInt64
  BY Types, Headers, HeaderFacts
<1> DEFINE h == CreateHeader(0, UInt64)  r == Double!ToWord(f, u)
<1>5. r \in Nat
  BY <1>2, DoubleCodec
<1> HIDE DEF h, r
<1>6. <<h, r>> \in Seq(Nat) /\ Len(<<h, r>>) = 2 /\ <<h, r>>[1] = h /\ <<h, r>>[2] = r
  BY <1>4, <1>5 DEF h
<1> QED BY <1>3, <1>4, <1>6 DEF DoubleWire, h, r

\* The size and the body of an array are found where they were written.
LEMMA BooleansWireFacts ==
  ASSUME NEW v \in BooleanVectors, NEW packed \in BOOLEAN
  PROVE  LET w == BooleansWire(v, packed)
             s == SizeLength(w, 3)
             length == BodyLength(Len(v), packed)
         IN  /\ w \in Seq(Nat) /\ Len(v) \in Nat /\ v \in Seq(BOOLEAN)
             /\ GetHeaderType(w[1]) = Array
             /\ (GetHeaderIndex(w[2]) % 2 = 1) <=> packed
             /\ ReadSize(w, 3) = Len(v) /\ s \in Nat /\ length \in Nat
             /\ Len(w) = 2 + s + length
             /\ SubSeq(w, 3 + s, 3 + s + length - 1) = WriteVectorBody(v, packed)
             /\ length = SkippedLength(Len(v), packed)
<1> DEFINE one == IF packed THEN 1 ELSE 0
           h == <<CreateHeader(0, Array), CreateHeader(one, UInt8)>>
           a == WriteSize(Len(v))
           b == WriteVectorBody(v, packed)
           w == BooleansWire(v, packed)
<1>1. v \in Seq(BOOLEAN) /\ Len(v) \in 0 .. (SizeModulus - 1) /\ Len(v) \in Nat
  <2>1. v \in Seq(BOOLEAN) /\ Len(v) < SizeModulus
    BY ValueAssumption
  <2> QED BY <2>1, Widths
<1>2. a \in Seq(Nat) /\ Len(a) \in Nat \ {0}
  <2>1. SizeInBytes(Len(v), a)
    BY <1>1, SizeFacts
  <2> QED BY <2>1 DEF SizeInBytes
<1>3. /\ b \in Seq(Nat) /\ Len(b) \in Nat
      /\ Len(b) = BodyLength(Len(v), packed) /\ Len(b) = SkippedLength(Len(v), packed)
  BY <1>1, BodyFacts
<1>4. /\ h \in Seq(Nat) /\ Len(h) = 2
      /\ GetHeaderType(h[1]) = Array /\ GetHeaderIndex(h[2]) = one
  <2>1. one \in Indices /\ UInt8 \in 0 .. 7
    BY Headers, Types
  <2>2. /\ CreateHeader(0, Array) \in Nat /\ CreateHeader(one, UInt8) \in Nat
        /\ GetHeaderType(CreateHeader(0, Array)) = Array
        /\ GetHeaderIndex(CreateHeader(one, UInt8)) = one
    <3> HIDE DEF one
    <3> QED BY <2>1, Headers, Types, HeaderFacts
  <2> DEFINE x == CreateHeader(0, Array)  y == CreateHeader(one, UInt8)
  <2> HIDE DEF x, y
  <2>3. <<x, y>> \in Seq(Nat) /\ Len(<<x, y>>) = 2 /\ <<x, y>>[1] = x /\ <<x, y>>[2] = y
    BY <2>2 DEF x, y
  <2> QED BY <2>2, <2>3 DEF x, y
<1>5. w = (h \o a) \o b
  BY DEF BooleansWire
<1> HIDE DEF h, a, b, w
<1>6. /\ w \in Seq(Nat) /\ Len(w) = 2 + Len(a) + Len(b)
      /\ w[1] = h[1] /\ w[2] = h[2]
      /\ \A k \in 1 .. Len(a) : w[2 + k] = a[k]
      /\ \A k \in 1 .. Len(b) : w[2 + Len(a) + k] = b[k]
  <2> DEFINE c == h \o a
  <2>1. /\ c \in Seq(Nat) /\ Len(c) = 2 + Len(a)
        /\ \A k \in 1 .. 2 : c[k] = h[k]
        /\ \A k \in 1 .. Len(a) : c[2 + k] = a[k]
    <3>1. /\ c \in Seq(Nat) /\ Len(c) = Len(h) + Len(a)
          /\ \A k \in 1 .. Len(h) : c[k] = h[k]
          /\ \A k \in 1 .. Len(a) : c[Len(h) + k] = a[k]
      BY <1>2, <1>4, Joined
    <3> HIDE DEF c
    <3> QED BY <1>4, <3>1
  <2>2. w = c \o b
    BY <1>5
  <2> HIDE DEF c
  <2>3. /\ w \in Seq(Nat) /\ Len(w) = Len(c) + Len(b)
        /\ \A k \in 1 .. Len(c) : w[k] = c[k]
        /\ \A k \in 1 .. Len(b) : w[Len(c) + k] = b[k]
    BY <1>3, <2>1, <2>2, Joined
  <2>4. ASSUME NEW k \in 1 .. Len(a) PROVE w[2 + k] = a[k]
    <3>1. 2 + k \in 1 .. Len(c)
      BY <1>2, <2>1
    <3> QED BY <2>1, <2>3, <3>1
  <2>5. 1 \in 1 .. Len(c) /\ 2 \in 1 .. Len(c)
    BY <1>2, <2>1
  <2> QED BY <2>1, <2>3, <2>4, <2>5
<1>7. SizeAt(Len(v), w, 3)
  <2>1. 3 + Len(a) - 1 <= Len(w)
    BY <1>2, <1>3, <1>6
  <2>2. ASSUME NEW i \in 1 .. Len(a) PROVE w[3 + i - 1] = a[i]
    <3>1. 3 + i - 1 = 2 + i
      BY <1>2
    <3> QED BY <1>6, <3>1
  <2> QED BY <1>6, <2>1, <2>2 DEF SizeAt, a
<1>8. ReadSize(w, 3) = Len(v) /\ SizeLength(w, 3) = Len(a)
  BY <1>1, <1>7, SizeRead, SizeLengthRead DEF a
<1>9. SubSeq(w, 3 + Len(a), 3 + Len(a) + Len(b) - 1) = b
  <2> DEFINE m == Len(a)  n == Len(b)  p == 3 + m  q == 3 + m + n - 1
  <2>1. m \in Nat /\ n \in Nat /\ Len(w) = 2 + m + n
    BY <1>2, <1>3, <1>6
  <2> HIDE DEF m, n
  <2>2. p \in Int /\ q \in Int /\ p \in Nat \ {0} /\ q <= Len(w) /\ q - p + 1 = n /\ (p <= q <=> n > 0)
    BY <2>1
  <2>3. ASSUME NEW k \in 1 .. n PROVE w[p + k - 1] = b[k]
    <3>1. p + k - 1 = 2 + m + k
      BY <2>1
    <3> HIDE DEF p
    <3> QED BY <1>6, <3>1 DEF m, n
  <2> HIDE DEF p, q
  <2>4. \A i \in p .. q : w[i] \in Nat
    BY <1>6, <2>2
  <2>5. /\ SubSeq(w, p, q) \in Seq(Nat)
        /\ Len(SubSeq(w, p, q)) = IF p <= q THEN q - p + 1 ELSE 0
        /\ \A k \in 1 .. q - p + 1 : SubSeq(w, p, q)[k] = w[p + k - 1]
    BY <2>2, <2>4, SubSeqProperties
  <2> DEFINE sub == SubSeq(w, p, q)
  <2> HIDE DEF sub
  <2>6. sub \in Seq(Nat) /\ Len(sub) = Len(b) /\ \A k \in 1 .. Len(b) : sub[k] = b[k]
    BY <2>1, <2>2, <2>3, <2>5 DEF sub, n
  <2>7. sub = b
    BY <1>3, <2>6
  <2> QED BY <2>7 DEF sub, p, q, m, n
<1>10. (GetHeaderIndex(w[2]) % 2 = 1) <=> packed
  <2>1. GetHeaderIndex(w[2]) = one
    BY <1>4, <1>6
  <2> QED BY <2>1
<1> QED BY <1>1, <1>2, <1>3, <1>4, <1>6, <1>8, <1>9, <1>10 DEF b, w

LEMMA WrittenKinds ==
  ASSUME NEW i, NEW bytes, Written(i, bytes)
  PROVE  /\ i.kind \in {"nothing", "size", "integer", "float", "double", "booleans"}
         /\ i.kind = "nothing" => i = Nothing /\ bytes = <<>>
         /\ i.kind = "size" => \E n \in Sizes : i = SizeItem(n) /\ bytes = WriteSize(n)
         /\ i.kind = "integer" => \E j \in Numbers, index \in Indices :
              i = IntegerItem(j, index) /\ bytes = IntegerWire(j, index)
         /\ i.kind = "float" => \E f \in Singles, u \in Single!Undefined :
              i = FloatItem(f) /\ bytes = FloatWire(f, u)
         /\ i.kind = "double" => \E f \in Doubles, u \in Double!Undefined :
              i = DoubleItem(f) /\ bytes = DoubleWire(f, u)
         /\ i.kind = "booleans" => \E v \in BooleanVectors, packed \in BOOLEAN :
              i = BooleansItem(v) /\ bytes = BooleansWire(v, packed)
<1>1. CASE i = Nothing /\ bytes = <<>>
  BY <1>1 DEF Nothing
<1>2. CASE \E n \in Sizes : i = SizeItem(n) /\ bytes = WriteSize(n)
  <2>1. i.kind = "size"
    BY <1>2 DEF SizeItem
  <2> QED BY <1>2, <2>1
<1>3. CASE \E j \in Numbers, index \in Indices : i = IntegerItem(j, index) /\ bytes = IntegerWire(j, index)
  <2>1. i.kind = "integer"
    BY <1>3 DEF IntegerItem
  <2> QED BY <1>3, <2>1
<1>4. CASE \E f \in Singles, u \in Single!Undefined : i = FloatItem(f) /\ bytes = FloatWire(f, u)
  <2>1. i.kind = "float"
    BY <1>4 DEF FloatItem
  <2> QED BY <1>4, <2>1
<1>5. CASE \E f \in Doubles, u \in Double!Undefined : i = DoubleItem(f) /\ bytes = DoubleWire(f, u)
  <2>1. i.kind = "double"
    BY <1>5 DEF DoubleItem
  <2> QED BY <1>5, <2>1
<1>6. CASE \E v \in BooleanVectors, packed \in BOOLEAN :
             i = BooleansItem(v) /\ bytes = BooleansWire(v, packed)
  <2>1. i.kind = "booleans"
    BY <1>6 DEF BooleansItem
  <2> QED BY <1>6, <2>1
<1> QED BY <1>1, <1>2, <1>3, <1>4, <1>5, <1>6 DEF Written

LEMMA WrittenWire ==
  ASSUME NEW i, NEW bytes, Written(i, bytes)
  PROVE  /\ bytes \in Seq(Nat)
         /\ i.kind = "size" => i.value \in 0 .. (SizeModulus - 1) /\ bytes = WriteSize(i.value)
         /\ i.kind \in {"integer", "float", "double"} => Len(bytes) = 2
<1>1. CASE i.kind = "nothing"
  <2>1. bytes = <<>>
    BY <1>1, WrittenKinds
  <2> QED BY <1>1, <2>1
<1>2. CASE i.kind = "size"
  <2>1. PICK n \in Sizes : i = SizeItem(n) /\ bytes = WriteSize(n)
    BY <1>2, WrittenKinds
  <2>2. n \in 0 .. (SizeModulus - 1) /\ i.value = n
    BY <2>1, ValueAssumption DEF SizeItem
  <2>3. WriteSize(n) \in Seq(Nat)
    BY <2>2, SizeFacts DEF SizeInBytes
  <2> QED BY <1>2, <2>1, <2>2, <2>3
<1>3. CASE i.kind = "integer"
  <2>1. PICK j \in Numbers, index \in Indices : i = IntegerItem(j, index) /\ bytes = IntegerWire(j, index)
    BY <1>3, WrittenKinds
  <2> QED BY <1>3, <2>1, IntegerWireFacts
<1>4. CASE i.kind = "float"
  <2>1. PICK f \in Singles, u \in Single!Undefined : i = FloatItem(f) /\ bytes = FloatWire(f, u)
    BY <1>4, WrittenKinds
  <2> QED BY <1>4, <2>1, FloatWireFacts
<1>5. CASE i.kind = "double"
  <2>1. PICK f \in Doubles, u \in Double!Undefined : i = DoubleItem(f) /\ bytes = DoubleWire(f, u)
    BY <1>5, WrittenKinds
  <2> QED BY <1>5, <2>1, DoubleWireFacts
<1>6. CASE i.kind = "booleans"
  <2>1. PICK v \in BooleanVectors, packed \in BOOLEAN :
             i = BooleansItem(v) /\ bytes = BooleansWire(v, packed)
    BY <1>6, WrittenKinds
  <2> QED BY <1>6, <2>1, BooleansWireFacts
<1> QED BY <1>1, <1>2, <1>3, <1>4, <1>5, <1>6, WrittenKinds

LEMMA InvImplies == Inv => TypeOK /\ WireInStep
<1> SUFFICES ASSUME Inv PROVE TypeOK /\ WireInStep
  OBVIOUS
<1>1. Written(item, wire) /\ Arrived(item, wire, position, received)
  BY DEF Inv
<1>2. wire \in Seq(Nat) /\ Len(wire) \in Nat
  BY <1>1, WrittenWire
<1>3. item.kind \in {"nothing", "size", "integer", "float", "double", "booleans"}
  BY <1>1, WrittenKinds
<1>4. CASE received = Nothing /\ position = 1
  <2>1. received.kind = "nothing"
    BY <1>4 DEF Nothing
  <2> QED BY <1>2, <1>3, <1>4, <2>1 DEF TypeOK, WireInStep
<1>5. CASE item.kind # "nothing" /\ received.kind \in Readable(item) /\ position = Len(wire) + 1
  BY <1>2, <1>3, <1>5 DEF TypeOK, WireInStep, Readable
<1> QED BY <1>1, <1>4, <1>5 DEF Arrived

\* Before anything was received.
LEMMA Unread ==
  ASSUME Inv
  PROVE  /\ received = Nothing => position = 1
         /\ item = Nothing => received = Nothing
<1>1. Arrived(item, wire, position, received) /\ Written(item, wire)
  BY DEF Inv
<1>2. ASSUME item.kind # "nothing", received.kind \in Readable(item) PROVE received # Nothing
  <2>1. received.kind # "nothing"
    BY <1>1, <1>2, WrittenKinds DEF Readable
  <2> QED BY <2>1 DEF Nothing
<1>3. item = Nothing => item.kind = "nothing"
  BY DEF Nothing
<1> QED BY <1>1, <1>2, <1>3 DEF Arrived

LEMMA WriteKeeps ==
  ASSUME Inv, NEW i, NEW bytes, Write(i, bytes), Written(i, bytes)
  PROVE  Inv'
<1>1. received = Nothing /\ position = 1
  BY Unread DEF Write
<1>2. item' = i /\ wire' = bytes /\ received' = Nothing /\ position' = 1 /\ received'.kind = "nothing"
  BY <1>1 DEF Write, Nothing
<1>3. Written(item', wire') /\ Arrived(item', wire', position', received')
  BY <1>2 DEF Arrived
<1>4. ValuesKept' /\ FloatsKept'
  BY <1>2 DEF ValuesKept, FloatsKept
<1> QED BY <1>3, <1>4 DEF Inv

LEMMA WriteNextKeeps == ASSUME Inv, WriteNext PROVE Inv'
<1>1. ASSUME NEW n \in Sizes, WriteSizeValue(n) PROVE Inv'
  <2>1. Write(SizeItem(n), WriteSize(n))
    BY <1>1 DEF WriteSizeValue, SizeItem
  <2>2. Written(SizeItem(n), WriteSize(n))
    BY DEF Written
  <2> QED BY <2>1, <2>2, WriteKeeps
<1>2. ASSUME NEW i \in Numbers, NEW index \in Indices, WriteInteger(i, index) PROVE Inv'
  <2>1. Write(IntegerItem(i, index), IntegerWire(i, index))
    BY <1>2 DEF WriteInteger, IntegerItem, IntegerWire
  <2>2. Written(IntegerItem(i, index), IntegerWire(i, index))
    BY DEF Written
  <2> QED BY <2>1, <2>2, WriteKeeps
<1>3. ASSUME NEW f \in Singles, NEW u \in Single!Undefined, WriteSingle(f, u) PROVE Inv'
  <2>1. Write(FloatItem(f), FloatWire(f, u))
    BY <1>3 DEF WriteSingle, FloatItem, FloatWire
  <2>2. Written(FloatItem(f), FloatWire(f, u))
    BY DEF Written
  <2> QED BY <2>1, <2>2, WriteKeeps
<1>4. ASSUME NEW f \in Doubles, NEW u \in Double!Undefined, WriteDouble(f, u) PROVE Inv'
  <2>1. Write(DoubleItem(f), DoubleWire(f, u))
    BY <1>4 DEF WriteDouble, DoubleItem, DoubleWire
  <2>2. Written(DoubleItem(f), DoubleWire(f, u))
    BY DEF Written
  <2> QED BY <2>1, <2>2, WriteKeeps
<1>5. ASSUME NEW v \in BooleanVectors, NEW packed \in BOOLEAN, WriteBooleans(v, packed) PROVE Inv'
  <2>1. Write(BooleansItem(v), BooleansWire(v, packed))
    BY <1>5 DEF WriteBooleans, BooleansItem, BooleansWire
  <2>2. Written(BooleansItem(v), BooleansWire(v, packed))
    BY DEF Written
  <2> QED BY <2>1, <2>2, WriteKeeps
<1> QED BY <1>1, <1>2, <1>3, <1>4, <1>5 DEF WriteNext

\* The guard and the effect of what the reader does.
LEMMA Received ==
  ASSUME Inv, NEW r, NEW length, Receive(r, length), item.kind # "nothing",
         r.kind \in Readable(item), length = Len(wire)
  PROVE  /\ received = Nothing /\ position = 1
         /\ item' = item /\ wire' = wire /\ received' = r
         /\ Written(item', wire') /\ Arrived(item', wire', position', received')
<1>1. received = Nothing /\ position = 1
  BY Unread DEF Receive
<1>2. Written(item, wire) /\ Len(wire) \in Nat
  BY WrittenWire DEF Inv
<1>3. item' = item /\ wire' = wire /\ received' = r /\ position' = Len(wire) + 1
  BY <1>1, <1>2 DEF Receive
<1> QED BY <1>1, <1>2, <1>3 DEF Arrived

LEMMA ReadSizeKeeps == ASSUME Inv, ReadSizeValue PROVE Inv'
<1> DEFINE r == [kind |-> "size", value |-> ReadSize(wire, position)]
<1>1. Written(item, wire) /\ item.kind = "size" /\ received = Nothing /\ position = 1
      /\ Receive(r, SizeLength(wire, position))
  BY Unread DEF Inv, ReadSizeValue, Receive
<1>2. item.value \in 0 .. (SizeModulus - 1) /\ wire = WriteSize(item.value)
  BY <1>1, WrittenWire
<1>3. wire \in Seq(Nat) /\ Len(wire) \in Nat /\ 1 \in Nat \ {0}
  BY <1>1, WrittenWire
<1>4. SizeAt(item.value, wire, 1)
  <2>1. 1 + Len(wire) - 1 <= Len(wire)
    BY <1>3
  <2>2. ASSUME NEW k \in 1 .. Len(wire) PROVE wire[1 + k - 1] = wire[k]
    <3>1. 1 + k - 1 = k
      BY <1>3
    <3> QED BY <3>1
  <2> QED BY <1>2, <1>3, <2>1, <2>2 DEF SizeAt
<1>5. ReadSize(wire, 1) = item.value /\ SizeLength(wire, 1) = Len(wire)
  BY <1>2, <1>4, SizeRead, SizeLengthRead
<1>6. /\ item' = item /\ received' = r
      /\ Written(item', wire') /\ Arrived(item', wire', position', received')
  <2>1. r.kind \in Readable(item)
    BY <1>1 DEF Readable
  <2> HIDE DEF r
  <2> QED BY <1>1, <1>5, <2>1, Received
<1>7. received'.kind = "size" /\ received'.value = item.value
  BY <1>1, <1>5, <1>6
<1>8. ValuesKept' /\ FloatsKept'
  BY <1>1, <1>6, <1>7 DEF ValuesKept, FloatsKept
<1> QED BY <1>6, <1>8 DEF Inv

LEMMA ReadIntegerKeeps ==
  ASSUME Inv, NEW type \in IntegerTypes, NEW signed \in BOOLEAN, ReadInteger(type, signed)
  PROVE  Inv'
<1> DEFINE r == [kind |-> "integer", index |-> GetHeaderIndex(wire[position]),
                 type |-> type, signed |-> signed,
                 value |-> Cast(wire[position + 1], Type, type, signed)]
<1>1. Written(item, wire) /\ item.kind = "integer" /\ received = Nothing /\ position = 1
      /\ Receive(r, 2)
  BY Unread DEF Inv, ReadInteger, Receive
<1>2. PICK j \in Numbers, index \in Indices : item = IntegerItem(j, index) /\ wire = IntegerWire(j, index)
  BY <1>1, WrittenKinds
<1>3. /\ item.index = index /\ item.type = j.type /\ item.value = j.value
      /\ item.type \in Kinds /\ item.value \in RangeOf(item.type, j.signed) /\ j.signed \in BOOLEAN
  BY <1>2, ValueAssumption DEF IntegerItem, Kinds
<1>4. /\ Type = item.type /\ GetHeaderIndex(wire[position]) = item.index
      /\ wire[position + 1] = item.value % ModulusOf(item.type) /\ Len(wire) = 2
  <2>1. position + 1 = 2
    BY <1>1
  <2> QED BY <1>1, <1>2, <1>3, <2>1, IntegerWireFacts DEF Type
<1>5. type \in Kinds
  BY ValueAssumption DEF Kinds
<1>6. (Cast(item.value % ModulusOf(item.type), item.type, type, signed) = item.value)
        <=> (item.value \in RangeOf(type, signed) /\ (item.value >= 0 \/ type <= item.type))
  BY <1>3, <1>5, CastKeeps
<1>7. /\ item' = item /\ received' = r
      /\ Written(item', wire') /\ Arrived(item', wire', position', received')
  <2>1. r.kind \in Readable(item)
    BY <1>1 DEF Readable
  <2> HIDE DEF r
  <2> QED BY <1>1, <1>4, <2>1, Received
<1>8. /\ received'.kind = "integer" /\ received'.index = item.index
      /\ received'.type = type /\ received'.signed = signed
      /\ received'.value = Cast(item.value % ModulusOf(item.type), item.type, type, signed)
  BY <1>4, <1>7
<1>9. ValuesKept' /\ FloatsKept'
  BY <1>1, <1>6, <1>7, <1>8 DEF ValuesKept, FloatsKept
<1> QED BY <1>7, <1>9 DEF Inv

\* The word of a float or a double, and what it is read as.
LEMMA FloatOnWire ==
  ASSUME Written(item, wire), item.kind \in {"float", "double"}, position = 1
  PROVE  LET word == wire[position + 1]
         IN  /\ Len(wire) = 2
             /\ Type = IF item.kind = "float" THEN UInt32 ELSE UInt64
             /\ item.kind = "float" /\ Single!Kept(item.value) =>
                  Single!FromWord(word) = Single!Shortened(item.value)
             /\ item.kind = "double" /\ Double!Kept(item.value) =>
                  Double!FromWord(word) = Double!Shortened(item.value)
<1>1. position + 1 = 2
  OBVIOUS
<1>2. CASE item.kind = "float"
  <2>1. PICK f \in Singles, u \in Single!Undefined : item = FloatItem(f) /\ wire = FloatWire(f, u)
    BY <1>2, WrittenKinds
  <2>2. item.value = f
    BY <2>1 DEF FloatItem
  <2>3. /\ Len(wire) = 2 /\ GetHeaderType(wire[1]) = UInt32
        /\ Single!Kept(f) => Single!FromWord(wire[2]) = Single!Shortened(f)
    BY <2>1, FloatWireFacts
  <2> QED BY <1>1, <1>2, <2>2, <2>3, Zenon DEF Type
<1>3. CASE item.kind = "double"
  <2>1. PICK f \in Doubles, u \in Double!Undefined : item = DoubleItem(f) /\ wire = DoubleWire(f, u)
    BY <1>3, WrittenKinds
  <2>2. item.value = f
    BY <2>1 DEF DoubleItem
  <2>3. /\ Len(wire) = 2 /\ GetHeaderType(wire[1]) = UInt64
        /\ Double!Kept(f) => Double!FromWord(wire[2]) = Double!Shortened(f)
    BY <2>1, DoubleWireFacts
  <2> QED BY <1>1, <1>3, <2>2, <2>3, Zenon DEF Type
<1> QED BY <1>2, <1>3

LEMMA ReadFloatKeeps == ASSUME Inv, ReadFloat PROVE Inv'
<1> DEFINE d == Double!FromWord(wire[position + 1])
           f == Single!FromWord(wire[position + 1])
           x == IF Type = UInt64 THEN ToSingle(d) ELSE f
           r == [kind |-> "float", value |-> x]
<1>1. Written(item, wire) /\ item.kind \in {"float", "double"} /\ received = Nothing /\ position = 1
      /\ Receive(r, 2)
  BY Unread DEF Inv, ReadFloat, Receive
<1>2. /\ Len(wire) = 2 /\ Type = IF item.kind = "float" THEN UInt32 ELSE UInt64
      /\ item.kind = "float" /\ Single!Kept(item.value) => f = Single!Shortened(item.value)
      /\ item.kind = "double" /\ Double!Kept(item.value) => d = Double!Shortened(item.value)
  BY <1>1, FloatOnWire
<1>3. /\ item' = item /\ received' = r
      /\ Written(item', wire') /\ Arrived(item', wire', position', received')
  <2>1. r.kind \in Readable(item)
    BY <1>1 DEF Readable
  <2> HIDE DEF r
  <2> QED BY <1>1, <1>2, <2>1, Received
<1>4. received'.kind = "float" /\ received'.value = x
  BY <1>3
<1>5. x = IF item.kind = "float" THEN f ELSE ToSingle(d)
  <2> HIDE DEF d, f
  <2> QED BY <1>1, <1>2, Types
<1> HIDE DEF d, f, x, r
<1>6. ValuesKept'
  BY <1>4 DEF ValuesKept
<1>7. FloatsKept'
  BY <1>1, <1>2, <1>3, <1>4, <1>5 DEF FloatsKept
<1> QED BY <1>3, <1>6, <1>7 DEF Inv

LEMMA ReadDoubleKeeps == ASSUME Inv, ReadDouble PROVE Inv'
<1> DEFINE d == Double!FromWord(wire[position + 1])
           f == Single!FromWord(wire[position + 1])
           x == IF Type = UInt32 THEN ToDouble(f) ELSE d
           r == [kind |-> "double", value |-> x]
<1>1. Written(item, wire) /\ item.kind \in {"float", "double"} /\ received = Nothing /\ position = 1
      /\ Receive(r, 2)
  BY Unread DEF Inv, ReadDouble, Receive
<1>2. /\ Len(wire) = 2 /\ Type = IF item.kind = "float" THEN UInt32 ELSE UInt64
      /\ item.kind = "float" /\ Single!Kept(item.value) => f = Single!Shortened(item.value)
      /\ item.kind = "double" /\ Double!Kept(item.value) => d = Double!Shortened(item.value)
  BY <1>1, FloatOnWire
<1>3. /\ item' = item /\ received' = r
      /\ Written(item', wire') /\ Arrived(item', wire', position', received')
  <2>1. r.kind \in Readable(item)
    BY <1>1 DEF Readable
  <2> HIDE DEF r
  <2> QED BY <1>1, <1>2, <2>1, Received
<1>4. received'.kind = "double" /\ received'.value = x
  BY <1>3
<1>5. x = IF item.kind = "double" THEN d ELSE ToDouble(f)
  <2> HIDE DEF d, f
  <2> QED BY <1>1, <1>2, Types
<1> HIDE DEF d, f, x, r
<1>6. ValuesKept'
  BY <1>4 DEF ValuesKept
<1>7. FloatsKept'
  BY <1>1, <1>2, <1>3, <1>4, <1>5 DEF FloatsKept
<1> QED BY <1>3, <1>6, <1>7 DEF Inv

\* Where the parts of an array are.
LEMMA ArrayOnWire ==
  ASSUME Written(item, wire), item.kind = "booleans", position = 1
  PROVE  /\ item.value \in Seq(BOOLEAN) /\ Type = Array /\ ArrayPacked \in BOOLEAN
         /\ ArraySize = Len(item.value) /\ ArrayBody \in Nat
         /\ BodyLength(ArraySize, ArrayPacked) \in Nat
         /\ BodyLength(ArraySize, ArrayPacked) = SkippedLength(ArraySize, ArrayPacked)
         /\ ArrayBody + BodyLength(ArraySize, ArrayPacked) - position = Len(wire)
         /\ SubSeq(wire, ArrayBody, ArrayBody + BodyLength(ArraySize, ArrayPacked) - 1)
              = WriteVectorBody(item.value, ArrayPacked)
<1>1. PICK v \in BooleanVectors, packed \in BOOLEAN :
         item = BooleansItem(v) /\ wire = BooleansWire(v, packed)
  BY WrittenKinds
<1>2. item.value = v
  BY <1>1 DEF BooleansItem
<1> DEFINE s == SizeLength(wire, 3)
           length == BodyLength(Len(v), packed)
<1>3. /\ Len(v) \in Nat /\ v \in Seq(BOOLEAN)
      /\ GetHeaderType(wire[1]) = Array
      /\ (GetHeaderIndex(wire[2]) % 2 = 1) <=> packed
      /\ ReadSize(wire, 3) = Len(v) /\ s \in Nat /\ length \in Nat
      /\ Len(wire) = 2 + s + length
      /\ SubSeq(wire, 3 + s, 3 + s + length - 1) = WriteVectorBody(v, packed)
      /\ length = SkippedLength(Len(v), packed)
  BY <1>1, BooleansWireFacts
<1>4. position + 1 = 2 /\ position + 2 = 3
  OBVIOUS
<1>5. Type = Array /\ ArraySize = Len(v) /\ ArrayBody = 3 + s
  BY <1>3, <1>4 DEF Type, ArraySize, ArrayBody
<1>6. ArrayPacked = packed
  BY <1>3, <1>4 DEF ArrayPacked
<1> HIDE DEF s, length
<1>7. 3 + s \in Nat /\ 3 + s + length - 1 = 2 + s + length
  BY <1>3
<1>8. BodyLength(ArraySize, ArrayPacked) = length
  BY <1>5, <1>6 DEF length
<1> QED BY <1>2, <1>3, <1>5, <1>6, <1>7, <1>8

LEMMA ReadBooleansKeeps == ASSUME Inv, ReadBooleans PROVE Inv'
<1> DEFINE length == BodyLength(ArraySize, ArrayPacked)
           body == SubSeq(wire, ArrayBody, ArrayBody + length - 1)
           r == [kind |-> "booleans", value |-> ReadVectorBody(body, ArraySize, ArrayPacked)]
<1>1. Written(item, wire) /\ item.kind = "booleans" /\ received = Nothing /\ position = 1
      /\ Receive(r, ArrayBody + length - position)
  BY Unread DEF Inv, ReadBooleans, Receive
<1>2. /\ item.value \in Seq(BOOLEAN) /\ ArrayPacked \in BOOLEAN /\ ArraySize = Len(item.value)
      /\ ArrayBody + length - position = Len(wire)
      /\ body = WriteVectorBody(item.value, ArrayPacked)
  BY <1>1, ArrayOnWire
<1>3. r.value = item.value /\ r.kind = "booleans"
  <2> HIDE DEF body
  <2> QED BY <1>2, BooleansRead
<1>4. /\ item' = item /\ received' = r
      /\ Written(item', wire') /\ Arrived(item', wire', position', received')
  <2>1. r.kind \in Readable(item)
    BY <1>1 DEF Readable
  <2> HIDE DEF r, length
  <2> QED BY <1>1, <1>2, <2>1, Received
<1> HIDE DEF r
<1>5. ValuesKept' /\ FloatsKept'
  BY <1>1, <1>3, <1>4 DEF ValuesKept, FloatsKept
<1> QED BY <1>4, <1>5 DEF Inv

LEMMA SkipKeeps == ASSUME Inv, SkipVariable PROVE Inv'
<1> DEFINE r == [kind |-> "skipped"]
           length == IF Type = Array
                     THEN ArrayBody + SkippedLength(ArraySize, ArrayPacked) - position
                     ELSE 2
<1>1. /\ Written(item, wire) /\ item.kind \notin {"nothing", "size"}
      /\ received = Nothing /\ position = 1 /\ Receive(r, length)
  BY Unread DEF Inv, SkipVariable, Receive
<1>2. item.kind \in {"integer", "float", "double", "booleans"}
  BY <1>1, WrittenKinds
<1>3. length = Len(wire)
  <2>1. CASE item.kind = "integer"
    <3>1. PICK j \in Numbers, index \in Indices : item = IntegerItem(j, index) /\ wire = IntegerWire(j, index)
      BY <1>1, <2>1, WrittenKinds
    <3> QED BY <1>1, <3>1, IntegerWireFacts DEF Type
  <2>2. CASE item.kind \in {"float", "double"}
    BY <1>1, <2>2, FloatOnWire, Types
  <2>3. CASE item.kind = "booleans"
    BY <1>1, <2>3, ArrayOnWire
  <2> QED BY <1>2, <2>1, <2>2, <2>3
<1>4. /\ item' = item /\ received' = r
      /\ Written(item', wire') /\ Arrived(item', wire', position', received')
  <2>1. r.kind \in Readable(item) /\ item.kind # "nothing"
    BY <1>1 DEF Readable
  <2> HIDE DEF r, length
  <2> QED BY <1>1, <1>3, <2>1, Received
<1>5. received'.kind = "skipped"
  BY <1>4
<1>6. ValuesKept' /\ FloatsKept'
  BY <1>5 DEF ValuesKept, FloatsKept
<1> QED BY <1>4, <1>6 DEF Inv

-----------------------------------------------------------------------------
\* At any time the wire holds what the writer of the item put there, and what
\* was received is what the code should make of it (binarySerMessage.h:146-175,
\* binaryDeserMessage.h:254-440).
THEOREM StreamInvariant == Spec => []Inv
<1>1. Init => Inv
  <2> SUFFICES ASSUME Init PROVE Inv
    OBVIOUS
  <2>1. Written(item, wire) /\ Arrived(item, wire, position, received)
    BY DEF Init, Written, Arrived
  <2>2. item.kind = "nothing" /\ received.kind = "nothing"
    BY DEF Init, Nothing
  <2> QED BY <2>1, <2>2 DEF Inv, ValuesKept, FloatsKept
<1>2. Inv /\ [Next]_vars => Inv'
  <2> SUFFICES ASSUME Inv, [Next]_vars PROVE Inv'
    OBVIOUS
  <2>1. CASE WriteNext
    BY <2>1, WriteNextKeeps
  <2>2. CASE ReadSizeValue
    BY <2>2, ReadSizeKeeps
  <2>3. CASE ReadFloat
    BY <2>3, ReadFloatKeeps
  <2>4. CASE ReadDouble
    BY <2>4, ReadDoubleKeeps
  <2>5. CASE ReadBooleans
    BY <2>5, ReadBooleansKeeps
  <2>6. CASE SkipVariable
    BY <2>6, SkipKeeps
  <2>7. ASSUME NEW type \in IntegerTypes, NEW signed \in BOOLEAN, ReadInteger(type, signed)
        PROVE  Inv'
    BY <2>7, ReadIntegerKeeps
  <2>8. CASE UNCHANGED vars
    BY <2>8 DEF vars, Inv, ValuesKept, FloatsKept
  <2> QED BY <2>1, <2>2, <2>3, <2>4, <2>5, <2>6, <2>7, <2>8 DEF Next, Done
<1> QED BY <1>1, <1>2, PTL DEF Spec

\* One value is written, and one of its kind received (binaryDeserMessage.h).
THEOREM StreamTyped == Spec => []TypeOK
BY StreamInvariant, InvImplies, PTL

\* The reader and the skipper end where the writer ended, whatever the value
\* (binarySerMessage.h:202, binaryDeserMessage.h:468, 671).
THEOREM StreamInStep == Spec => []WireInStep
BY StreamInvariant, InvImplies, PTL

\* Sizes, booleans, indices and integers are read as they were written, but for
\* the integers that the type of the member cannot hold and for negative ones
\* read by a wider member (exceptions.h:152, binaryDeserMessage.h:333).
THEOREM StreamKeepsValues == Spec => []ValuesKept
<1>1. Inv => ValuesKept
  BY DEF Inv
<1> QED BY <1>1, StreamInvariant, PTL

\* Floats and doubles are read as they were written but for the lowest bit of
\* the significand, the sign of a zero and the smallest denormals, and read by
\* a member of the other type as the number nearest to that (util.cpp:192-230,
\* binaryDeserMessage.h:406).
THEOREM StreamKeepsFloats == Spec => []FloatsKept
<1>1. Inv => FloatsKept
  BY DEF Inv
<1> QED BY <1>1, StreamInvariant, PTL

\* What the compiler makes of a size are the bytes of WriteSize, and the number
\* comes back from them, exactly if it has not one byte more than the first
\* part (serialisation.h:66, 83, 91-141).
THEOREM SizesCompile == Spec => []CompiledAgrees
<1>1. Inv => CompiledAgrees
  <2> SUFFICES ASSUME Inv PROVE CompiledAgrees
    OBVIOUS
  <2>1. CASE item.kind = "size" /\ received.kind = "nothing"
    <3>1. Written(item, wire)
      BY DEF Inv
    <3>2. item.value \in 0 .. (SizeModulus - 1)
      <4>1. PICK n \in Sizes : item = SizeItem(n)
        BY <2>1, <3>1, WrittenKinds
      <4>2. Sizes \subseteq 0 .. (SizeModulus - 1)
        BY ValueAssumption
      <4> QED BY <4>1, <4>2 DEF SizeItem
    <3> QED BY <3>2, CompiledSize
  <2>2. CASE ~(item.kind = "size" /\ received.kind = "nothing")
    BY <2>2, Zenon DEF CompiledAgrees
  <2> QED BY <2>1, <2>2
<1> QED BY <1>1, StreamInvariant, PTL

=============================================================================
