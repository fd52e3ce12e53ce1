----------------------- MODULE BinaryRoundTrip_proofs -----------------------
(***************************************************************************)
(* Proofs about the deserialising message at the end of any stream that    *)
(* the serialising message writes, whole or cut, for classes of any        *)
(* number, size and nesting.  The invariant IInv ties the arrays that the  *)
(* pool has lent, mVariableHistory and the closures in it to the objects   *)
(* that are being read.  Nearly all steps replace the innermost call by    *)
(* others in a way that Replaces describes; Keeps shows once that this     *)
(* preserves IInv, and there is one lemma per action that it is such a     *)
(* step.  StoreEntryPoint, LeaveObject, Enter, an exception and the        *)
(* destructor have arguments of their own.  What they all need of the      *)
(* data comes first: the frames and counts over them when the first is     *)
(* replaced, the kinds of frames, and the tokens that a step takes from    *)
(* the stream.                                                             *)
(*                                                                         *)
(* The second half starts the proof that what is read is what was written, *)
(* which BinaryFollow_proofs completes.  There is a chain of contexts, one *)
(* per call of the reader (Chain in BinaryFollow), that starts where the   *)
(* writer's history is.  FollowsOn is to that chain what Keeps is to IInv: *)
(* the calls that replace the innermost one have contexts that lead from   *)
(* its first to its last one.  Again there is one lemma per action, each   *)
(* with the name of the action and On: here those of values and objects.   *)
(***************************************************************************)
EXTENDS BinaryFollow, Integers, FiniteSets, TLAPS, FiniteSetTheorems, SequenceTheorems, FunctionTheorems

-----------------------------------------------------------------------------
(***************************************************************************)
(* Sequences of which the first element is replaced by some others.        *)
(***************************************************************************)
LEMMA ReplacedHead ==
  ASSUME NEW F, NEW a \in Seq(F), a # <<>>, NEW new \in Seq(F)
  PROVE  /\ new \o Tail(a) \in Seq(F)
         /\ Len(new) \in Nat /\ Len(a) \in Nat /\ Len(a) >= 1
         /\ Len(new \o Tail(a)) = Len(new) + Len(a) - 1
         /\ \A i \in 1 .. Len(new) : (new \o Tail(a))[i] = new[i]
         /\ \A i \in 2 .. Len(a) : (new \o Tail(a))[i + Len(new) - 1] = a[i]
         /\ Head(a) = a[1] /\ Head(a) \in F
<1>1. /\ Tail(a) \in Seq(F) /\ Len(Tail(a)) = Len(a) - 1
      /\ \A i \in 1 .. Len(Tail(a)) : Tail(a)[i] = a[i + 1]
  BY HeadTailProperties
<1>2. /\ Len(new) \in Nat /\ Len(a) \in Nat /\ Len(a) >= 1
  BY EmptySeq, LenProperties
<1>3. /\ new \o Tail(a) \in Seq(F)
      /\ Len(new \o Tail(a)) = Len(new) + Len(Tail(a))
      /\ \A i \in 1 .. Len(new) + Len(Tail(a)) :
           (new \o Tail(a))[i] = IF i <= Len(new) THEN new[i] ELSE Tail(a)[i - Len(new)]
  BY <1>1, ConcatProperties
<1>4. \A i \in 1 .. Len(new) : (new \o Tail(a))[i] = new[i]
  BY <1>1, <1>2, <1>3
<1>5. ASSUME NEW i \in 2 .. Len(a)
      PROVE  (new \o Tail(a))[i + Len(new) - 1] = a[i]
  <2>1. i - 1 \in 1 .. Len(Tail(a))
    BY <1>1, <1>2
  <2>2. (new \o Tail(a))[i + Len(new) - 1] = Tail(a)[i - 1]
    BY <1>1, <1>2, <1>3, <2>1
  <2> QED
    BY <1>1, <2>1, <2>2
<1>6. Head(a) = a[1] /\ Head(a) \in F
  BY <1>2, HeadTailProperties, ElementOfSeq
<1> QED
  BY <1>1, <1>2, <1>3, <1>4, <1>5, <1>6

\* How many of the first elements are in T.
Count(s, j, T) == Cardinality({i \in 1 .. j : s[i] \in T})

\* There is a natural number of them.
LEMMA CountType ==
  ASSUME NEW s, NEW T, NEW j \in Nat
  PROVE  /\ IsFiniteSet({i \in 1 .. j : s[i] \in T})
         /\ Count(s, j, T) \in Nat
<1>1. IsFiniteSet(1 .. j)
  BY FS_Interval
<1>2. {i \in 1 .. j : s[i] \in T} \in SUBSET (1 .. j)
  OBVIOUS
<1>3. IsFiniteSet({i \in 1 .. j : s[i] \in T})
  BY <1>1, <1>2, FS_Subset
<1> QED
  BY <1>3, FS_CardinalityType DEF Count

\* What counting sees of a replaced first element: up to a later element as many
\* as before, those among the new ones more, the old one less.
LEMMA CountReplaced ==
  ASSUME NEW F, NEW T, NEW a \in Seq(F), a # <<>>, NEW new \in Seq(F),
         NEW j \in 1 .. Len(a)
  PROVE  Count(new \o Tail(a), j + Len(new) - 1, T) =
           Count(new, Len(new), T) + Count(a, j, T) - (IF a[1] \in T THEN 1 ELSE 0)
<1> DEFINE b == new \o Tail(a)
           m == Len(new)
           N == {i \in 1 .. m : new[i] \in T}
           A == {i \in 1 .. j : a[i] \in T}
           B == {i \in 1 .. (j + m - 1) : b[i] \in T}
           R == A \ {1}
           S == {i \in (m + 1) .. (j + m - 1) : b[i] \in T}
<1>1. /\ m \in Nat /\ Len(a) \in Nat /\ j \in Nat /\ j >= 1
      /\ \A i \in 1 .. m : b[i] = new[i]
      /\ \A i \in 2 .. j : b[i + m - 1] = a[i]
  BY ReplacedHead
<1> HIDE DEF b, m
<1>2. /\ IsFiniteSet(N) /\ IsFiniteSet(A) /\ IsFiniteSet(R)
      /\ Cardinality(R) = IF 1 \in A THEN Cardinality(A) - 1 ELSE Cardinality(A)
  <2>1. IsFiniteSet(N) /\ IsFiniteSet(A)
    BY <1>1, CountType
  <2> HIDE DEF N, A
  <2> QED
    BY <2>1, FS_RemoveElement
<1>3. Cardinality(R) = Cardinality(A) - (IF a[1] \in T THEN 1 ELSE 0)
  <2>1. 1 \in A <=> a[1] \in T
    BY <1>1
  <2>2. Cardinality(A) \in Nat
    BY <1>2, FS_CardinalityType
  <2> HIDE DEF N, A, R
  <2> QED
    BY <1>2, <2>1, <2>2
<1>4. IsFiniteSet(S) /\ Cardinality(S) = Cardinality(R)
  <2> DEFINE f == [i \in R |-> i + m - 1]
  <2>1. f \in [R -> S]
    BY <1>1
  <2>2. \A x, y \in R : f[x] = f[y] => x = y
    BY <1>1
  <2>3. ASSUME NEW y \in S PROVE \E x \in R : f[x] = y
    <3>1. y - m + 1 \in R
      <4>1. y - m + 1 \in 2 .. j
        BY <1>1
      <4>2. b[(y - m + 1) + m - 1] = a[y - m + 1]
        BY <1>1, <4>1
      <4>3. (y - m + 1) + m - 1 = y
        BY <1>1
      <4> QED
        BY <4>1, <4>2, <4>3
    <3>2. f[y - m + 1] = y
      BY <1>1, <3>1
    <3> QED
      BY <3>1, <3>2
  <2>4. ExistsBijection(R, S)
    <3> HIDE DEF f
    <3>1. f \in Bijection(R, S)
      BY <2>1, <2>2, <2>3, Fun_IsBij
    <3> QED
      BY <3>1 DEF ExistsBijection
  <2> QED
    BY <1>2, <2>4, FS_Bijection
<1>5. B = N \cup S /\ N \cap S = {}
  BY <1>1
<1>6. Cardinality(B) = Cardinality(N) + Cardinality(S)
  <2>1. /\ Cardinality(N) \in Nat /\ Cardinality(S) \in Nat
        /\ Cardinality(N \cap S) = 0
    BY <1>2, <1>4, <1>5, FS_CardinalityType, FS_EmptySet
  <2> HIDE DEF N, S, B
  <2>2. Cardinality(N \cup S) = Cardinality(N) + Cardinality(S) - Cardinality(N \cap S)
    BY <1>2, <1>4, FS_Union
  <2> QED
    BY <1>5, <2>1, <2>2
<1>7. Cardinality(N) \in Nat /\ Cardinality(A) \in Nat
  BY <1>2, FS_CardinalityType
<1> QED
  BY <1>3, <1>4, <1>6, <1>7 DEF Count, b, m

\* Of some elements only the last may be in T.
LEMMA CountLast ==
  ASSUME NEW F, NEW T, NEW s \in Seq(F), \A i \in 1 .. Len(s) : s[i] \in T => i = Len(s)
  PROVE  Count(s, Len(s), T) = IF s # <<>> /\ s[Len(s)] \in T THEN 1 ELSE 0
<1> DEFINE C == {i \in 1 .. Len(s) : s[i] \in T}
<1>1. Len(s) \in Nat /\ (s # <<>> <=> Len(s) >= 1)
  BY LenProperties, EmptySeq
<1>2. C = IF s # <<>> /\ s[Len(s)] \in T THEN {Len(s)} ELSE {}
  BY <1>1
<1> QED
  BY <1>2, FS_Singleton, FS_EmptySet DEF Count

\* Where there is one in T there is a count of it.
LEMMA CountMonotonic ==
  ASSUME NEW s, NEW T, NEW j \in Nat, NEW k \in Nat, j < k, s[k] \in T
  PROVE  Count(s, j, T) + 1 <= Count(s, k, T)
<1> DEFINE J == {i \in 1 .. j : s[i] \in T}
           K == {i \in 1 .. k : s[i] \in T}
<1>1. IsFiniteSet(J) /\ IsFiniteSet(K)
  BY CountType
<1>2. Cardinality(J) \in Nat /\ Cardinality(K) \in Nat
  BY <1>1, FS_CardinalityType
<1>3. J \cup {k} \in SUBSET K /\ k \notin J
  OBVIOUS
<1>4. Cardinality(J \cup {k}) = Cardinality(J) + 1
  BY <1>1, <1>3, FS_AddElement
<1>5. Cardinality(J \cup {k}) <= Cardinality(K)
  BY <1>1, <1>3, FS_Subset
<1> QED
  BY <1>2, <1>4, <1>5 DEF Count

-----------------------------------------------------------------------------
\* TypeOK of the reader, but for what depends on the arrays being in balance:
\* lent is only known to be an integer.
ReaderTypes ==
  /\ stream \in Seq(Reader!Token)
  /\ pos \in Nat \ {0}
  /\ frames \in Seq(Reader!Frame)
  /\ mCurrentType \in Reader!HeaderTypes /\ mCurrentIndex \in 0 .. 27
  /\ mCurrentIndexPending \in BOOLEAN /\ mObjectSkipping \in BOOLEAN
  /\ mCleanExit \in BOOLEAN /\ alive \in BOOLEAN
  /\ mVariableHistory \in Seq({Null} \cup SUBSET Reader!PendingMember)
  /\ mCurrentPendingVariables \in {Null} \cup SUBSET Reader!PendingMember
  /\ lent \in Int
  /\ result \subseteq Seq(Nat) \X Seq(Nat)
  /\ entered \in Seq(Readable)
  /\ outcome \in Seq({"reading", "done", "InvalidType", "EndOfStream", "NoCleanExit"})

\* A frame is one of eight kinds, and "what" says which.
LEMMA Kinds ==
  ASSUME NEW f \in Reader!Frame
  PROVE  /\ f.what \in {"object", "skip", "read", "body", "cache", "packed", "unknown", "skipArray"}
         /\ f.what = "object" => f \in Reader!ObjectFrames
         /\ f.what = "skip" => f \in Reader!SkipFrames
         /\ f.what = "read" => f \in Reader!ReadFrames
         /\ f.what = "body" => f \in Reader!BodyFrames
         /\ f.what = "cache" => f \in Reader!CacheFrames
         /\ f.what = "packed" => f \in Reader!PackedFrames
         /\ f.what = "unknown" => f \in Reader!UnknownFrames
         /\ f.what = "skipArray" => f \in Reader!SkipArrayFrames
BY DEF Reader!Frame, Reader!ObjectFrames, Reader!SkipFrames, Reader!ReadFrames,
  Reader!BodyFrames, Reader!CacheFrames, Reader!PackedFrames, Reader!UnknownFrames,
  Reader!SkipArrayFrames

\* The innermost call is a frame.
LEMMA TopType ==
  ASSUME ReaderTypes, frames # <<>>
  PROVE  Reader!Top \in Reader!Frame /\ Reader!Top = frames[1]
BY HeadTailProperties, ElementOfSeq, EmptySeq, LenProperties DEF ReaderTypes, Reader!Top

\* A call that is replaced by others leaves a stack of frames.
LEMMA Replacing ==
  ASSUME ReaderTypes, frames # <<>>, NEW new \in Seq(Reader!Frame)
  PROVE  new \o Tail(frames) \in Seq(Reader!Frame)
BY HeadTailProperties, ConcatProperties DEF ReaderTypes

\* An object, skipped or not, that is at another place in its loop.
LEMMA Changed ==
  ASSUME NEW f \in Reader!ObjectFrames \cup Reader!SkipFrames,
         NEW at \in Reader!Locations \ {"enter"}, NEW index \in 0 .. 27, NEW type \in Reader!HeaderTypes
  PROVE  /\ [f EXCEPT !.at = at] \in Reader!Frame
         /\ [f EXCEPT !.at = at, !.index = index, !.type = type] \in Reader!Frame
BY DEF Reader!Frame, Reader!ObjectFrames, Reader!SkipFrames

\* An object of which one member has been stored.
LEMMA Stored ==
  ASSUME NEW f \in Reader!ObjectFrames, f.todo # <<>>, NEW at \in Reader!Locations
  PROVE  /\ [f EXCEPT !.todo = Tail(@)] \in Reader!Frame
         /\ [f EXCEPT !.at = at, !.todo = Tail(@)] \in Reader!Frame
<1>1. Tail(f.todo) \in Seq(Reader!Member)
  BY HeadTailProperties DEF Reader!ObjectFrames
<1> QED
  BY <1>1 DEF Reader!Frame, Reader!ObjectFrames

\* An element of a packed vector of which one member has been stored.
LEMMA StoredPacked ==
  ASSUME NEW f \in Reader!PackedFrames, f.todo # <<>>, NEW h \in Nat \ {0},
         NEW pending \in SUBSET Reader!PendingMember
  PROVE  /\ [f EXCEPT !.todo = Tail(@)] \in Reader!Frame
         /\ [f EXCEPT !.todo = Tail(@), !.h = h, !.at = "store"] \in Reader!Frame
         /\ [f EXCEPT !.todo = Tail(@), !.at = "store", !.pending = pending] \in Reader!Frame
<1>1. Tail(f.todo) \in Seq(Reader!Member)
  BY HeadTailProperties DEF Reader!PackedFrames
<1> QED
  BY <1>1 DEF Reader!Frame, Reader!PackedFrames

\* A packed vector that is at another header, element or place.
LEMMA ChangedPacked ==
  ASSUME NEW f \in Reader!PackedFrames, NEW h \in Nat \ {0}, NEW k \in Nat,
         NEW at \in {"next", "store", "drain", "returned"},
         NEW todo \in Seq(Reader!Member), NEW pending \in SUBSET Reader!PendingMember
  PROVE  /\ [f EXCEPT !.at = at] \in Reader!Frame
         /\ [f EXCEPT !.h = h] \in Reader!Frame
         /\ [f EXCEPT !.at = at, !.h = h, !.pending = pending] \in Reader!Frame
         /\ [f EXCEPT !.at = at, !.k = k, !.todo = todo, !.h = h, !.pending = pending] \in Reader!Frame
BY DEF Reader!Frame, Reader!PackedFrames

-----------------------------------------------------------------------------
\* The Store calls of a class are members as the reader knows them.
LEMMA ReaderFormat ==
  /\ Members \in [Class -> Seq(Reader!Member)]
  /\ Readable \subseteq Class
<1>1. Reader!Member = Member
  BY DEF Member, Reader!Member, PrimitiveTypes, Reader!PrimitiveTypes, IntegerTypes,
    Reader!IntegerTypes
<1> QED
  BY <1>1, FormatAssumption, RoundTripAssumption

\* A token carries what its kind says.
LEMMA TokenKinds ==
  ASSUME NEW t \in Reader!Token
  PROVE  /\ t.token = "header" => t \in Reader!HeaderToken
         /\ t.token = "size" => t.n \in Nat
         /\ t.token = "value" => t.of \in Seq(Nat)
BY DEF Reader!Token, Reader!HeaderToken

\* What a step wants of the stream are kinds of tokens.
LEMMA WantedType ==
  ASSUME ReaderTypes, frames # <<>>
  PROVE  Reader!Wanted \in Seq({"header", "size", "value"})
<1>1. \A n \in Nat : Reader!Values(n) \in Seq({"header", "size", "value"})
  BY DEF Reader!Values
<1>2. Reader!Left \in Nat
  BY LenProperties DEF ReaderTypes, Reader!Left
<1>3. \A n \in Nat : Reader!Block(n) \in Seq({"header", "size", "value"})
  BY <1>1, <1>2 DEF Reader!Block
<1>4. /\ Reader!Running("body") => Reader!Top.n \in Nat
      /\ Reader!Running("skipArray") => Reader!Top.n \in Nat
  BY TopType, Kinds DEF Reader!Running, Reader!BodyFrames, Reader!SkipArrayFrames
<1>5. /\ <<"header">> \in Seq({"header", "size", "value"})
      /\ <<"header", "size">> \in Seq({"header", "size", "value"})
      /\ <<>> \in Seq({"header", "size", "value"})
  OBVIOUS
<1> QED
  BY <1>1, <1>3, <1>4, <1>5 DEF Reader!Wanted

\* What a step gets is on the stream and of the kinds it wanted.
LEMMA Taken ==
  ASSUME ReaderTypes, frames # <<>>, Reader!Got
  PROVE  /\ pos + Len(Reader!Wanted) \in Nat \ {0}
         /\ Len(Reader!Wanted) \in Nat
         /\ \A j \in 1 .. Len(Reader!Wanted) :
              /\ stream[pos + j - 1] \in Reader!Token
              /\ stream[pos + j - 1].token = Reader!Wanted[j]
<1>1. Len(Reader!Wanted) \in Nat
  BY WantedType, LenProperties
<1>2. ASSUME NEW j \in 1 .. Len(Reader!Wanted)
      PROVE  /\ stream[pos + j - 1] \in Reader!Token
             /\ stream[pos + j - 1].token = Reader!Wanted[j]
  <2>1. /\ pos + j - 1 <= Len(stream) /\ stream[pos + j - 1].token = Reader!Wanted[j]
    BY <1>2 DEF Reader!Got, Reader!Fits
  <2>2. pos + j - 1 \in 1 .. Len(stream)
    BY <1>1, <2>1, LenProperties DEF ReaderTypes
  <2> QED
    BY <2>1, <2>2, ElementOfSeq DEF ReaderTypes
<1> QED
  BY <1>1, <1>2 DEF ReaderTypes

\* Where one header is read, and where an array header is.
LEMMA TakenHeader ==
  ASSUME ReaderTypes, frames # <<>>, Reader!Got,
         Reader!AtPoint("header") \/ Reader!Running("cache")
  PROVE  /\ stream[pos] \in Reader!HeaderToken
         /\ stream[pos].index \in 0 .. 27 /\ stream[pos].type \in Reader!HeaderTypes
<1>1. Reader!Wanted = <<"header">>
  BY DEF Reader!Wanted, Reader!AtPoint, Reader!Running
<1>2. 1 \in 1 .. Len(Reader!Wanted) /\ Reader!Wanted[1] = "header"
  BY <1>1
<1>3. pos + 1 - 1 = pos
  BY DEF ReaderTypes
<1>4. stream[pos] \in Reader!Token /\ stream[pos].token = "header"
  BY <1>2, <1>3, Taken
<1> QED
  BY <1>4, TokenKinds DEF Reader!HeaderToken

\* The header of an array, and the size behind it.
LEMMA TakenArray ==
  ASSUME ReaderTypes, frames # <<>>, Reader!Got,
         Reader!Running("read") \/ Reader!Running("unknown"), Reader!Top.type = "Array"
  PROVE  /\ stream[pos].index \in 0 .. 27 /\ stream[pos].type \in Reader!HeaderTypes
         /\ stream[pos + 1].n \in Nat
<1>1. Reader!Wanted = <<"header", "size">>
  <2>1. Reader!Running("read") => ~Reader!IsPrimitive(Reader!Top.member)
    BY DEF Reader!Got, Reader!WrongType, Reader!Accepted, Reader!IsPrimitive, Reader!Running,
      Reader!PrimitiveTypes, Reader!IntegerTypes
  <2> QED
    BY <2>1 DEF Reader!Wanted, Reader!AtPoint, Reader!Running, Reader!IntegerTypes
<1>2. /\ 1 \in 1 .. Len(Reader!Wanted) /\ Reader!Wanted[1] = "header"
      /\ 2 \in 1 .. Len(Reader!Wanted) /\ Reader!Wanted[2] = "size"
  BY <1>1
<1>3. pos + 1 - 1 = pos /\ pos + 2 - 1 = pos + 1
  BY DEF ReaderTypes
<1>4. /\ stream[pos] \in Reader!Token /\ stream[pos].token = "header"
      /\ stream[pos + 1] \in Reader!Token /\ stream[pos + 1].token = "size"
  BY <1>2, <1>3, Taken
<1> QED
  BY <1>4, TokenKinds DEF Reader!HeaderToken

\* The values of a primitive member or of a vector: no more than asked for.
LEMMA TakenValues ==
  ASSUME ReaderTypes, frames # <<>>, Reader!Got,
         \/ Reader!Running("read") /\ Reader!IsPrimitive(Reader!Top.member)
         \/ Reader!Running("body") /\ Reader!IsVector(Reader!Top.member)
  PROVE  /\ \A j \in 1 .. Len(Reader!Wanted) : stream[pos + j - 1].of \in Seq(Nat)
         /\ Len(Reader!Wanted) <= IF Reader!Running("read") THEN 1 ELSE Reader!Top.n
<1>1. Reader!Left \in Nat
  BY LenProperties DEF ReaderTypes, Reader!Left
<1>2. \A n \in Nat : /\ Reader!Values(n) \in Seq({"value"}) /\ Len(Reader!Values(n)) = n
  BY DEF Reader!Values
<1>3. \A n \in Nat : /\ Reader!Block(n) \in Seq({"value"}) /\ Len(Reader!Block(n)) <= n
  BY <1>1, <1>2 DEF Reader!Block
<1>4. /\ Reader!Wanted \in Seq({"value"})
      /\ Len(Reader!Wanted) <= IF Reader!Running("read") THEN 1 ELSE Reader!Top.n
  <2>1. CASE Reader!Running("read") /\ Reader!IsPrimitive(Reader!Top.member)
    <3>0. Reader!Top.type # "Array"
      BY <2>1 DEF Reader!Got, Reader!WrongType, Reader!Accepted, Reader!IsPrimitive,
        Reader!Running, Reader!PrimitiveTypes, Reader!IntegerTypes
    <3>1. Reader!Wanted = Reader!Values(1)
      BY <2>1, <3>0 DEF Reader!Wanted, Reader!AtPoint, Reader!Running
    <3> QED
      BY <1>2, <2>1, <3>1
  <2>2. CASE Reader!Running("body") /\ Reader!IsVector(Reader!Top.member)
    <3>1. Reader!Top.n \in Nat
      BY <2>2, TopType, Kinds DEF Reader!Running, Reader!BodyFrames
    <3>2. \/ Reader!Wanted = Reader!Values(Reader!Top.n)
          \/ Reader!Wanted = Reader!Block(Reader!Top.n)
      BY <2>2 DEF Reader!Wanted, Reader!AtPoint, Reader!Running
    <3>3. ~Reader!Running("read")
      BY <2>2 DEF Reader!Running
    <3> QED
      BY <1>2, <1>3, <3>1, <3>2, <3>3
  <2> QED
    BY <2>1, <2>2
<1>5. ASSUME NEW j \in 1 .. Len(Reader!Wanted)
      PROVE  stream[pos + j - 1].of \in Seq(Nat)
  <2>1. Reader!Wanted[j] = "value"
    BY <1>4, ElementOfSeq
  <2>2. stream[pos + j - 1] \in Reader!Token /\ stream[pos + j - 1].token = "value"
    BY <2>1, Taken
  <2> QED
    BY <2>2, TokenKinds
<1> QED
  BY <1>4, <1>5

-----------------------------------------------------------------------------
(***************************************************************************)
(* The invariant.                                                          *)
(***************************************************************************)
\* The pending members of the object being read and of those around it.
Saved == <<mCurrentPendingVariables>> \o mVariableHistory

\* All of them are there; below the outermost object is the nullptr.
SavedInv ==
  /\ \A k \in 1 .. Len(mVariableHistory) : Saved[k] \in SUBSET Reader!PendingMember
  /\ Saved[Len(mVariableHistory) + 1] = Null

\* No array is given back that has not been taken, however a message ends.
LentInv == IF alive THEN Len(mVariableHistory) <= lent ELSE 0 <= lent /\ frames = <<>>

\* Enter has called StoreEntryPoint, which has not checked mCleanExit yet.
Entering(f) == f.what = "object" /\ f.at = "enter"

\* A message that has failed gets no further than that check.
DeadInv == ~mCleanExit => frames = <<>> \/ (Len(frames) = 1 /\ Entering(frames[1]))

Clearing(f) == f.what = "skip" /\ f.clears
\* While objects are skipped there is one that ends the skipping.
SkippingInv == mObjectSkipping => \E j \in 1 .. Len(frames) : Clearing(frames[j])

Stores(f) == f.what \in {"object", "skip"} /\ f.at = "store"
\* A header is kept only between two Store calls of the innermost object.
KeptInv == mCurrentIndexPending => frames # <<>> /\ Stores(frames[1])

\* At the bottom of the stack is the object that Enter was called with.
BottomInv ==
  frames # <<>> =>
    IF mVariableHistory = <<>> THEN Len(frames) = 1 /\ Entering(frames[1])
    ELSE IsEntered(frames[Len(frames)])

\* The inductive invariant.
IInv ==
  /\ ReaderTypes /\ SavedInv /\ LentInv /\ DeadInv
  /\ mCleanExit => SkippingInv /\ KeptInv /\ BottomInv
  /\ ClosuresLive /\ CleanWhenIdle

-----------------------------------------------------------------------------
\* An index of a member is a natural number.
LEMMA MemberIndex ==
  ASSUME NEW m \in Reader!Member
  PROVE  m.index \in Nat
<1>1. m.index \in 0 .. 27
  BY DEF Reader!Member
<1> QED
  BY <1>1

\* A function on the first numbers is a sequence.
LEMMA FunctionIsSeq ==
  ASSUME NEW S, NEW n \in Nat, NEW f \in [1 .. n -> S]
  PROVE  f \in Seq(S)
BY SeqDef

\* Objects that have an array, packed vectors, and sums over both.
EnteredFrames == {f \in Reader!Frame : IsEntered(f)}
PackingFrames == {f \in Reader!Frame : IsPackedFrame(f)}
One(b) == IF b THEN 1 ELSE 0
LastIn(new, T) == new # <<>> /\ new[Len(new)] \in T

\* The closures of a packed element are of that element.
PendingFits(f) ==
  f.what = "packed" /\ f.at # "next" =>
    \A p \in f.pending : p.path = Append(Append(f.path, f.k), p.member.index)

\* The depths of ClosuresLive are such counts.
LEMMA DepthCount ==
  ASSUME ReaderTypes, NEW j \in 0 .. Len(frames)
  PROVE  /\ Depth(j) = Count(frames, j, EnteredFrames)
         /\ PackedDepth(j) = Count(frames, j, PackingFrames)
<1>1. \A i \in 1 .. j : frames[i] \in Reader!Frame
  BY ElementOfSeq, LenProperties DEF ReaderTypes
<1>2. /\ {i \in 1 .. j : IsEntered(frames[i])} = {i \in 1 .. j : frames[i] \in EnteredFrames}
      /\ {i \in 1 .. j : IsPackedFrame(frames[i])} = {i \in 1 .. j : frames[i] \in PackingFrames}
  BY <1>1 DEF EnteredFrames, PackingFrames
<1> QED
  BY <1>2 DEF Depth, PackedDepth, Count

\* A step that replaces the innermost call and leaves mVariableHistory alone: what
\* it must respect to preserve the invariant (Keeps).
Replaces(new) ==
  /\ frames # <<>> /\ new \in Seq(Reader!Frame) /\ frames' = new \o Tail(frames)
  /\ mVariableHistory' = mVariableHistory /\ mCleanExit' = mCleanExit /\ alive' = alive
  /\ ~Entering(frames[1])
  /\ \A i \in 1 .. Len(new) : i # Len(new) =>
       new[i] \notin EnteredFrames /\ new[i] \notin PackingFrames
  /\ LastIn(new, EnteredFrames) <=> frames[1] \in EnteredFrames
  /\ LastIn(new, EnteredFrames) => new[Len(new)].path = frames[1].path
  /\ lent' = lent + One(LastIn(new, PackingFrames)) - One(frames[1] \in PackingFrames)
  /\ \A i \in 1 .. Len(new) : PendingFits(new[i])
  /\ mCurrentPendingVariables \in SUBSET Reader!PendingMember =>
       mCurrentPendingVariables' \in SUBSET Reader!PendingMember
  /\ \A p \in mCurrentPendingVariables' :
       \/ p \in mCurrentPendingVariables
       \/ frames[1] \in EnteredFrames /\ p.path = Append(frames[1].path, p.member.index)
  /\ mObjectSkipping' => \/ mObjectSkipping /\ ~Clearing(frames[1])
                         \/ \E i \in 1 .. Len(new) : Clearing(new[i])
  /\ mCurrentIndexPending' => new # <<>> /\ Stores(new[1])

\* A sequence behind one element more.
LEMMA Fronted ==
  ASSUME NEW S, NEW s \in Seq(S), NEW x
  PROVE  /\ Len(s) \in Nat
         /\ Len(<<x>> \o s) = Len(s) + 1
         /\ (<<x>> \o s)[1] = x
         /\ \A k \in 2 .. Len(s) + 1 : (<<x>> \o s)[k] = s[k - 1]
<1>1. <<x>> \in Seq(S \cup {x}) /\ s \in Seq(S \cup {x})
  OBVIOUS
<1>2. Len(<<x>>) = 1 /\ <<x>>[1] = x /\ Len(s) \in Nat
  BY LenProperties
<1> QED
  BY <1>1, <1>2, ConcatProperties

\* The array of an object being read is one of those in Saved, and no two objects
\* share one.
LEMMA DepthBounds ==
  ASSUME ReaderTypes, frames # <<>>, IsEntered(frames[Len(frames)]),
         NEW j \in 1 .. Len(frames), IsEntered(frames[j])
  PROVE  /\ 1 <= Depth(j) /\ Depth(j) <= Depth(Len(frames))
         /\ IsEntered(frames[1]) /\ j > 1 => Depth(1) < Depth(j)
<1>1. Len(frames) \in Nat /\ j \in Nat
  BY LenProperties DEF ReaderTypes
<1>2. \A i \in 1 .. Len(frames) : frames[i] \in Reader!Frame
  BY <1>1, ElementOfSeq DEF ReaderTypes
<1>3. ASSUME NEW i \in 0 .. Len(frames) PROVE Depth(i) \in Nat
  <2>1. i \in Nat
    BY <1>1
  <2> QED
    BY <2>1, CountType, DepthCount
<1>4. ASSUME NEW i \in 0 .. Len(frames), NEW k \in 1 .. Len(frames), i < k, IsEntered(frames[k])
      PROVE  Depth(i) + 1 <= Depth(k)
  <2>1. frames[k] \in EnteredFrames
    BY <1>2, <1>4 DEF EnteredFrames
  <2>2. i \in Nat /\ k \in Nat /\ k \in 0 .. Len(frames)
    BY <1>1
  <2>3. Count(frames, i, EnteredFrames) + 1 <= Count(frames, k, EnteredFrames)
    BY <1>4, <2>1, <2>2, CountMonotonic
  <2> QED
    BY <2>2, <2>3, DepthCount
<1>5. 1 <= Depth(j)
  BY <1>1, <1>3, <1>4
<1>6. Depth(j) <= Depth(Len(frames))
  <2>1. CASE j = Len(frames)
    BY <1>1, <1>3, <2>1
  <2>2. CASE j < Len(frames)
    BY <1>1, <1>3, <1>4, <2>2
  <2> QED
    BY <1>1, <2>1, <2>2
<1>7. IsEntered(frames[1]) /\ j > 1 => Depth(1) < Depth(j)
  BY <1>1, <1>3, <1>4
<1> QED
  BY <1>5, <1>6, <1>7

\* ClosuresLive, while the message is usable, by its parts.
LEMMA Closures ==
  ASSUME ClosuresLive, mCleanExit
  PROVE  /\ Len(mVariableHistory) = Depth(Len(frames))
         /\ lent = Depth(Len(frames)) + PackedDepth(Len(frames))
         /\ \A j \in 1 .. Len(frames) : IsEntered(frames[j]) =>
              \A p \in Saved[Depth(j)] : p.path = Append(frames[j].path, p.member.index)
         /\ \A j \in 1 .. Len(frames) : PendingFits(frames[j])
BY DEF ClosuresLive, Saved, PendingFits

\* How a replaced call changes the depths.
LEMMA DepthReplaced ==
  ASSUME ReaderTypes, ReaderTypes', frames # <<>>, NEW new \in Seq(Reader!Frame),
         frames' = new \o Tail(frames),
         \A i \in 1 .. Len(new) : i # Len(new) =>
           new[i] \notin EnteredFrames /\ new[i] \notin PackingFrames
  PROVE  /\ Len(frames) \in Nat /\ Len(frames) >= 1 /\ Len(new) \in Nat
         /\ Len(frames') = Len(new) + Len(frames) - 1
         /\ \A i \in 1 .. Len(new) : frames'[i] = new[i]
         /\ \A i \in 2 .. Len(frames) : frames'[i + Len(new) - 1] = frames[i]
         /\ \A i \in 1 .. Len(frames) : IsEntered(frames[i]) <=> frames[i] \in EnteredFrames
         /\ \A j \in 1 .. Len(frames) :
              /\ Depth(j) \in Nat /\ PackedDepth(j) \in Nat
              /\ Depth(j + Len(new) - 1)' = Depth(j) + One(LastIn(new, EnteredFrames))
                   - One(frames[1] \in EnteredFrames)
              /\ PackedDepth(j + Len(new) - 1)' = PackedDepth(j) + One(LastIn(new, PackingFrames))
                   - One(frames[1] \in PackingFrames)
         /\ Depth(1) = One(frames[1] \in EnteredFrames)
<1> DEFINE n == Len(frames)
           m == Len(new)
<1>1. /\ n \in Nat /\ n >= 1 /\ m \in Nat
      /\ Len(frames') = m + n - 1
      /\ \A i \in 1 .. m : frames'[i] = new[i]
      /\ \A i \in 2 .. n : frames'[i + m - 1] = frames[i]
  BY ReplacedHead DEF ReaderTypes
<1>3. \A i \in 1 .. n : frames[i] \in Reader!Frame
  BY <1>1, ElementOfSeq DEF ReaderTypes
<1>5. \A i \in 1 .. n : IsEntered(frames[i]) <=> frames[i] \in EnteredFrames
  BY <1>3 DEF EnteredFrames
<1>7. /\ Count(new, m, EnteredFrames) = One(LastIn(new, EnteredFrames))
      /\ Count(new, m, PackingFrames) = One(LastIn(new, PackingFrames))
  BY CountLast DEF One, LastIn
<1>8. ASSUME NEW j \in 1 .. n
      PROVE  /\ Depth(j) \in Nat /\ PackedDepth(j) \in Nat
             /\ Depth(j + m - 1)' = Depth(j) + One(LastIn(new, EnteredFrames))
                  - One(frames[1] \in EnteredFrames)
             /\ PackedDepth(j + m - 1)' = PackedDepth(j) + One(LastIn(new, PackingFrames))
                  - One(frames[1] \in PackingFrames)
  <2>1. j \in 0 .. n /\ j + m - 1 \in 0 .. Len(frames') /\ j + m - 1 \in Nat /\ j \in Nat
    BY <1>1
  <2>2. /\ Depth(j) = Count(frames, j, EnteredFrames)
        /\ PackedDepth(j) = Count(frames, j, PackingFrames)
    BY <2>1, DepthCount
  <2>3. /\ Depth(j + m - 1)' = Count(frames', j + m - 1, EnteredFrames)
        /\ PackedDepth(j + m - 1)' = Count(frames', j + m - 1, PackingFrames)
    <3>1. ASSUME NEW i \in 1 .. j + m - 1 PROVE frames'[i] \in Reader!Frame
      <4>1. i \in 1 .. Len(frames') /\ frames' \in Seq(Reader!Frame)
        BY <1>1 DEF ReaderTypes
      <4> QED
        BY <4>1, ElementOfSeq
    <3>2. /\ {i \in 1 .. j + m - 1 : IsEntered(frames'[i])}
               = {i \in 1 .. j + m - 1 : frames'[i] \in EnteredFrames}
          /\ {i \in 1 .. j + m - 1 : IsPackedFrame(frames'[i])}
               = {i \in 1 .. j + m - 1 : frames'[i] \in PackingFrames}
      BY <3>1 DEF EnteredFrames, PackingFrames
    <3> QED
      BY <3>2 DEF Depth, PackedDepth, Count, IsEntered, IsPackedFrame
  <2>4. ASSUME NEW T
        PROVE  /\ Count(frames', j + m - 1, T) =
                    Count(new, m, T) + Count(frames, j, T) - One(frames[1] \in T)
               /\ Count(frames, j, T) \in Nat
    <3>1. /\ frames \in Seq(Reader!Frame) /\ frames # <<>> /\ new \in Seq(Reader!Frame)
          /\ frames' = new \o Tail(frames)
      BY DEF ReaderTypes
    <3>2. Count(new \o Tail(frames), j + Len(new) - 1, T) =
            Count(new, Len(new), T) + Count(frames, j, T)
              - (IF frames[1] \in T THEN 1 ELSE 0)
      BY <3>1, CountReplaced
    <3>3. Count(frames, j, T) \in Nat
      BY <2>1, CountType
    <3> QED
      BY <3>1, <3>2, <3>3 DEF One
  <2>5. /\ Depth(j + m - 1)' = One(LastIn(new, EnteredFrames))
               + Depth(j) - One(frames[1] \in EnteredFrames)
        /\ PackedDepth(j + m - 1)' = One(LastIn(new, PackingFrames))
               + PackedDepth(j) - One(frames[1] \in PackingFrames)
        /\ Depth(j) \in Nat /\ PackedDepth(j) \in Nat
    BY <1>7, <2>2, <2>3, <2>4
  <2> QED
    BY <2>5, SMTT(30) DEF One
<1>10. Depth(1) = One(frames[1] \in EnteredFrames)
  <2>1. {i \in 1 .. 1 : IsEntered(frames[i])} =
          IF frames[1] \in EnteredFrames THEN {1} ELSE {}
    BY <1>1, <1>5
  <2> QED
    BY <2>1, FS_Singleton, FS_EmptySet DEF Depth, One
<1> QED
  BY <1>1, <1>5, <1>8, <1>10

\* A usable message has lent at least the arrays of the objects it is in.
LEMMA LentHolds ==
  ASSUME ReaderTypes', ClosuresLive', mCleanExit', alive'
  PROVE  LentInv'
<1>1. Len(frames') \in Nat /\ Len(mVariableHistory') \in Nat
  BY LenProperties DEF ReaderTypes
<1> DEFINE P == {i \in 1 .. Len(frames') : IsPackedFrame(frames'[i])}
<1>2. PackedDepth(Len(frames))' = Cardinality(P)
  BY DEF PackedDepth, IsPackedFrame
<1>3. P \in SUBSET (1 .. Len(frames'))
  OBVIOUS
<1>4. IsFiniteSet(1 .. Len(frames'))
  BY <1>1, FS_Interval
<1> HIDE DEF P
<1>5. Cardinality(P) \in Nat
  BY <1>3, <1>4, FS_Subset, FS_CardinalityType
<1>6. /\ Len(mVariableHistory') = Depth(Len(frames))'
      /\ lent' = Depth(Len(frames))' + PackedDepth(Len(frames))'
  BY DEF ClosuresLive
<1> QED
  BY <1>1, <1>2, <1>5, <1>6 DEF LentInv

\* What Replaces demands is enough.
LEMMA Keeps ==
  ASSUME IInv, mCleanExit, ReaderTypes', NEW new, Replaces(new)
  PROVE  IInv'
<1> DEFINE n == Len(frames)
           m == Len(new)
           h == Len(mVariableHistory)
<1>0. /\ ReaderTypes /\ frames # <<>> /\ new \in Seq(Reader!Frame)
      /\ frames' = new \o Tail(frames)
      /\ \A i \in 1 .. Len(new) : i # Len(new) =>
           new[i] \notin EnteredFrames /\ new[i] \notin PackingFrames
  BY DEF Replaces, IInv
<1>1. /\ n \in Nat /\ n >= 1 /\ m \in Nat
      /\ Len(frames') = m + n - 1
      /\ \A i \in 1 .. m : frames'[i] = new[i]
      /\ \A i \in 2 .. n : frames'[i + m - 1] = frames[i]
  BY <1>0, DepthReplaced
<1>2. h \in Nat /\ h >= 1 /\ IsEntered(frames[n])
  BY LenProperties, EmptySeq, SMTT(30) DEF IInv, ReaderTypes, BottomInv, Replaces
<1>4. \A i \in 1 .. m : new[i] \in Reader!Frame
  BY <1>1, ElementOfSeq DEF Replaces
<1>5. \A i \in 1 .. n : IsEntered(frames[i]) <=> frames[i] \in EnteredFrames
  BY <1>0, DepthReplaced
<1>6. \A i \in 1 .. m : IsEntered(new[i]) <=> new[i] \in EnteredFrames
  BY <1>4 DEF EnteredFrames
<1>8. /\ Depth(1) = One(frames[1] \in EnteredFrames)
      /\ \A j \in 1 .. n :
           /\ Depth(j) \in Nat /\ PackedDepth(j) \in Nat
           /\ Depth(j + m - 1)' = Depth(j)
           /\ PackedDepth(j + m - 1)' = PackedDepth(j) + One(LastIn(new, PackingFrames))
                - One(frames[1] \in PackingFrames)
  <2>1. LastIn(new, EnteredFrames) <=> frames[1] \in EnteredFrames
    BY DEF Replaces
  <2>2. /\ Depth(1) = One(frames[1] \in EnteredFrames)
        /\ \A j \in 1 .. n :
             /\ Depth(j) \in Nat /\ PackedDepth(j) \in Nat
             /\ Depth(j + m - 1)' = Depth(j) + One(LastIn(new, EnteredFrames))
                  - One(frames[1] \in EnteredFrames)
             /\ PackedDepth(j + m - 1)' = PackedDepth(j) + One(LastIn(new, PackingFrames))
                  - One(frames[1] \in PackingFrames)
    BY <1>0, DepthReplaced
  <2> QED
    BY <2>1, <2>2 DEF One
<1>9. h = Depth(n) /\ lent = Depth(n) + PackedDepth(n)
  BY Closures DEF IInv
<1>11. /\ \A k \in 2 .. h + 1 : Saved'[k] = Saved[k]
       /\ Saved[1] = mCurrentPendingVariables
       /\ Saved'[1] = mCurrentPendingVariables'
  <2>1. mVariableHistory \in Seq({Null} \cup SUBSET Reader!PendingMember)
    BY DEF IInv, ReaderTypes
  <2>2. mVariableHistory' = mVariableHistory
    BY DEF Replaces
  <2> QED
    BY <2>1, <2>2, Fronted DEF Saved
<1>12. h' = h
  BY DEF Replaces
<1>13. SavedInv'
  <2>1. mCurrentPendingVariables \in SUBSET Reader!PendingMember
    BY <1>2, <1>11 DEF IInv, SavedInv
  <2>2. mCurrentPendingVariables' \in SUBSET Reader!PendingMember
    BY <2>1 DEF Replaces
  <2>3. /\ \A k \in 1 .. h : Saved'[k] \in SUBSET Reader!PendingMember
        /\ Saved'[h + 1] = Null
    BY <1>2, <1>11, <2>2 DEF IInv, SavedInv
  <2> QED
    BY <1>12, <2>3 DEF SavedInv
<1>14. ASSUME NEW i \in 1 .. Len(frames'), IsEntered(frames'[i])
       PROVE  \A p \in Saved'[Depth(i)'] :
                p.path = Append(frames'[i].path, p.member.index)
  <2>1. CASE i <= m
    <3>0. i \in 1 .. m /\ frames'[i] = new[i] /\ new[i] \in EnteredFrames
      BY <1>1, <1>6, <1>14, <2>1
    <3>1. i = m /\ new[m] \in EnteredFrames /\ frames'[i] = new[m]
      BY <3>0 DEF Replaces
    <3>2. frames[1] \in EnteredFrames /\ new[m].path = frames[1].path
      BY <1>1, <2>1, <3>1 DEF Replaces, LastIn
    <3>3. Depth(i)' = 1 /\ Depth(1) = 1
      BY <1>1, <1>8, <3>1, <3>2 DEF One
    <3>4. \A p \in Saved[1] : p.path = Append(frames[1].path, p.member.index)
      <4>1. 1 \in 1 .. n /\ IsEntered(frames[1])
        BY <1>1, <1>5, <3>2
      <4> QED
        BY <3>3, <4>1, Closures DEF IInv
    <3> QED
      BY <1>11, <3>1, <3>2, <3>3, <3>4 DEF Replaces
  <2>2. CASE i > m
    <3>1. PICK j \in 2 .. n : i = j + m - 1 /\ frames'[i] = frames[j] /\ IsEntered(frames[j])
      <4>1. i - m + 1 \in 2 .. n /\ i = (i - m + 1) + m - 1
        BY <1>1, <2>2
      <4> QED
        BY <1>1, <1>14, <4>1
    <3>2. Depth(i)' = Depth(j) /\ Depth(j) \in Nat
      BY <1>8, <1>9, <3>1
    <3>3. \A p \in Saved[Depth(j)] : p.path = Append(frames[j].path, p.member.index)
      BY <1>1, <3>1, Closures DEF IInv
    <3>4. /\ 1 <= Depth(j) /\ Depth(j) <= h
          /\ frames[1] \in EnteredFrames => Depth(1) < Depth(j)
      BY <1>1, <1>2, <1>5, <1>9, <3>1, DepthBounds DEF IInv, Replaces
    <3>5. CASE Depth(j) = 1
      <4>1. frames[1] \notin EnteredFrames
        BY <1>8, <3>4, <3>5 DEF One
      <4> QED
        BY <1>11, <3>1, <3>2, <3>3, <3>5, <4>1 DEF Replaces
    <3>6. CASE Depth(j) # 1
      BY <1>2, <1>11, <3>1, <3>2, <3>3, <3>4, <3>6, SMTT(30)
    <3> QED
      BY <3>5, <3>6
  <2> QED
    BY <1>1, <2>1, <2>2
<1>15. ASSUME NEW i \in 1 .. Len(frames') PROVE PendingFits(frames'[i])
  <2>1. CASE i <= m
    BY <1>1, <2>1 DEF Replaces
  <2>2. CASE i > m
    <3>1. i - m + 1 \in 2 .. n /\ i = (i - m + 1) + m - 1
      BY <1>1, <2>2
    <3>2. frames'[i] = frames[i - m + 1]
      BY <1>1, <3>1
    <3>3. i - m + 1 \in 1 .. n
      BY <1>1, <3>1
    <3> QED
      BY <3>2, <3>3, Closures DEF IInv
  <2> QED
    BY <1>1, <2>1, <2>2
<1>16. /\ Len(mVariableHistory') = Depth(Len(frames))'
       /\ lent' = Depth(Len(frames))' + PackedDepth(Len(frames))'
  <2>1. /\ Depth(Len(frames))' = Depth(n)
        /\ PackedDepth(Len(frames))' =
             PackedDepth(n) + One(LastIn(new, PackingFrames)) - One(frames[1] \in PackingFrames)
    <3>1. n \in 1 .. n /\ Len(frames)' = n + m - 1
      BY <1>1
    <3> QED
      BY <1>8, <3>1
  <2>2. lent' = lent + One(LastIn(new, PackingFrames)) - One(frames[1] \in PackingFrames)
    BY DEF Replaces
  <2>3. Depth(n) \in Nat /\ PackedDepth(n) \in Nat
    BY <1>1, <1>8
  <2> QED
    BY <1>9, <1>12, <2>1, <2>2, <2>3 DEF One
<1>17. ClosuresLive'
  BY <1>14, <1>15, <1>16 DEF ClosuresLive, Saved, PendingFits
<1>18. BottomInv'
  <2>1. CASE n = 1
    <3>1. LastIn(new, EnteredFrames)
      BY <1>1, <1>2, <1>5, <2>1 DEF Replaces
    <3>2. m \in 1 .. m /\ Len(frames') = m
      BY <1>1, <2>1, <3>1, EmptySeq DEF LastIn, Replaces
    <3> QED
      BY <1>1, <1>2, <1>6, <1>12, <3>1, <3>2 DEF BottomInv, LastIn, IsEntered, Replaces
  <2>2. CASE n > 1
    <3>1. n \in 2 .. n /\ frames'[Len(frames')] = frames[n]
      BY <1>1, <2>2
    <3> QED
      BY <1>2, <3>1 DEF BottomInv, IsEntered, Replaces
  <2> QED
    BY <1>1, <2>1, <2>2
<1>19. frames' # <<>> /\ Len(frames') >= 1
  <2>1. CASE n = 1
    <3>1. LastIn(new, EnteredFrames)
      BY <1>1, <1>2, <1>5, <2>1 DEF Replaces
    <3>2. m >= 1
      BY <1>1, <3>1, EmptySeq DEF LastIn, Replaces
    <3> QED
      BY <1>1, <2>1, <3>2, EmptySeq
  <2>2. CASE n > 1
    BY <1>1, <2>2, EmptySeq
  <2>3. n \in Nat /\ n >= 1
    BY <1>1
  <2>4. n = 1 \/ n > 1
    BY <2>3, SMTT(30)
  <2> QED
    BY <2>1, <2>2, <2>4
<1>20. SkippingInv'
  <2>1. SUFFICES ASSUME mObjectSkipping'
                 PROVE  \E j \in 1 .. Len(frames') : Clearing(frames'[j])
    BY DEF SkippingInv, Clearing
  <2>2. CASE mObjectSkipping /\ ~Clearing(frames[1])
    <3>1. PICK j \in 1 .. n : Clearing(frames[j])
      BY <2>2 DEF IInv, SkippingInv
    <3>2. j \in 2 .. n /\ j + m - 1 \in 1 .. Len(frames')
      BY <1>1, <2>2, <3>1
    <3> QED
      BY <1>1, <3>1, <3>2
  <2>3. CASE \E i \in 1 .. m : Clearing(new[i])
    <3>1. PICK i \in 1 .. m : Clearing(new[i])
      BY <2>3
    <3>2. i \in 1 .. Len(frames') /\ frames'[i] = new[i]
      BY <1>1, <3>1
    <3> QED
      BY <3>1, <3>2
  <2> QED
    BY <2>1, <2>2, <2>3 DEF Replaces
<1>21. KeptInv'
  <2>1. ASSUME mCurrentIndexPending' PROVE Stores(frames'[1])
    <3>1. new # <<>> /\ Stores(new[1])
      BY <2>1 DEF Replaces
    <3>2. 1 \in 1 .. m
      BY <1>1, <3>1, EmptySeq DEF Replaces
    <3> QED
      BY <1>1, <3>1, <3>2
  <2> QED
    BY <1>19, <2>1 DEF KeptInv, Stores
<1>22. LentInv'
  <2>1. alive /\ alive' /\ mCleanExit'
    BY DEF IInv, LentInv, Replaces
  <2> QED
    BY <1>17, <2>1, LentHolds
<1>23. mCleanExit'
  BY DEF Replaces
<1>24. DeadInv' /\ CleanWhenIdle'
  BY <1>19, <1>23 DEF DeadInv, CleanWhenIdle
<1> QED
  BY <1>13, <1>17, <1>18, <1>20, <1>21, <1>22, <1>24 DEF IInv

\* StoreEntryPoint takes an array of its own for the object.
LEMMA EntryPoint ==
  ASSUME IInv, Reader!StoreEntryPoint, ReaderTypes'
  PROVE  IInv'
<1> DEFINE n == Len(frames)
           h == Len(mVariableHistory)
<1>1. /\ ReaderTypes /\ frames # <<>> /\ frames[1] \in Reader!Frame
      /\ Entering(frames[1]) /\ mCleanExit /\ mCleanExit' /\ alive' = alive
      /\ frames' = <<[frames[1] EXCEPT !.at = "store"]>> \o Tail(frames)
      /\ mVariableHistory' = Saved /\ mCurrentPendingVariables' = {} /\ lent' = lent + 1
      /\ mObjectSkipping' = mObjectSkipping /\ mCurrentIndexPending' = mCurrentIndexPending
  <2>1. Reader!Top \in Reader!Frame /\ Reader!Top = frames[1] /\ frames # <<>>
    BY TopType DEF Reader!StoreEntryPoint, Reader!AtPoint, IInv
  <2>2. Reader!Top.what # "skip"
    BY <2>1, Kinds DEF Reader!StoreEntryPoint, Reader!AtPoint, Reader!SkipFrames
  <2> QED
    BY <2>1, <2>2 DEF IInv, Reader!StoreEntryPoint, Reader!AtPoint, Reader!Move, Reader!Become,
      Reader!Usable, Reader!streamFlags, Reader!history, Entering, Saved
<1>2. PICK f \in Reader!Frame :
        frames' = <<f>> \o Tail(frames) /\ f.what = "object" /\ f.at = "store"
  <2>1. frames[1] \in Reader!ObjectFrames
    BY <1>1, Kinds DEF Entering
  <2> DEFINE e == [frames[1] EXCEPT !.at = "store"]
  <2>2. e \in Reader!Frame /\ e.what = "object" /\ e.at = "store"
    BY <2>1 DEF Reader!Frame, Reader!ObjectFrames, Reader!Locations
  <2>3. frames' = <<e>> \o Tail(frames)
    BY <1>1
  <2> HIDE DEF e
  <2> QED
    BY <2>2, <2>3
<1> DEFINE new == <<f>>
<1>3. /\ new \in Seq(Reader!Frame) /\ Len(new) = 1 /\ new[1] = f
      /\ frames' = new \o Tail(frames)
  BY <1>1, <1>2
<1>4. /\ LastIn(new, EnteredFrames) /\ ~LastIn(new, PackingFrames)
      /\ frames[1] \notin EnteredFrames /\ frames[1] \notin PackingFrames
  BY <1>1, <1>2 DEF LastIn, EnteredFrames, PackingFrames, IsEntered, IsPackedFrame, Entering
<1> HIDE DEF new
<1>5. /\ n \in Nat /\ n >= 1 /\ Len(frames') = n /\ frames'[1] = f
      /\ \A i \in 2 .. n : frames'[i] = frames[i]
      /\ Depth(1) = 0
      /\ \A j \in 1 .. n : /\ Depth(j) \in Nat /\ PackedDepth(j) \in Nat
                           /\ Depth(j)' = Depth(j) + 1 /\ PackedDepth(j)' = PackedDepth(j)
  <2>1. \A i \in 1 .. Len(new) : i # Len(new) =>
          new[i] \notin EnteredFrames /\ new[i] \notin PackingFrames
    BY <1>3
  <2>2. /\ n \in Nat /\ n >= 1
        /\ Len(frames') = Len(new) + n - 1
        /\ \A k \in 1 .. Len(new) : frames'[k] = new[k]
        /\ \A k \in 2 .. n : frames'[k + Len(new) - 1] = frames[k]
        /\ \A j \in 1 .. n :
              /\ Depth(j) \in Nat /\ PackedDepth(j) \in Nat
              /\ Depth(j + Len(new) - 1)' = Depth(j) + One(LastIn(new, EnteredFrames))
                   - One(frames[1] \in EnteredFrames)
              /\ PackedDepth(j + Len(new) - 1)' = PackedDepth(j)
                   + One(LastIn(new, PackingFrames)) - One(frames[1] \in PackingFrames)
        /\ Depth(1) = One(frames[1] \in EnteredFrames)
    <3>1. /\ ReaderTypes /\ frames # <<>> /\ new \in Seq(Reader!Frame)
          /\ frames' = new \o Tail(frames)
      BY <1>1, <1>3
    <3> QED
      BY <2>1, <3>1, DepthReplaced
  <2>3. \A k \in 1 .. n : k + Len(new) - 1 = k
    BY <1>3, <2>2
  <2>4. ASSUME NEW k \in 2 .. n PROVE frames'[k] = frames[k]
    <3>1. k + Len(new) - 1 = k
      BY <2>2, <2>3
    <3>2. frames'[k + Len(new) - 1] = frames[k]
      BY <2>2
    <3> QED
      BY <3>1, <3>2
  <2>5. ASSUME NEW j \in 1 .. n
        PROVE  /\ Depth(j) \in Nat /\ PackedDepth(j) \in Nat
               /\ Depth(j)' = Depth(j) + 1 /\ PackedDepth(j)' = PackedDepth(j)
    <3>1. j + Len(new) - 1 = j
      BY <2>3
    <3>2. /\ Depth(j + Len(new) - 1)' = Depth(j) + 1 - 0
          /\ PackedDepth(j + Len(new) - 1)' = PackedDepth(j) + 0 - 0
          /\ Depth(j) \in Nat /\ PackedDepth(j) \in Nat
      BY <1>4, <2>2 DEF One
    <3> QED
      BY <3>1, <3>2
  <2> QED
    BY <1>3, <1>4, <2>2, <2>3, <2>4, <2>5, SMTT(30) DEF One
<1>6. /\ h \in Nat /\ Len(mVariableHistory') = h + 1
      /\ Saved'[1] = {}
      /\ \A k \in 2 .. h + 2 : Saved'[k] = Saved[k - 1]
  <2>1. mVariableHistory \in Seq({Null} \cup SUBSET Reader!PendingMember)
    BY DEF IInv, ReaderTypes
  <2>2. mVariableHistory' \in Seq({Null} \cup SUBSET Reader!PendingMember)
    BY DEF ReaderTypes
  <2>3. h \in Nat /\ Len(Saved) = h + 1
    BY <2>1, Fronted DEF Saved
  <2>4. Saved' = <<{}>> \o Saved /\ mVariableHistory' = Saved
    BY <1>1 DEF Saved
  <2> QED
    BY <2>2, <2>3, <2>4, Fronted
<1>7. SavedInv'
  BY <1>6 DEF IInv, SavedInv
<1>8. /\ h = Depth(n) /\ lent = Depth(n) + PackedDepth(n)
  BY <1>1, Closures DEF IInv
<1>9. ASSUME NEW i \in 1 .. n, IsEntered(frames'[i])
      PROVE  \A p \in Saved'[Depth(i)'] : p.path = Append(frames'[i].path, p.member.index)
  <2>1. CASE i = 1
    BY <1>5, <1>6, <2>1
  <2>2. CASE i # 1
    <3>1. i \in 2 .. n /\ frames'[i] = frames[i] /\ IsEntered(frames[i])
      BY <1>5, <1>9, <2>2
    <3>2. \A p \in Saved[Depth(i)] : p.path = Append(frames[i].path, p.member.index)
      BY <1>1, <1>5, <3>1, Closures DEF IInv
    <3>3. IsEntered(frames[n])
      <4>1. mVariableHistory # <<>>
        BY <1>1, <1>5, <3>1, SMTT(30) DEF IInv, BottomInv
      <4> QED
        BY <1>1, <4>1 DEF IInv, BottomInv
    <3>4. 1 <= Depth(i) /\ Depth(i) <= h
      BY <1>1, <1>8, <3>1, <3>3, DepthBounds
    <3>5. Depth(i)' = Depth(i) + 1 /\ Depth(i) \in Nat
      BY <1>5, <3>1
    <3>6. Saved'[Depth(i)'] = Saved[Depth(i)]
      BY <1>6, <3>4, <3>5
    <3> QED
      BY <3>1, <3>2, <3>6
  <2> QED
    BY <2>1, <2>2
<1>10. ASSUME NEW i \in 1 .. n PROVE PendingFits(frames'[i])
  <2>1. CASE i = 1
    BY <1>2, <1>5, <2>1 DEF PendingFits
  <2>2. CASE i # 1
    BY <1>1, <1>5, <2>2, Closures DEF IInv
  <2> QED
    BY <2>1, <2>2
<1>11. ClosuresLive'
  <2>1. /\ Len(mVariableHistory') = Depth(Len(frames))'
        /\ lent' = Depth(Len(frames))' + PackedDepth(Len(frames))'
    <3>1. n \in 1 .. n /\ Len(frames)' = n
      BY <1>5
    <3>2. Depth(n)' = Depth(n) + 1 /\ PackedDepth(n)' = PackedDepth(n)
          /\ Depth(n) \in Nat /\ PackedDepth(n) \in Nat
      BY <1>5, <3>1
    <3> QED
      BY <1>1, <1>6, <1>8, <3>1, <3>2
  <2> QED
    BY <1>5, <1>9, <1>10, <2>1 DEF ClosuresLive, Saved, PendingFits
<1>12. frames' # <<>> /\ mVariableHistory' # <<>>
  BY <1>5, <1>6, EmptySeq
<1>13. BottomInv'
  <2>1. CASE n = 1
    BY <1>2, <1>5, <1>12, <2>1 DEF BottomInv, IsEntered
  <2>2. CASE n > 1
    <3>1. mVariableHistory # <<>>
      BY <1>1, <2>2 DEF IInv, BottomInv
    <3>2. IsEntered(frames[n]) /\ n \in 2 .. n
      BY <1>1, <1>5, <2>2, <3>1 DEF IInv, BottomInv
    <3> QED
      BY <1>5, <1>12, <3>2 DEF BottomInv, IsEntered
  <2> QED
    BY <1>5, <2>1, <2>2
<1>14. SkippingInv'
  <2>1. ASSUME mObjectSkipping' PROVE \E j \in 1 .. Len(frames') : Clearing(frames'[j])
    <3>1. PICK j \in 1 .. n : Clearing(frames[j])
      BY <1>1, <2>1 DEF IInv, SkippingInv
    <3>2. j \in 2 .. n
      BY <1>1, <1>5, <3>1 DEF Clearing, Entering
    <3> QED
      BY <1>5, <3>1, <3>2
  <2> QED
    BY <2>1 DEF SkippingInv, Clearing
<1>15. KeptInv'
  BY <1>1 DEF IInv, KeptInv, Stores, Entering
<1>16. LentInv'
  BY <1>1, <1>11, LentHolds DEF IInv, LentInv
<1> QED
  BY <1>1, <1>7, <1>11, <1>12, <1>13, <1>14, <1>15, <1>16 DEF IInv, DeadInv, CleanWhenIdle

\* LeaveObject gives it back and finds those of the objects around unchanged; if
\* there are none the message is as good as new.
LEMMA Leaving ==
  ASSUME IInv, Reader!LeaveObject, ReaderTypes'
  PROVE  IInv'
<1> DEFINE n == Len(frames)
           h == Len(mVariableHistory)
<1>1. /\ ReaderTypes /\ frames # <<>> /\ frames[1] \in EnteredFrames
      /\ frames[1].what = "object" /\ frames[1].at = "found"
      /\ mCleanExit /\ mCleanExit' /\ alive' = alive
      /\ frames' = Tail(frames) /\ lent' = lent - 1
      /\ mVariableHistory' = Tail(mVariableHistory)
      /\ mCurrentPendingVariables' = Head(mVariableHistory)
      /\ mObjectSkipping' = mObjectSkipping /\ mCurrentIndexPending' = mCurrentIndexPending
  <2>1. Reader!Top \in Reader!Frame /\ Reader!Top = frames[1] /\ frames # <<>>
    BY TopType DEF Reader!LeaveObject, Reader!Running, IInv
  <2>2. frames[1].what = "object" /\ frames[1].at = "found"
    BY <2>1 DEF Reader!LeaveObject, Reader!Running, Reader!Remaining, Reader!AtPoint
  <2>3. mCleanExit
    BY <2>1, <2>2 DEF IInv, DeadInv, Entering
  <2> QED
    BY <2>1, <2>2, <2>3 DEF IInv, Reader!LeaveObject, Reader!Leave, Reader!Release,
      Reader!PopHistory, Reader!streamFlags, EnteredFrames, IsEntered
<1>2. frames[1] \notin PackingFrames
  BY <1>1 DEF PackingFrames, IsPackedFrame
<1>3. /\ n \in Nat /\ n >= 1 /\ Len(frames') = n - 1
      /\ \A i \in 2 .. n : frames'[i - 1] = frames[i]
      /\ Depth(1) = 1
      /\ \A i \in 1 .. n : IsEntered(frames[i]) <=> frames[i] \in EnteredFrames
      /\ \A j \in 1 .. n : /\ Depth(j) \in Nat /\ PackedDepth(j) \in Nat
                           /\ Depth(j - 1)' = Depth(j) - 1
                           /\ PackedDepth(j - 1)' = PackedDepth(j)
  <2>1. /\ <<>> \in Seq(Reader!Frame) /\ Len(<<>>) = 0
        /\ ~LastIn(<<>>, EnteredFrames) /\ ~LastIn(<<>>, PackingFrames)
    BY DEF LastIn
  <2>2. /\ ReaderTypes /\ frames # <<>> /\ frames' = <<>> \o Tail(frames)
    <3>1. Tail(frames) \in Seq(Reader!Frame)
      BY <1>1, HeadTailProperties DEF ReaderTypes
    <3> QED
      BY <1>1, <3>1, ConcatEmptySeq
  <2>3. \A i \in 1 .. Len(<<>>) : i # Len(<<>>) =>
          <<>>[i] \notin EnteredFrames /\ <<>>[i] \notin PackingFrames
    BY <2>1
  <2>4. /\ n \in Nat /\ n >= 1
        /\ Len(frames') = Len(<<>>) + n - 1
        /\ \A k \in 2 .. n : frames'[k + Len(<<>>) - 1] = frames[k]
        /\ \A i \in 1 .. n : IsEntered(frames[i]) <=> frames[i] \in EnteredFrames
        /\ \A j \in 1 .. n :
              /\ Depth(j) \in Nat /\ PackedDepth(j) \in Nat
              /\ Depth(j + Len(<<>>) - 1)' = Depth(j) + One(LastIn(<<>>, EnteredFrames))
                   - One(frames[1] \in EnteredFrames)
              /\ PackedDepth(j + Len(<<>>) - 1)' = PackedDepth(j)
                   + One(LastIn(<<>>, PackingFrames)) - One(frames[1] \in PackingFrames)
        /\ Depth(1) = One(frames[1] \in EnteredFrames)
    BY <2>1, <2>2, <2>3, DepthReplaced
  <2>5. \A k \in 1 .. n : k + Len(<<>>) - 1 = k - 1
    BY <2>1, <2>4
  <2>6. ASSUME NEW k \in 2 .. n PROVE frames'[k - 1] = frames[k]
    <3>1. k + Len(<<>>) - 1 = k - 1
      BY <2>4, <2>5
    <3>2. frames'[k + Len(<<>>) - 1] = frames[k]
      BY <2>4
    <3> QED
      BY <3>1, <3>2
  <2>7. ASSUME NEW j \in 1 .. n
        PROVE  /\ Depth(j - 1)' = Depth(j) - 1 /\ PackedDepth(j - 1)' = PackedDepth(j)
    <3>1. j + Len(<<>>) - 1 = j - 1
      BY <2>5
    <3>2. /\ Depth(j + Len(<<>>) - 1)' = Depth(j) + 0 - 1
          /\ PackedDepth(j + Len(<<>>) - 1)' = PackedDepth(j) + 0 - 0
          /\ Depth(j) \in Nat /\ PackedDepth(j) \in Nat
      BY <1>1, <1>2, <2>1, <2>4 DEF One
    <3> QED
      BY <3>1, <3>2
  <2> QED
    BY <1>1, <2>1, <2>4, <2>6, <2>7 DEF One
<1>4. /\ h = Depth(n) /\ lent = Depth(n) + PackedDepth(n)
  BY <1>1, Closures DEF IInv
<1>5. /\ h \in Nat /\ h >= 1 /\ IsEntered(frames[n])
  <2>1. mVariableHistory # <<>>
    BY <1>1 DEF IInv, BottomInv, Entering
  <2>2. h \in Nat /\ h >= 1
    BY <2>1, EmptySeq DEF IInv, ReaderTypes
  <2> QED
    BY <1>1, <2>1, <2>2 DEF IInv, BottomInv
<1>6. /\ Len(mVariableHistory') = h - 1
      /\ Saved' = mVariableHistory
      /\ \A k \in 1 .. h : Saved'[k] = Saved[k + 1]
  <2>1. /\ mVariableHistory \in Seq({Null} \cup SUBSET Reader!PendingMember)
        /\ mVariableHistory # <<>>
    BY <1>5, EmptySeq DEF IInv, ReaderTypes
  <2>2. /\ Tail(mVariableHistory) \in Seq({Null} \cup SUBSET Reader!PendingMember)
        /\ Len(Tail(mVariableHistory)) = h - 1
        /\ Head(mVariableHistory) = mVariableHistory[1]
        /\ \A k \in 1 .. h - 1 : Tail(mVariableHistory)[k] = mVariableHistory[k + 1]
    BY <2>1, HeadTailProperties
  <2>3. Saved' = <<Head(mVariableHistory)>> \o Tail(mVariableHistory)
    BY <1>1 DEF Saved
  <2>4. Saved' = mVariableHistory
    BY <2>1, <2>3, HeadTailProperties
  <2>5. \A k \in 2 .. h + 1 : Saved[k] = mVariableHistory[k - 1]
    BY <2>1, Fronted DEF Saved
  <2>6. ASSUME NEW k \in 1 .. h PROVE Saved[k + 1] = mVariableHistory[k]
    <3>1. k + 1 \in 2 .. h + 1 /\ (k + 1) - 1 = k
      BY <1>5
    <3> QED
      BY <2>5, <3>1
  <2> QED
    BY <1>1, <2>2, <2>4, <2>6
<1>7. SavedInv'
  BY <1>5, <1>6 DEF IInv, SavedInv
<1>8. ASSUME NEW i \in 1 .. n - 1, IsEntered(frames'[i])
      PROVE  \A p \in Saved'[Depth(i)'] : p.path = Append(frames'[i].path, p.member.index)
  <2>1. PICK j \in 2 .. n : j - 1 = i
    <3>1. i + 1 \in 2 .. n /\ (i + 1) - 1 = i
      BY <1>3
    <3> QED
      BY <3>1
  <2>2. frames'[i] = frames[j] /\ IsEntered(frames[j]) /\ j \in 1 .. n /\ j > 1
    BY <1>3, <1>8, <2>1
  <2>3. \A p \in Saved[Depth(j)] : p.path = Append(frames[j].path, p.member.index)
    BY <1>1, <2>2, Closures DEF IInv
  <2>4. 1 < Depth(j) /\ Depth(j) <= h
    <3>1. IsEntered(frames[1])
      BY <1>1, <1>3
    <3> QED
      BY <1>1, <1>3, <1>4, <1>5, <2>2, <3>1, DepthBounds
  <2>5. Depth(i)' = Depth(j) - 1 /\ Depth(j) \in Nat
    BY <1>3, <2>1, <2>2
  <2>6. Saved'[Depth(i)'] = Saved[Depth(j)]
    <3>1. Depth(j) - 1 \in 1 .. h /\ (Depth(j) - 1) + 1 = Depth(j)
      BY <1>5, <2>4, <2>5
    <3> QED
      BY <1>6, <2>5, <3>1
  <2> QED
    BY <2>2, <2>3, <2>6
<1>9. ASSUME NEW i \in 1 .. n - 1 PROVE PendingFits(frames'[i])
  <2>1. i + 1 \in 2 .. n /\ (i + 1) - 1 = i /\ i + 1 \in 1 .. n
    BY <1>3
  <2>2. frames'[i] = frames[i + 1]
    BY <1>3, <2>1
  <2> QED
    BY <1>1, <2>1, <2>2, Closures DEF IInv
<1>10. ClosuresLive'
  <2>1. /\ Len(mVariableHistory') = Depth(Len(frames))'
        /\ lent' = Depth(Len(frames))' + PackedDepth(Len(frames))'
    <3>1. PICK j \in 1 .. n : j = n /\ Len(frames)' = j - 1
      BY <1>3
    <3>2. /\ Depth(j - 1)' = Depth(j) - 1 /\ PackedDepth(j - 1)' = PackedDepth(j)
          /\ Depth(j) \in Nat /\ PackedDepth(j) \in Nat
      BY <1>3
    <3>3. /\ Depth(Len(frames))' = Depth(j) - 1
          /\ PackedDepth(Len(frames))' = PackedDepth(j)
      BY <3>1, <3>2
    <3> QED
      BY <1>1, <1>4, <1>6, <3>1, <3>2, <3>3
  <2> QED
    BY <1>3, <1>8, <1>9, <2>1 DEF ClosuresLive, Saved, PendingFits
<1>11. BottomInv'
  <2>1. ASSUME frames' # <<>> PROVE mVariableHistory' # <<>> /\ IsEntered(frames'[Len(frames')])
    <3>1. n > 1
      <4>1. n # 1
        BY <1>3, <2>1, EmptySeq DEF ReaderTypes
      <4> QED
        BY <1>3, <4>1
    <3>2. n \in 2 .. n /\ n \in 1 .. n /\ IsEntered(frames[1])
      BY <1>1, <1>3, <3>1
    <3>3. Depth(1) < Depth(n) /\ Depth(n) \in Nat
      BY <1>1, <1>3, <1>5, <3>1, <3>2, DepthBounds
    <3>4. Len(mVariableHistory') >= 1
      BY <1>3, <1>4, <1>6, <3>3
    <3>5. frames'[Len(frames')] = frames[n]
      BY <1>3, <3>2
    <3> QED
      BY <1>5, <3>4, <3>5, EmptySeq
  <2> QED
    BY <2>1 DEF BottomInv, IsEntered
<1>12. SkippingInv'
  <2>1. ASSUME mObjectSkipping' PROVE \E j \in 1 .. Len(frames') : Clearing(frames'[j])
    <3>1. PICK j \in 1 .. n : Clearing(frames[j])
      BY <1>1, <2>1 DEF IInv, SkippingInv
    <3>2. j \in 2 .. n /\ j - 1 \in 1 .. Len(frames')
      BY <1>1, <1>3, <3>1 DEF Clearing
    <3> QED
      BY <1>3, <3>1, <3>2
  <2> QED
    BY <2>1 DEF SkippingInv, Clearing
<1>13. KeptInv'
  BY <1>1 DEF IInv, KeptInv, Stores
<1>14. LentInv'
  BY <1>1, <1>10, LentHolds DEF IInv, LentInv
<1>15. CleanWhenIdle'
  <2>1. SUFFICES ASSUME frames' = <<>>
                 PROVE  /\ ~mCurrentIndexPending' /\ ~mObjectSkipping'
                        /\ mCurrentPendingVariables' = Null /\ mVariableHistory' = <<>>
    BY DEF CleanWhenIdle
  <2>2. n = 1 /\ Len(frames') = 0
    BY <1>3, <2>1
  <2>3. h = 1
    BY <1>3, <1>4, <2>2
  <2>4. mVariableHistory' = <<>>
    BY <1>6, <2>3, EmptySeq DEF ReaderTypes
  <2>5. mCurrentPendingVariables' = Null
    <3>1. mCurrentPendingVariables' = mVariableHistory[1]
      BY <1>1, <1>5, HeadTailProperties, EmptySeq DEF IInv, ReaderTypes
    <3>2. Saved'[1] = Saved[2] /\ Saved[2] = Null
      BY <1>6, <2>3 DEF IInv, SavedInv
    <3> QED
      BY <1>6, <3>1, <3>2
  <2>6. ~mObjectSkipping'
    BY <1>12, <2>2 DEF SkippingInv
  <2>7. ~mCurrentIndexPending'
    BY <1>13, <2>1 DEF KeptInv
  <2> QED
    BY <2>4, <2>5, <2>6, <2>7
<1> QED
  BY <1>1, <1>7, <1>10, <1>11, <1>12, <1>13, <1>14, <1>15 DEF IInv, DeadInv

\* What the writer does changes nothing of the reader.
LEMMA Quiet ==
  ASSUME IInv, ReaderTypes', UNCHANGED readerVars
  PROVE  IInv'
<1>1. /\ frames' = frames /\ mCurrentIndexPending' = mCurrentIndexPending
      /\ mObjectSkipping' = mObjectSkipping /\ mCleanExit' = mCleanExit
      /\ mCurrentPendingVariables' = mCurrentPendingVariables
      /\ mVariableHistory' = mVariableHistory /\ lent' = lent /\ alive' = alive
  BY DEF readerVars
<1>2. SavedInv' /\ LentInv' /\ DeadInv'
  BY <1>1 DEF IInv, SavedInv, LentInv, DeadInv, Entering, Saved
<1>3. mCleanExit' => SkippingInv' /\ KeptInv' /\ BottomInv'
  BY <1>1 DEF IInv, SkippingInv, KeptInv, BottomInv, Clearing, Stores, Entering, IsEntered
<1>4. ClosuresLive'
  BY <1>1 DEF IInv, ClosuresLive, Depth, PackedDepth, IsEntered, IsPackedFrame
<1>5. CleanWhenIdle'
  BY <1>1 DEF IInv, CleanWhenIdle
<1> QED
  BY <1>2, <1>3, <1>4, <1>5 DEF IInv

\* An exception leaves arrays behind, but no more than the message has lent.
LEMMA Throwing ==
  ASSUME IInv, ReaderTypes', frames # <<>>, NEW exception, Reader!Throw(exception)
  PROVE  IInv'
<1>1. /\ frames' = <<>> /\ mCleanExit' = FALSE /\ lent' = lent /\ alive' = alive
      /\ mCurrentPendingVariables' = mCurrentPendingVariables
      /\ mVariableHistory' = mVariableHistory
  BY DEF Reader!Throw
<1>2. SavedInv' /\ LentInv' /\ DeadInv'
  BY <1>1 DEF IInv, SavedInv, LentInv, DeadInv, Saved
<1> QED
  BY <1>1, <1>2 DEF IInv, ClosuresLive, CleanWhenIdle

\* A usable message that is entered starts with nothing pending.
LEMMA Entered ==
  ASSUME IInv, ReaderTypes', NEW c \in Readable, Reader!Enter(c)
  PROVE  IInv'
<1>1. PICK f \in Reader!Frame : frames' = <<f>> /\ Entering(f)
  <2> DEFINE e == Reader!ObjectFrame(c, <<Len(entered')>>)
  <2>1. frames' = <<e>> /\ Entering(e)
    BY DEF Reader!Enter, Reader!ObjectFrame, Entering
  <2>2. frames' \in Seq(Reader!Frame) /\ 1 \in 1 .. Len(frames') /\ frames'[1] = e
    BY <2>1 DEF ReaderTypes
  <2>3. e \in Reader!Frame
    BY <2>2, ElementOfSeq
  <2> HIDE DEF e
  <2> QED
    BY <2>1, <2>3
<1>2. /\ mCleanExit' = mCleanExit /\ lent' = lent /\ alive' = alive /\ alive /\ frames = <<>>
      /\ mCurrentPendingVariables' = mCurrentPendingVariables
      /\ mVariableHistory' = mVariableHistory /\ mObjectSkipping' = mObjectSkipping
      /\ mCurrentIndexPending' = mCurrentIndexPending
  BY DEF Reader!Enter, Reader!messageVars
<1>3. /\ frames' # <<>> /\ Len(frames') = 1 /\ frames'[1] = f
      /\ ~IsEntered(f) /\ ~IsPackedFrame(f)
  BY <1>1 DEF IsEntered, IsPackedFrame, Entering
<1>4. SavedInv' /\ LentInv' /\ DeadInv'
  BY <1>1, <1>2, <1>3 DEF IInv, SavedInv, LentInv, DeadInv, Saved, Entering
<1>5. CASE ~mCleanExit
  BY <1>2, <1>4, <1>5 DEF IInv, ClosuresLive, CleanWhenIdle
<1>6. CASE mCleanExit
  <2>1. /\ ~mCurrentIndexPending /\ ~mObjectSkipping /\ mVariableHistory = <<>>
    BY <1>2, <1>6 DEF IInv, CleanWhenIdle
  <2>2. lent = 0
    <3>1. Len(frames) = 0 /\ {i \in 1 .. 0 : IsEntered(frames[i])} = {}
          /\ {i \in 1 .. 0 : IsPackedFrame(frames[i])} = {}
      BY <1>2
    <3>2. Depth(Len(frames)) = 0 /\ PackedDepth(Len(frames)) = 0
      BY <3>1, FS_EmptySet DEF Depth, PackedDepth
    <3> QED
      BY <1>6, <3>2, Closures DEF IInv
  <2>3. Depth(Len(frames))' = 0 /\ PackedDepth(Len(frames))' = 0
    <3>1. /\ {i \in 1 .. Len(frames') : IsEntered(frames'[i])} = {}
          /\ {i \in 1 .. Len(frames') : IsPackedFrame(frames'[i])} = {}
      BY <1>3
    <3> QED
      BY <3>1, FS_EmptySet DEF Depth, PackedDepth, IsEntered, IsPackedFrame
  <2>4. ClosuresLive'
    BY <1>2, <1>3, <2>1, <2>2, <2>3 DEF ClosuresLive, IsEntered, IsPackedFrame
  <2>5. SkippingInv' /\ KeptInv' /\ BottomInv' /\ CleanWhenIdle'
    BY <1>1, <1>2, <1>3, <2>1 DEF SkippingInv, KeptInv, BottomInv, CleanWhenIdle, Entering
  <2> QED
    BY <1>4, <2>4, <2>5 DEF IInv
<1> QED
  BY <1>5, <1>6

\* The destructor does not find more arrays than there are.
LEMMA SameCardinality == \A S : Reader!Cardinality(S) = Cardinality(S)
BY DEF Reader!Cardinality, Cardinality

\* The destructor finds at most the arrays of the objects that were being read.
LEMMA HeldBound ==
  ASSUME ReaderTypes, SavedInv
  PROVE  Reader!Held \in Nat /\ Reader!Held <= Len(mVariableHistory)
<1> DEFINE h == Len(mVariableHistory)
           H == {k \in 1 .. h : \A j \in 1 .. k : mVariableHistory[j] # Null}
<1>1. h \in Nat
  BY LenProperties DEF ReaderTypes
<1>4. Reader!Held = Cardinality(H) + IF mCurrentPendingVariables = Null THEN 0 ELSE 1
  BY SameCardinality DEF Reader!Held
<1>2. CASE h = 0
  <2>1. mCurrentPendingVariables = Null /\ H = {}
    BY <1>1, <1>2, Fronted DEF ReaderTypes, SavedInv, Saved
  <2> QED
    BY <1>2, <1>4, <2>1, FS_EmptySet
<1>3. CASE h > 0
  <2>1. mVariableHistory[h] = Null
    <3>1. Saved[h + 1] = mVariableHistory[(h + 1) - 1]
      BY <1>1, <1>3, Fronted DEF ReaderTypes, Saved
    <3> QED
      BY <1>1, <3>1 DEF SavedInv
  <2>2. H \in SUBSET (1 .. (h - 1))
    BY <1>1, <2>1
  <2>3. IsFiniteSet(1 .. (h - 1)) /\ Cardinality(1 .. (h - 1)) = h - 1
    BY <1>1, <1>3, FS_Interval, SMTT(30)
  <2> HIDE DEF H
  <2>4. Cardinality(H) \in Nat /\ Cardinality(H) <= h - 1
    BY <2>2, <2>3, FS_Subset, FS_CardinalityType
  <2> QED
    BY <1>1, <1>4, <2>4 DEF H
<1> QED
  BY <1>1, <1>2, <1>3

\* The destructor gives back no more than was lent.
LEMMA Destroying ==
  ASSUME IInv, ReaderTypes', Reader!Destroy
  PROVE  IInv'
<1>1. /\ frames = <<>> /\ frames' = <<>> /\ mCleanExit' = mCleanExit /\ alive /\ alive' = FALSE
      /\ mCurrentPendingVariables' = mCurrentPendingVariables
      /\ mVariableHistory' = mVariableHistory /\ mObjectSkipping' = mObjectSkipping
      /\ mCurrentIndexPending' = mCurrentIndexPending
      /\ lent' = IF mCleanExit THEN lent ELSE lent - Reader!Held
  BY DEF Reader!Destroy, Reader!streamFlags
<1>2. SavedInv' /\ DeadInv'
  BY <1>1 DEF IInv, SavedInv, DeadInv, Saved
<1>3. LentInv'
  <2>1. Len(mVariableHistory) \in Nat /\ lent \in Int
    BY LenProperties DEF IInv, ReaderTypes
  <2>2. Reader!Held \in Nat /\ Reader!Held <= Len(mVariableHistory)
    BY HeldBound DEF IInv
  <2> QED
    BY <1>1, <2>1, <2>2 DEF IInv, LentInv
<1>4. CleanWhenIdle'
  BY <1>1 DEF IInv, CleanWhenIdle
<1>5. ASSUME mCleanExit' PROVE SkippingInv' /\ KeptInv' /\ BottomInv'
  BY <1>1, <1>5 DEF IInv, SkippingInv, KeptInv, BottomInv, CleanWhenIdle
<1>6. ClosuresLive'
  <2>1. mCleanExit' => lent' = lent
    BY <1>1
  <2> QED
    BY <1>1, <2>1 DEF IInv, ClosuresLive, Depth, PackedDepth, IsEntered, IsPackedFrame
<1> QED
  BY <1>2, <1>3, <1>4, <1>5, <1>6 DEF IInv

-----------------------------------------------------------------------------
\* f goes on where the innermost call has been.
Alike(f) ==
  /\ f \in Reader!Frame /\ PendingFits(f)
  /\ IsEntered(f) <=> IsEntered(frames[1])
  /\ IsEntered(f) => f.path = frames[1].path
  /\ IsPackedFrame(f) <=> IsPackedFrame(frames[1])
  /\ Clearing(frames[1]) => Clearing(f)

\* The innermost call is past the check of mCleanExit, and stays in its object.
Steady ==
  /\ frames # <<>> /\ ~Entering(frames[1]) /\ frames[1] \in Reader!Frame
  /\ mVariableHistory' = mVariableHistory /\ mCleanExit' = mCleanExit /\ alive' = alive

\* A member that becomes pending is one of the object being read.
PendingGrows ==
  /\ mCurrentPendingVariables \in SUBSET Reader!PendingMember =>
       mCurrentPendingVariables' \in SUBSET Reader!PendingMember
  /\ \A p \in mCurrentPendingVariables' :
       \/ p \in mCurrentPendingVariables
       \/ IsEntered(frames[1]) /\ p.path = Append(frames[1].path, p.member.index)

\* The innermost call goes on.
LEMMA GoesOn ==
  ASSUME Steady, PendingGrows, lent \in Int, lent' = lent, mObjectSkipping' = mObjectSkipping,
         NEW f, Alike(f), frames' = <<f>> \o Tail(frames), mCurrentIndexPending' => Stores(f)
  PROVE  Replaces(<<f>>)
<1>1. /\ <<f>> \in Seq(Reader!Frame) /\ Len(<<f>>) = 1 /\ <<f>>[1] = f /\ <<f>> # <<>>
  BY DEF Alike
<1>2. /\ LastIn(<<f>>, EnteredFrames) <=> IsEntered(f)
      /\ LastIn(<<f>>, PackingFrames) <=> IsPackedFrame(f)
      /\ frames[1] \in EnteredFrames <=> IsEntered(frames[1])
      /\ frames[1] \in PackingFrames <=> IsPackedFrame(frames[1])
  BY <1>1 DEF LastIn, EnteredFrames, PackingFrames, Alike, Steady
<1>3. mObjectSkipping' => \/ mObjectSkipping /\ ~Clearing(frames[1])
                          \/ \E i \in 1 .. Len(<<f>>) : Clearing(<<f>>[i])
  BY <1>1 DEF Alike
<1> QED
  BY <1>1, <1>2, <1>3 DEF Replaces, Steady, PendingGrows, Alike, One

\* It goes on and calls a Read or SkipVariable.
LEMMA Calling ==
  ASSUME Steady, mCurrentPendingVariables' = mCurrentPendingVariables, lent \in Int,
         lent' = lent, mObjectSkipping' = mObjectSkipping, ~mCurrentIndexPending',
         NEW f \in Reader!Frame, f.what \in {"read", "unknown"},
         NEW g, Alike(g), frames' = <<f, g>> \o Tail(frames)
  PROVE  Replaces(<<f, g>>)
<1> DEFINE new == <<f, g>>
<1>1. /\ new \in Seq(Reader!Frame) /\ Len(new) = 2 /\ new[1] = f /\ new[2] = g /\ new # <<>>
  BY DEF Alike
<1>2. /\ LastIn(new, EnteredFrames) <=> IsEntered(g)
      /\ LastIn(new, PackingFrames) <=> IsPackedFrame(g)
      /\ frames[1] \in EnteredFrames <=> IsEntered(frames[1])
      /\ frames[1] \in PackingFrames <=> IsPackedFrame(frames[1])
  BY <1>1 DEF LastIn, EnteredFrames, PackingFrames, Alike, Steady
<1>3. mObjectSkipping' => \/ mObjectSkipping /\ ~Clearing(frames[1])
                          \/ \E i \in 1 .. Len(new) : Clearing(new[i])
  BY <1>1 DEF Alike
<1>4. \A i \in 1 .. Len(new) : PendingFits(new[i])
  BY <1>1, SMTT(30) DEF PendingFits, Alike
<1>5. \A i \in 1 .. Len(new) : i # Len(new) =>
        new[i] \notin EnteredFrames /\ new[i] \notin PackingFrames
  BY <1>1 DEF EnteredFrames, PackingFrames, IsEntered, IsPackedFrame
<1> HIDE DEF new
<1>6. frames' = new \o Tail(frames)
  BY DEF new
<1>7. Replaces(new)
  BY <1>1, <1>2, <1>3, <1>4, <1>5, <1>6 DEF Replaces, Steady, Alike, One
<1> QED
  BY <1>7 DEF new

\* Neither an object nor a packed vector begins or ends.
Plain(f) == ~IsEntered(f) /\ ~IsPackedFrame(f)

\* It returns, or others take its place.
LEMMA Leads ==
  ASSUME Steady, mCurrentPendingVariables' = mCurrentPendingVariables, lent \in Int,
         lent' = lent - One(IsPackedFrame(frames[1])), ~IsEntered(frames[1]),
         ~mCurrentIndexPending',
         NEW new \in Seq(Reader!Frame), frames' = new \o Tail(frames),
         \A i \in 1 .. Len(new) : Plain(new[i]),
         mObjectSkipping' => \/ mObjectSkipping /\ ~Clearing(frames[1])
                             \/ \E i \in 1 .. Len(new) : Clearing(new[i])
  PROVE  Replaces(new)
<1>1. \A i \in 1 .. Len(new) : /\ new[i] \notin EnteredFrames /\ new[i] \notin PackingFrames
                               /\ PendingFits(new[i])
  BY DEF Plain, EnteredFrames, PackingFrames, PendingFits, IsPackedFrame
<1>2. /\ ~LastIn(new, EnteredFrames) /\ ~LastIn(new, PackingFrames)
      /\ frames[1] \notin EnteredFrames
      /\ frames[1] \in PackingFrames <=> IsPackedFrame(frames[1])
  BY <1>1, EmptySeq DEF LastIn, EnteredFrames, PackingFrames, Steady
<1> QED
  BY <1>1, <1>2 DEF Replaces, Steady, One

-----------------------------------------------------------------------------
\* The innermost call is the loop of an object.
LEMMA ObjectPoint ==
  ASSUME ReaderTypes, NEW loc, Reader!AtPoint(loc)
  PROVE  /\ frames # <<>> /\ Reader!Top = frames[1] /\ frames[1] \in Reader!Frame
         /\ frames[1] \in Reader!ObjectFrames \cup Reader!SkipFrames
         /\ frames[1].what \in {"object", "skip"}
         /\ frames[1].at = loc /\ frames[1].at \in Reader!Locations
         /\ frames[1].index \in 0 .. 27 /\ frames[1].type \in Reader!HeaderTypes
         /\ Reader!Top.todo # <<>> =>
              /\ frames[1] \in Reader!ObjectFrames
              /\ Reader!Now \in Reader!Member /\ Reader!Now.index \in 0 .. 27
              /\ Reader!Place(Reader!Now) \in Seq(Nat)
              /\ Reader!Place(Reader!Now) = Append(frames[1].path, Reader!Now.index)
<1>1. /\ frames # <<>> /\ Reader!Top = frames[1] /\ frames[1] \in Reader!Frame
      /\ frames[1].what \in {"object", "skip"} /\ frames[1].at = loc
  BY TopType DEF Reader!AtPoint
<1>2. frames[1] \in Reader!ObjectFrames \cup Reader!SkipFrames
  BY <1>1, Kinds
<1>3. frames[1].at \in Reader!Locations /\ frames[1].index \in 0 .. 27
      /\ frames[1].type \in Reader!HeaderTypes
  BY <1>2 DEF Reader!ObjectFrames, Reader!SkipFrames
<1>4. ASSUME Reader!Top.todo # <<>>
      PROVE  /\ frames[1] \in Reader!ObjectFrames
             /\ Reader!Now \in Reader!Member /\ Reader!Now.index \in 0 .. 27
             /\ Reader!Place(Reader!Now) \in Seq(Nat)
             /\ Reader!Place(Reader!Now) = Append(frames[1].path, Reader!Now.index)
  <2>1. frames[1] \in Reader!ObjectFrames
    BY <1>1, <1>2, <1>4 DEF Reader!SkipFrames
  <2>2. frames[1].todo \in Seq(Reader!Member) /\ frames[1].path \in Seq(Nat)
    BY <2>1 DEF Reader!ObjectFrames
  <2>3. Reader!Now \in Reader!Member
    BY <1>1, <1>4, <2>2, HeadTailProperties DEF Reader!Now
  <2>4. Reader!Now.index \in 0 .. 27
    BY <2>3 DEF Reader!Member
  <2>5. Reader!Now.index \in Nat
    BY <2>3, MemberIndex
  <2>6. /\ Reader!Place(Reader!Now) = Append(frames[1].path, Reader!Now.index)
        /\ Append(frames[1].path, Reader!Now.index) \in Seq(Nat)
    BY <1>1, <2>2, <2>5, AppendProperties DEF Reader!Place
  <2> QED
    BY <2>1, <2>3, <2>4, <2>6
<1> QED
  BY <1>1, <1>2, <1>3, <1>4

\* The frame of an object, or of a skipped one, at another point.
LEMMA AlikeChanged ==
  ASSUME frames[1] \in Reader!ObjectFrames \cup Reader!SkipFrames, ~Entering(frames[1]),
         NEW at \in Reader!Locations \ {"enter"},
         NEW index \in 0 .. 27, NEW type \in Reader!HeaderTypes
  PROVE  /\ Alike([frames[1] EXCEPT !.at = at])
         /\ Alike([frames[1] EXCEPT !.at = at, !.index = index, !.type = type])
<1>1. /\ [frames[1] EXCEPT !.at = at] \in Reader!Frame
      /\ [frames[1] EXCEPT !.at = at, !.index = index, !.type = type] \in Reader!Frame
  BY Changed, Zenon
<1> QED
  BY <1>1, Zenon DEF Alike, Reader!ObjectFrames, Reader!SkipFrames, PendingFits, IsEntered, IsPackedFrame,
    Clearing, Entering

\* The same when a member has been stored.
LEMMA AlikeStored ==
  ASSUME frames[1] \in Reader!ObjectFrames, ~Entering(frames[1]), frames[1].todo # <<>>,
         NEW at \in Reader!Locations \ {"enter"}
  PROVE  /\ Alike([frames[1] EXCEPT !.todo = Tail(@)])
         /\ Alike([frames[1] EXCEPT !.at = at, !.todo = Tail(@)])
<1>1. /\ [frames[1] EXCEPT !.todo = Tail(@)] \in Reader!Frame
      /\ [frames[1] EXCEPT !.at = at, !.todo = Tail(@)] \in Reader!Frame
  BY Stored
<1> QED
  BY <1>1 DEF Alike, Reader!ObjectFrames, PendingFits, IsEntered, IsPackedFrame, Clearing, Entering

\* The Read of a proxy is a frame.
LEMMA ReadFrameType ==
  ASSUME NEW m \in Reader!Member, NEW path \in Seq(Nat), NEW type \in Reader!HeaderTypes
  PROVE  /\ Reader!ReadFrame(m, path, type) \in Reader!Frame
         /\ Reader!ReadFrame(m, path, type).what = "read"
BY DEF Reader!ReadFrame, Reader!Frame, Reader!ReadFrames

\* Past the check of mCleanExit the message is usable, and there is an array.
LEMMA CurrentPending ==
  ASSUME IInv, frames # <<>>, ~Entering(frames[1])
  PROVE  mCleanExit /\ mCurrentPendingVariables \in SUBSET Reader!PendingMember
<1>1. mCleanExit
  BY DEF IInv, DeadInv
<1>2. mVariableHistory # <<>>
  BY <1>1 DEF IInv, BottomInv
<1>3. Len(mVariableHistory) \in Nat /\ Len(mVariableHistory) >= 1
  BY <1>2, EmptySeq DEF IInv, ReaderTypes
<1>4. Saved[1] = mCurrentPendingVariables
  BY Fronted DEF IInv, ReaderTypes, Saved
<1> QED
  BY <1>1, <1>3, <1>4 DEF IInv, SavedInv

\* Types and invariant of a step that respects Replaces.
LEMMA Follows ==
  ASSUME IInv, NEW new, Replaces(new), stream' = stream, pos' \in Nat \ {0},
         mCurrentType' \in Reader!HeaderTypes, mCurrentIndex' \in 0 .. 27,
         mCurrentIndexPending' \in BOOLEAN, mObjectSkipping' \in BOOLEAN,
         result' \subseteq Seq(Nat) \X Seq(Nat), entered' = entered, outcome' = outcome
  PROVE  IInv'
<1>1. frames # <<>> /\ ~Entering(frames[1])
  BY DEF Replaces
<1>2. mCleanExit /\ mCurrentPendingVariables \in SUBSET Reader!PendingMember
  BY <1>1, CurrentPending
<1>3. mCurrentPendingVariables' \in SUBSET Reader!PendingMember
  BY <1>2 DEF Replaces
<1>4. frames' \in Seq(Reader!Frame)
  BY Replacing DEF IInv, Replaces
<1>5. lent' \in Int
  BY DEF IInv, ReaderTypes, Replaces, One
<1>6. ReaderTypes'
  BY <1>3, <1>4, <1>5 DEF IInv, ReaderTypes, Replaces
<1> QED
  BY <1>2, <1>6, Keeps

\* StoreTemplate, with the header of this member kept.
LEMMA StoreKeptStep ==
  ASSUME IInv, Reader!StoreKept
  PROVE  IInv'
<1>1. ReaderTypes /\ Reader!AtPoint("store") /\ Reader!Top.todo # <<>>
  BY DEF IInv, Reader!StoreKept, Reader!Storing
<1>2. /\ frames # <<>> /\ Reader!Top = frames[1] /\ frames[1] \in Reader!ObjectFrames
      /\ frames[1] \in Reader!Frame /\ frames[1].at = "store" /\ frames[1].todo # <<>>
      /\ Reader!Now \in Reader!Member /\ Reader!Place(Reader!Now) \in Seq(Nat)
  BY <1>1, ObjectPoint
<1>3. ~Entering(frames[1])
  BY <1>2 DEF Entering
<1> DEFINE f == Reader!ReadFrame(Reader!Now, Reader!Place(Reader!Now), mCurrentType)
           g == [frames[1] EXCEPT !.todo = Tail(@)]
<1>4. f \in Reader!Frame /\ f.what = "read"
  BY <1>1, <1>2, ReadFrameType DEF ReaderTypes
<1>5. Alike(g)
  BY <1>2, <1>3, AlikeStored DEF Reader!Locations
<1>6. frames' = <<f, g>> \o Tail(frames)
  BY <1>2 DEF Reader!StoreKept
<1> HIDE DEF f, g
<1>7. Replaces(<<f, g>>)
  BY <1>1, <1>2, <1>3, <1>4, <1>5, <1>6, Calling DEF Steady, Reader!StoreKept, Reader!DropKept,
    Reader!streamFlags, Reader!arrays, Reader!history, ReaderTypes
<1> QED
  BY <1>7, Follows DEF IInv, ReaderTypes, Reader!StoreKept, Reader!DropKept,
    Reader!streamFlags, Reader!arrays, Reader!history

\* A header is kept only where a member is being stored.
LEMMA NoneKept ==
  ASSUME IInv, frames # <<>>, ~Entering(frames[1]), ~Stores(frames[1])
  PROVE  ~mCurrentIndexPending
BY DEF IInv, DeadInv, KeptInv

\* Steps that change no more than the calls in progress.
OnlyFrames == UNCHANGED <<stream, pos, Reader!messageVars, result, entered, outcome>>

\* The invariant after such a step.
LEMMA OnlyFramesFollow ==
  ASSUME IInv, OnlyFrames, NEW new, Replaces(new)
  PROVE  IInv'
<1>1. /\ stream' = stream /\ pos' = pos /\ mCurrentType' = mCurrentType
      /\ mCurrentIndex' = mCurrentIndex /\ mCurrentIndexPending' = mCurrentIndexPending
      /\ mObjectSkipping' = mObjectSkipping /\ result' = result
      /\ entered' = entered /\ outcome' = outcome
  BY DEF OnlyFrames, Reader!messageVars
<1>2. ReaderTypes
  BY DEF IInv
<1> QED
  BY <1>1, <1>2, Follows DEF ReaderTypes

\* The innermost call goes on, and nothing else changes.
LEMMA OnlyGoesOn ==
  ASSUME IInv, OnlyFrames, frames # <<>>, ~Entering(frames[1]),
         NEW f, Alike(f), frames' = <<f>> \o Tail(frames),
         mCurrentIndexPending /\ Stores(frames[1]) => Stores(f)
  PROVE  IInv'
<1>1. ReaderTypes /\ frames[1] \in Reader!Frame /\ lent \in Int
  BY TopType DEF IInv, ReaderTypes
<1>2. Steady /\ PendingGrows /\ lent' = lent /\ mObjectSkipping' = mObjectSkipping
      /\ mCurrentIndexPending' = mCurrentIndexPending
  BY <1>1 DEF Steady, PendingGrows, OnlyFrames, Reader!messageVars
<1>3. mCurrentIndexPending' => Stores(f)
  BY <1>2, NoneKept
<1>4. Replaces(<<f>>)
  BY <1>1, <1>2, <1>3, GoesOn
<1> QED
  BY <1>4, OnlyFramesFollow

\* It calls, and nothing else changes.
LEMMA OnlyCalls ==
  ASSUME IInv, OnlyFrames, frames # <<>>, ~Entering(frames[1]), ~Stores(frames[1]),
         NEW f \in Reader!Frame, f.what \in {"read", "unknown"},
         NEW g, Alike(g), frames' = <<f, g>> \o Tail(frames)
  PROVE  IInv'
<1>1. ReaderTypes /\ frames[1] \in Reader!Frame /\ lent \in Int
  BY TopType DEF IInv, ReaderTypes
<1>2. Steady /\ lent' = lent /\ mObjectSkipping' = mObjectSkipping
      /\ mCurrentIndexPending' = mCurrentIndexPending
      /\ mCurrentPendingVariables' = mCurrentPendingVariables
  BY <1>1 DEF Steady, OnlyFrames, Reader!messageVars
<1>3. ~mCurrentIndexPending'
  BY <1>2, NoneKept
<1>4. Replaces(<<f, g>>)
  BY <1>1, <1>2, <1>3, Calling
<1> QED
  BY <1>4, OnlyFramesFollow

\* Everywhere but in an object or a packed vector.
LEMMA LeadsOn ==
  ASSUME IInv, frames # <<>>, Plain(frames[1]), ~Entering(frames[1]), ~Stores(frames[1]),
         NEW new \in Seq(Reader!Frame), frames' = new \o Tail(frames),
         \A i \in 1 .. Len(new) : Plain(new[i]),
         stream' = stream, pos' \in Nat \ {0}, UNCHANGED Reader!messageVars,
         mObjectSkipping => ~Clearing(frames[1]),
         result' \subseteq Seq(Nat) \X Seq(Nat), entered' = entered, outcome' = outcome
  PROVE  IInv'
<1>1. ReaderTypes /\ frames[1] \in Reader!Frame /\ lent \in Int
  BY TopType DEF IInv, ReaderTypes
<1>2. /\ Steady /\ lent' = lent - One(IsPackedFrame(frames[1]))
      /\ mObjectSkipping' = mObjectSkipping /\ mCurrentIndexPending' = mCurrentIndexPending
      /\ mCurrentType' = mCurrentType /\ mCurrentIndex' = mCurrentIndex
      /\ mCurrentPendingVariables' = mCurrentPendingVariables
  BY <1>1 DEF Steady, Reader!messageVars, Plain, One
<1>3. ~mCurrentIndexPending'
  BY <1>2, NoneKept
<1>4. ~IsEntered(frames[1])
  BY DEF Plain
<1>5. Replaces(new)
  BY <1>1, <1>2, <1>3, <1>4, Leads
<1> QED
  BY <1>1, <1>2, <1>5, Follows DEF ReaderTypes

-----------------------------------------------------------------------------
\* StoreTemplate, with the header of another member kept.
LEMMA StoreLaterStep ==
  ASSUME IInv, Reader!StoreLater
  PROVE  IInv'
<1>1. ReaderTypes /\ Reader!AtPoint("store") /\ Reader!Top.todo # <<>>
  BY DEF IInv, Reader!StoreLater, Reader!Storing
<1>2. /\ frames # <<>> /\ Reader!Top = frames[1] /\ frames[1] \in Reader!ObjectFrames
      /\ frames[1] \in Reader!Frame /\ frames[1].at = "store" /\ frames[1].todo # <<>>
      /\ Reader!Now \in Reader!Member /\ Reader!Place(Reader!Now) \in Seq(Nat)
      /\ Reader!Place(Reader!Now) = Append(frames[1].path, Reader!Now.index)
  BY <1>1, ObjectPoint
<1>3. ~Entering(frames[1]) /\ IsEntered(frames[1])
  BY <1>2 DEF Entering, IsEntered, Reader!ObjectFrames
<1> DEFINE f == [frames[1] EXCEPT !.todo = Tail(@)]
           p == Reader!Pending(Reader!Now, Reader!Place(Reader!Now))
<1>4. Alike(f) /\ Stores(f)
  BY <1>2, <1>3, AlikeStored DEF Reader!Locations, Stores, Reader!ObjectFrames
<1>5. /\ frames' = <<f>> \o Tail(frames)
      /\ mCurrentPendingVariables' = mCurrentPendingVariables \cup {p}
  BY <1>2 DEF Reader!StoreLater, Reader!Become, Reader!AddPending
<1>6. p \in Reader!PendingMember /\ p.path = Append(frames[1].path, p.member.index)
  BY <1>2 DEF Reader!Pending, Reader!PendingMember
<1> HIDE DEF f, p
<1>7. PendingGrows
  BY <1>3, <1>5, <1>6 DEF PendingGrows
<1>8. Replaces(<<f>>)
  BY <1>1, <1>2, <1>3, <1>4, <1>5, <1>7, GoesOn DEF Steady, Reader!StoreLater,
    Reader!streamFlags, Reader!history, ReaderTypes
<1> QED
  BY <1>8, Follows DEF IInv, ReaderTypes, Reader!StoreLater, Reader!streamFlags, Reader!history

\* The loops of StoreTemplate and ReadRemaining begin.
LEMMA NoHeaderKeptStep ==
  ASSUME IInv, Reader!NoHeaderKept
  PROVE  IInv'
<1>1. ReaderTypes /\ Reader!AtPoint("store") /\ ~mCurrentIndexPending /\ OnlyFrames
  BY DEF IInv, Reader!NoHeaderKept, OnlyFrames
<1>2. /\ frames # <<>> /\ Reader!Top = frames[1]
      /\ frames[1] \in Reader!ObjectFrames \cup Reader!SkipFrames /\ frames[1].at = "store"
      /\ frames[1].index \in 0 .. 27 /\ frames[1].type \in Reader!HeaderTypes
  BY <1>1, ObjectPoint
<1>3. ~Entering(frames[1])
  BY <1>2, Zenon DEF Entering
<1> DEFINE f == [frames[1] EXCEPT !.at = "header"]
<1>4. Alike(f)
  BY <1>2, <1>3, AlikeChanged, Zenon DEF Reader!Locations
<1>5. frames' = <<f>> \o Tail(frames)
  BY <1>2 DEF Reader!NoHeaderKept, Reader!Move, Reader!Become
<1> HIDE DEF f
<1> QED
  BY <1>1, <1>2, <1>3, <1>4, <1>5, OnlyGoesOn

\* ReadHeader in these loops.
LEMMA ReadHeaderStep ==
  ASSUME IInv, Reader!ReadHeader
  PROVE  IInv'
<1>1. ReaderTypes /\ Reader!AtPoint("header") /\ Reader!Got
  BY DEF IInv, Reader!ReadHeader
<1>2. /\ frames # <<>> /\ Reader!Top = frames[1] /\ frames[1] \in Reader!Frame
      /\ frames[1] \in Reader!ObjectFrames \cup Reader!SkipFrames /\ frames[1].at = "header"
  BY <1>1, ObjectPoint
<1>3. ~Entering(frames[1]) /\ ~Stores(frames[1])
  BY <1>2 DEF Entering, Stores
<1>4. stream[pos].index \in 0 .. 27 /\ stream[pos].type \in Reader!HeaderTypes
  BY <1>1, <1>2, TakenHeader
<1> DEFINE f == [frames[1] EXCEPT !.at = "found", !.index = stream[pos].index,
                                  !.type = stream[pos].type]
<1>5. Alike(f)
  BY <1>2, <1>3, <1>4, AlikeChanged, Zenon DEF Reader!Locations
<1>6. frames' = <<f>> \o Tail(frames)
  BY <1>2 DEF Reader!ReadHeader, Reader!Become
<1> HIDE DEF f
<1>7. ~mCurrentIndexPending
  BY <1>2, <1>3, NoneKept
<1>8. Steady /\ PendingGrows
  BY <1>2, <1>3 DEF Steady, PendingGrows, Reader!ReadHeader, Reader!messageVars
<1>9. Replaces(<<f>>)
  BY <1>1, <1>5, <1>6, <1>7, <1>8, GoesOn DEF Reader!ReadHeader, Reader!messageVars, ReaderTypes
<1>10. pos' \in Nat \ {0}
  BY <1>1, <1>2, Taken DEF Reader!ReadHeader, Reader!Take
<1> QED
  BY <1>9, <1>10, Follows DEF IInv, ReaderTypes, Reader!ReadHeader, Reader!messageVars

\* A pending member is read.
LEMMA ReadNowStep ==
  ASSUME IInv, Reader!ReadNow
  PROVE  IInv'
<1>1. ReaderTypes /\ Reader!AtPoint("found") /\ OnlyFrames
  BY DEF IInv, Reader!ReadNow, OnlyFrames
<1>2. /\ frames # <<>> /\ Reader!Top = frames[1]
      /\ frames[1] \in Reader!ObjectFrames \cup Reader!SkipFrames /\ frames[1].at = "found"
      /\ frames[1].index \in 0 .. 27 /\ frames[1].type \in Reader!HeaderTypes
  BY <1>1, ObjectPoint
<1>3. ~Entering(frames[1]) /\ ~Stores(frames[1])
  BY <1>2 DEF Entering, Stores
<1>4. PICK p \in mCurrentPendingVariables :
        frames' = <<Reader!ReadFrame(p.member, p.path, frames[1].type),
                    [frames[1] EXCEPT !.at = "returned"]>> \o Tail(frames)
  BY <1>2, Zenon DEF Reader!ReadNow
<1>5. p.member \in Reader!Member /\ p.path \in Seq(Nat)
  BY <1>2, <1>3, CurrentPending DEF Reader!PendingMember
<1> DEFINE f == Reader!ReadFrame(p.member, p.path, frames[1].type)
           g == [frames[1] EXCEPT !.at = "returned"]
<1>6. f \in Reader!Frame /\ f.what = "read"
  BY <1>2, <1>5, ReadFrameType
<1>7. Alike(g)
  BY <1>2, <1>3, AlikeChanged, Zenon DEF Reader!Locations
<1>8. frames' = <<f, g>> \o Tail(frames)
  BY <1>4
<1> HIDE DEF f, g
<1> QED
  BY <1>1, <1>2, <1>3, <1>6, <1>7, <1>8, OnlyCalls

\* Its closure has returned and is cleared.
LEMMA ReadNowReturnsStep ==
  ASSUME IInv, Reader!ReadNowReturns
  PROVE  IInv'
<1>1. ReaderTypes /\ Reader!AtPoint("returned")
  BY DEF IInv, Reader!ReadNowReturns
<1>2. /\ frames # <<>> /\ Reader!Top = frames[1] /\ frames[1] \in Reader!Frame
      /\ frames[1] \in Reader!ObjectFrames \cup Reader!SkipFrames /\ frames[1].at = "returned"
      /\ frames[1].index \in 0 .. 27 /\ frames[1].type \in Reader!HeaderTypes
  BY <1>1, ObjectPoint
<1>3. ~Entering(frames[1]) /\ ~Stores(frames[1])
  BY <1>2, Zenon DEF Entering, Stores
<1> DEFINE f == [frames[1] EXCEPT !.at = "header"]
<1>4. Alike(f)
  BY <1>2, <1>3, AlikeChanged, Zenon DEF Reader!Locations
<1>5. frames' = <<f>> \o Tail(frames)
  BY <1>2 DEF Reader!ReadNowReturns, Reader!Move, Reader!Become
<1> HIDE DEF f
<1>6. ~mCurrentIndexPending
  BY <1>2, <1>3, NoneKept
<1>7. Steady /\ PendingGrows
  BY <1>2, <1>3 DEF Steady, PendingGrows, Reader!ReadNowReturns, Reader!ClearPending,
    Reader!streamFlags, Reader!history
<1>8. Replaces(<<f>>)
  BY <1>1, <1>4, <1>5, <1>6, <1>7, GoesOn DEF Reader!ReadNowReturns, Reader!streamFlags,
    ReaderTypes
<1> QED
  BY <1>8, Follows DEF IInv, ReaderTypes, Reader!ReadNowReturns, Reader!streamFlags,
    Reader!history

\* StoreTemplate has found its member.
LEMMA StoreFoundStep ==
  ASSUME IInv, Reader!StoreFound
  PROVE  IInv'
<1>1. ReaderTypes /\ Reader!AtPoint("found") /\ Reader!Top.todo # <<>> /\ OnlyFrames
  BY DEF IInv, Reader!StoreFound, Reader!Storing, OnlyFrames
<1>2. /\ frames # <<>> /\ Reader!Top = frames[1] /\ frames[1] \in Reader!ObjectFrames
      /\ frames[1].at = "found" /\ frames[1].todo # <<>>
      /\ frames[1].type \in Reader!HeaderTypes
      /\ Reader!Now \in Reader!Member /\ Reader!Place(Reader!Now) \in Seq(Nat)
  BY <1>1, ObjectPoint
<1>3. ~Entering(frames[1]) /\ ~Stores(frames[1])
  BY <1>2 DEF Entering, Stores
<1> DEFINE f == Reader!ReadFrame(Reader!Now, Reader!Place(Reader!Now), frames[1].type)
           g == [frames[1] EXCEPT !.at = "store", !.todo = Tail(@)]
<1>4. f \in Reader!Frame /\ f.what = "read"
  BY <1>2, ReadFrameType
<1>5. Alike(g)
  BY <1>2, <1>3, AlikeStored DEF Reader!Locations
<1>6. frames' = <<f, g>> \o Tail(frames)
  BY <1>2 DEF Reader!StoreFound
<1> HIDE DEF f, g
<1> QED
  BY <1>1, <1>2, <1>3, <1>4, <1>5, <1>6, OnlyCalls

\* StoreTemplate has found another member: this one stays pending.
LEMMA StoreOtherStep ==
  ASSUME IInv, Reader!StoreOther
  PROVE  IInv'
<1>1. ReaderTypes /\ Reader!AtPoint("found") /\ Reader!Top.todo # <<>>
  BY DEF IInv, Reader!StoreOther, Reader!Storing
<1>2. /\ frames # <<>> /\ Reader!Top = frames[1] /\ frames[1] \in Reader!ObjectFrames
      /\ frames[1] \in Reader!Frame /\ frames[1].at = "found" /\ frames[1].todo # <<>>
      /\ frames[1].index \in 0 .. 27 /\ frames[1].type \in Reader!HeaderTypes
      /\ Reader!Now \in Reader!Member /\ Reader!Place(Reader!Now) \in Seq(Nat)
      /\ Reader!Place(Reader!Now) = Append(frames[1].path, Reader!Now.index)
  BY <1>1, ObjectPoint
<1>3. ~Entering(frames[1]) /\ IsEntered(frames[1])
  BY <1>2 DEF Entering, IsEntered, Reader!ObjectFrames
<1> DEFINE f == [frames[1] EXCEPT !.at = "store", !.todo = Tail(@)]
           p == Reader!Pending(Reader!Now, Reader!Place(Reader!Now))
<1>4. Alike(f) /\ Stores(f)
  BY <1>2, <1>3, AlikeStored DEF Reader!Locations, Stores, Reader!ObjectFrames
<1>5. /\ frames' = <<f>> \o Tail(frames)
      /\ mCurrentPendingVariables' = mCurrentPendingVariables \cup {p}
      /\ mCurrentIndex' = frames[1].index /\ mCurrentType' = frames[1].type
      /\ mCurrentIndexPending' = TRUE
  BY <1>2 DEF Reader!StoreOther, Reader!Become, Reader!AddPending, Reader!KeepHeader
<1>6. p \in Reader!PendingMember /\ p.path = Append(frames[1].path, p.member.index)
  BY <1>2 DEF Reader!Pending, Reader!PendingMember
<1> HIDE DEF f, p
<1>7. PendingGrows
  BY <1>3, <1>5, <1>6 DEF PendingGrows
<1>8. Replaces(<<f>>)
  BY <1>1, <1>2, <1>3, <1>4, <1>5, <1>7, GoesOn DEF Steady, Reader!StoreOther,
    Reader!history, ReaderTypes
<1> QED
  BY <1>2, <1>5, <1>8, Follows DEF IInv, ReaderTypes, Reader!StoreOther, Reader!history

\* ReadRemaining takes the kept header.
LEMMA RemainingKeptStep ==
  ASSUME IInv, Reader!RemainingKept
  PROVE  IInv'
<1>1. ReaderTypes /\ Reader!AtPoint("store")
  BY DEF IInv, Reader!RemainingKept, Reader!Remaining
<1>2. /\ frames # <<>> /\ Reader!Top = frames[1] /\ frames[1] \in Reader!Frame
      /\ frames[1] \in Reader!ObjectFrames \cup Reader!SkipFrames /\ frames[1].at = "store"
  BY <1>1, ObjectPoint
<1>3. ~Entering(frames[1])
  BY <1>2, Zenon DEF Entering
<1> DEFINE f == [frames[1] EXCEPT !.at = "found", !.index = mCurrentIndex, !.type = mCurrentType]
<1>4. Alike(f)
  BY <1>1, <1>2, <1>3, AlikeChanged, Zenon DEF Reader!Locations, ReaderTypes
<1>5. frames' = <<f>> \o Tail(frames) /\ mCurrentIndexPending' = FALSE
  BY <1>2 DEF Reader!RemainingKept, Reader!Become, Reader!DropKept
<1> HIDE DEF f
<1>6. Steady /\ PendingGrows
  BY <1>2, <1>3 DEF Steady, PendingGrows, Reader!RemainingKept, Reader!streamFlags,
    Reader!arrays, Reader!history
<1>7. Replaces(<<f>>)
  BY <1>1, <1>4, <1>5, <1>6, GoesOn DEF Reader!RemainingKept, Reader!streamFlags,
    Reader!arrays, ReaderTypes
<1> QED
  BY <1>5, <1>7, Follows DEF IInv, ReaderTypes, Reader!RemainingKept, Reader!streamFlags,
    Reader!arrays, Reader!history

\* ReadRemaining skips what nobody asked for.
LEMMA SkipUnknownStep ==
  ASSUME IInv, Reader!SkipUnknown
  PROVE  IInv'
<1>1. ReaderTypes /\ Reader!AtPoint("found") /\ OnlyFrames
  BY DEF IInv, Reader!SkipUnknown, Reader!Remaining, OnlyFrames
<1>2. /\ frames # <<>> /\ Reader!Top = frames[1]
      /\ frames[1] \in Reader!ObjectFrames \cup Reader!SkipFrames /\ frames[1].at = "found"
      /\ frames[1].index \in 0 .. 27 /\ frames[1].type \in Reader!HeaderTypes
  BY <1>1, ObjectPoint
<1>3. ~Entering(frames[1]) /\ ~Stores(frames[1])
  BY <1>2 DEF Entering, Stores
<1> DEFINE f == Reader!UnknownFrame(frames[1].type)
           g == [frames[1] EXCEPT !.at = "header"]
<1>4. f \in Reader!Frame /\ f.what = "unknown"
  BY <1>2, Zenon DEF Reader!UnknownFrame, Reader!Frame, Reader!UnknownFrames
<1>5. Alike(g)
  BY <1>2, <1>3, AlikeChanged, Zenon DEF Reader!Locations
<1>6. frames' = <<f, g>> \o Tail(frames)
  BY <1>2 DEF Reader!SkipUnknown
<1> HIDE DEF f, g
<1> QED
  BY <1>1, <1>2, <1>3, <1>4, <1>5, <1>6, OnlyCalls

-----------------------------------------------------------------------------
\* The innermost call reads or skips a value.
LEMMA ValuePoint ==
  ASSUME ReaderTypes, NEW what \in {"read", "body", "unknown", "skipArray"},
         Reader!Running(what)
  PROVE  /\ frames # <<>> /\ Reader!Top = frames[1] /\ frames[1] \in Reader!Frame
         /\ frames[1].what = what
         /\ Plain(frames[1]) /\ ~Entering(frames[1]) /\ ~Stores(frames[1])
         /\ ~Clearing(frames[1])
<1>1. /\ frames # <<>> /\ Reader!Top = frames[1] /\ frames[1] \in Reader!Frame
      /\ frames[1].what = what
  BY TopType DEF Reader!Running
<1> QED
  BY <1>1 DEF Plain, IsEntered, IsPackedFrame, Entering, Stores, Clearing

\* The StoreEntryPoint of a nested object is a frame that has no array yet.
LEMMA ObjectFrameType ==
  ASSUME NEW m \in Reader!Member, NEW path \in Seq(Nat)
  PROVE  /\ Reader!ObjectFrame(m.class, path) \in Reader!Frame
         /\ Plain(Reader!ObjectFrame(m.class, path))
<1>1. Members[m.class] \in Seq(Reader!Member)
  BY ReaderFormat DEF Reader!Member
<1> QED
  BY <1>1 DEF Reader!ObjectFrame, Reader!Frame, Reader!ObjectFrames, Reader!Locations,
    Reader!HeaderTypes, Plain, IsEntered, IsPackedFrame

\* Others take the place of such a call, and nothing else changes.
LEMMA OnlyLeads ==
  ASSUME IInv, OnlyFrames, frames # <<>>,
         Plain(frames[1]), ~Entering(frames[1]), ~Stores(frames[1]), ~Clearing(frames[1]),
         NEW new \in Seq(Reader!Frame), frames' = new \o Tail(frames),
         \A i \in 1 .. Len(new) : Plain(new[i])
  PROVE  IInv'
<1>1. /\ stream' = stream /\ pos' = pos /\ UNCHANGED Reader!messageVars /\ result' = result
      /\ entered' = entered /\ outcome' = outcome
  BY DEF OnlyFrames
<1>2. pos \in Nat \ {0} /\ result \subseteq Seq(Nat) \X Seq(Nat)
  BY DEF IInv, ReaderTypes
<1> QED
  BY <1>1, <1>2, LeadsOn

\* One call in its place.
LEMMA NewFrames ==
  ASSUME NEW f \in Reader!Frame, Plain(f)
  PROVE  /\ <<f>> \in Seq(Reader!Frame)
         /\ \A i \in 1 .. Len(<<f>>) : Plain(<<f>>[i])
OBVIOUS

\* As many as a vector has elements.
LEMMA SeveralFrames ==
  ASSUME NEW n \in Nat, NEW new, new = [k \in 1 .. n |-> new[k]],
         \A k \in 1 .. n : new[k] \in Reader!Frame
  PROVE  new \in Seq(Reader!Frame) /\ Len(new) = n
<1>1. new \in [1 .. n -> Reader!Frame]
  OBVIOUS
<1>2. new \in Seq(Reader!Frame)
  BY <1>1
<1> QED
  BY <1>1, <1>2, LenProperties

\* None: it returns.
LEMMA NoFrames ==
  ASSUME ReaderTypes, frames # <<>>
  PROVE  /\ <<>> \in Seq(Reader!Frame) /\ <<>> \o Tail(frames) = Tail(frames)
         /\ \A i \in 1 .. Len(<<>>) : Plain(<<>>[i])
<1>1. Tail(frames) \in Seq(Reader!Frame)
  BY HeadTailProperties DEF ReaderTypes
<1> QED
  BY <1>1, ConcatEmptySeq

\* ReadPrimitive.
LEMMA ReadPrimitiveStep ==
  ASSUME IInv, Reader!ReadPrimitive
  PROVE  IInv'
<1>1. ReaderTypes /\ Reader!Running("read") /\ Reader!Got
  BY DEF IInv, Reader!ReadPrimitive
<1>2. /\ frames # <<>> /\ Reader!Top = frames[1] /\ frames[1] \in Reader!Frame
      /\ frames[1].what = "read"
      /\ Plain(frames[1]) /\ ~Entering(frames[1]) /\ ~Stores(frames[1])
      /\ ~Clearing(frames[1])
  BY <1>1, ValuePoint
<1>3. frames' = <<>> \o Tail(frames)
  BY <1>1, <1>2, NoFrames DEF Reader!ReadPrimitive, Reader!Leave
<1>4. pos' \in Nat \ {0} /\ Len(Reader!Wanted) \in Nat
  BY <1>1, <1>2, Taken DEF Reader!ReadPrimitive, Reader!Take
<1>5. frames[1].path \in Seq(Nat)
  BY <1>2, Kinds DEF Reader!ReadFrames
<1>6. /\ \A k \in 1 .. Len(Reader!Wanted) : stream[pos + k - 1].of \in Seq(Nat)
      /\ Len(Reader!Wanted) <= 1
  BY <1>1, <1>2, TakenValues DEF Reader!ReadPrimitive
<1>7. result' \subseteq Seq(Nat) \X Seq(Nat)
  <2>1. ASSUME NEW k \in 1 .. Len(Reader!Wanted)
        PROVE  <<<<frames[1].path>>[k], stream[pos + k - 1].of>> \in Seq(Nat) \X Seq(Nat)
    <3>1. k = 1
      BY <1>4, <1>6
    <3> QED
      BY <1>5, <1>6, <3>1
  <2> QED
    BY <1>1, <1>2, <2>1, ZenonT(60) DEF Reader!ReadPrimitive, Reader!ReadValues, ReaderTypes
<1>8. stream' = stream /\ UNCHANGED Reader!messageVars /\ entered' = entered /\ outcome' = outcome
  BY DEF Reader!ReadPrimitive
<1> QED
  BY <1>1, <1>2, <1>3, <1>4, <1>7, <1>8, NoFrames, LeadsOn

\* The body of ReadPrimitiveVector.
LEMMA ReadPrimitiveVectorStep ==
  ASSUME IInv, Reader!ReadPrimitiveVector
  PROVE  IInv'
<1>1. ReaderTypes /\ Reader!Running("body") /\ Reader!Got
  BY DEF IInv, Reader!ReadPrimitiveVector
<1>2. /\ frames # <<>> /\ Reader!Top = frames[1] /\ frames[1] \in Reader!Frame
      /\ frames[1].what = "body"
      /\ Plain(frames[1]) /\ ~Entering(frames[1]) /\ ~Stores(frames[1])
      /\ ~Clearing(frames[1])
  BY <1>1, ValuePoint
<1>3. frames' = <<>> \o Tail(frames)
  BY <1>1, <1>2, NoFrames DEF Reader!ReadPrimitiveVector, Reader!Leave
<1>4. pos' \in Nat \ {0} /\ Len(Reader!Wanted) \in Nat
  BY <1>1, <1>2, Taken DEF Reader!ReadPrimitiveVector, Reader!Take
<1>5. frames[1].path \in Seq(Nat) /\ frames[1].n \in Nat
  BY <1>2, Kinds DEF Reader!BodyFrames
<1>6. /\ \A k \in 1 .. Len(Reader!Wanted) : stream[pos + k - 1].of \in Seq(Nat)
      /\ Len(Reader!Wanted) <= frames[1].n
  BY <1>1, <1>2, TakenValues DEF Reader!ReadPrimitiveVector, Reader!Running
<1>7. result' \subseteq Seq(Nat) \X Seq(Nat)
  <2> DEFINE places == [k \in 1 .. frames[1].n |-> Append(frames[1].path, k)]
  <2>1. ASSUME NEW k \in 1 .. Len(Reader!Wanted)
        PROVE  <<places[k], stream[pos + k - 1].of>> \in Seq(Nat) \X Seq(Nat)
    <3>1. k \in 1 .. frames[1].n /\ k \in Nat
      BY <1>4, <1>5, <1>6
    <3>2. places[k] = Append(frames[1].path, k)
      BY <3>1
    <3>3. Append(frames[1].path, k) \in Seq(Nat) /\ stream[pos + k - 1].of \in Seq(Nat)
      BY <1>5, <1>6, <3>1, AppendProperties
    <3> HIDE DEF places
    <3> QED
      BY <3>2, <3>3
  <2>2. result' = result \cup {<<places[k], stream[pos + k - 1].of>> : k \in 1 .. Len(Reader!Wanted)}
    BY <1>2 DEF Reader!ReadPrimitiveVector, Reader!ReadValues
  <2> HIDE DEF places
  <2> QED
    BY <1>1, <2>1, <2>2 DEF ReaderTypes
<1>8. stream' = stream /\ UNCHANGED Reader!messageVars /\ entered' = entered /\ outcome' = outcome
  BY DEF Reader!ReadPrimitiveVector
<1> QED
  BY <1>1, <1>2, <1>3, <1>4, <1>7, <1>8, NoFrames, LeadsOn

\* ReadObject.
LEMMA ReadObjectStep ==
  ASSUME IInv, Reader!ReadObject
  PROVE  IInv'
<1>1. ReaderTypes /\ Reader!Running("read") /\ OnlyFrames
  BY DEF IInv, Reader!ReadObject, OnlyFrames
<1>2. /\ frames # <<>> /\ Reader!Top = frames[1] /\ frames[1] \in Reader!Frame
      /\ frames[1].what = "read"
      /\ Plain(frames[1]) /\ ~Entering(frames[1]) /\ ~Stores(frames[1])
      /\ ~Clearing(frames[1])
  BY <1>1, ValuePoint
<1> DEFINE f == Reader!ObjectFrame(frames[1].member.class, frames[1].path)
<1>3. f \in Reader!Frame /\ Plain(f)
  <2>1. frames[1].path \in Seq(Nat) /\ frames[1].member \in Reader!Member
    BY <1>2, Kinds DEF Reader!ReadFrames
  <2> QED
    BY <2>1, ObjectFrameType
<1>4. frames' = <<f>> \o Tail(frames)
  BY <1>2 DEF Reader!ReadObject, Reader!Become
<1> HIDE DEF f
<1> QED
  BY <1>1, <1>2, <1>3, <1>4, NewFrames, OnlyLeads

\* ReadArrayHeader.
LEMMA ReadArrayHeaderStep ==
  ASSUME IInv, Reader!ReadArrayHeader
  PROVE  IInv'
<1>1. ReaderTypes /\ Reader!Running("read") /\ Reader!Got /\ Reader!Top.type = "Array"
  BY DEF IInv, Reader!ReadArrayHeader
<1>2. /\ frames # <<>> /\ Reader!Top = frames[1] /\ frames[1] \in Reader!Frame
      /\ frames[1].what = "read"
      /\ Plain(frames[1]) /\ ~Entering(frames[1]) /\ ~Stores(frames[1])
      /\ ~Clearing(frames[1])
  BY <1>1, ValuePoint
<1>3. /\ stream[pos].index \in 0 .. 27 /\ stream[pos].type \in Reader!HeaderTypes
      /\ stream[pos + 1].n \in Nat
  BY <1>1, <1>2, TakenArray
<1>4. frames[1].member \in Reader!Member /\ frames[1].path \in Seq(Nat)
  BY <1>2, Kinds DEF Reader!ReadFrames
<1> DEFINE f == Reader!BodyFrame(frames[1].member, frames[1].path, stream[pos].index,
                                 stream[pos].type, stream[pos + 1].n)
<1>5. f \in Reader!Frame /\ Plain(f)
  BY <1>3, <1>4 DEF Reader!BodyFrame, Reader!Frame, Reader!BodyFrames, Plain, IsEntered,
    IsPackedFrame
<1>6. frames' = <<f>> \o Tail(frames)
  BY <1>2 DEF Reader!ReadArrayHeader, Reader!Become
<1> HIDE DEF f
<1>7. pos' \in Nat \ {0}
  BY <1>1, <1>2, Taken DEF Reader!ReadArrayHeader, Reader!Take
<1>8. /\ stream' = stream /\ UNCHANGED Reader!messageVars /\ entered' = entered
      /\ outcome' = outcome /\ result' = result /\ result \subseteq Seq(Nat) \X Seq(Nat)
  BY <1>1 DEF Reader!ReadArrayHeader, ReaderTypes
<1> QED
  BY <1>2, <1>5, <1>6, <1>7, <1>8, NewFrames, LeadsOn

\* ReadObjectVector, not packed.
LEMMA ReadObjectVectorStep ==
  ASSUME IInv, Reader!ReadObjectVector
  PROVE  IInv'
<1>1. ReaderTypes /\ Reader!Running("body") /\ OnlyFrames
  BY DEF IInv, Reader!ReadObjectVector, OnlyFrames
<1>2. /\ frames # <<>> /\ Reader!Top = frames[1] /\ frames[1] \in Reader!Frame
      /\ frames[1].what = "body"
      /\ Plain(frames[1]) /\ ~Entering(frames[1]) /\ ~Stores(frames[1])
      /\ ~Clearing(frames[1])
  BY <1>1, ValuePoint
<1>3. /\ frames[1].member \in Reader!Member /\ frames[1].path \in Seq(Nat)
      /\ frames[1].n \in Nat
  BY <1>2, Kinds DEF Reader!BodyFrames
<1> DEFINE new == [k \in 1 .. frames[1].n |->
                     Reader!ObjectFrame(frames[1].member.class, Append(frames[1].path, k))]
<1>4. ASSUME NEW k \in 1 .. frames[1].n
      PROVE  new[k] \in Reader!Frame /\ Plain(new[k])
  <2>1. k \in Nat
    BY <1>3
  <2>2. Append(frames[1].path, k) \in Seq(Nat)
    BY <1>3, <2>1, AppendProperties
  <2> QED
    BY <1>3, <2>2, ObjectFrameType
<1>5. frames' = new \o Tail(frames)
  BY <1>2 DEF Reader!ReadObjectVector
<1>6. new = [k \in 1 .. frames[1].n |-> new[k]]
  OBVIOUS
<1> HIDE DEF new
<1>7. new \in Seq(Reader!Frame) /\ Len(new) = frames[1].n
  BY <1>3, <1>4, <1>6, SeveralFrames
<1> QED
  BY <1>1, <1>2, <1>4, <1>5, <1>7, OnlyLeads

\* ReadObjectVector, packed: an array for the vector.
LEMMA ReadPackedVectorStep ==
  ASSUME IInv, Reader!ReadPackedVector
  PROVE  IInv'
<1>1. ReaderTypes /\ Reader!Running("body") /\ lent \in Int
  BY DEF IInv, Reader!ReadPackedVector, ReaderTypes
<1>2. /\ frames # <<>> /\ Reader!Top = frames[1] /\ frames[1] \in Reader!Frame
      /\ frames[1].what = "body"
      /\ Plain(frames[1]) /\ ~Entering(frames[1]) /\ ~Stores(frames[1])
      /\ ~Clearing(frames[1])
  BY <1>1, ValuePoint
<1>3. /\ frames[1].member \in Reader!Member /\ frames[1].path \in Seq(Nat)
      /\ frames[1].n \in Nat
  BY <1>2, Kinds DEF Reader!BodyFrames
<1> DEFINE f == Reader!CacheFrame(frames[1].member.class, frames[1].path, frames[1].n, <<>>)
<1>4. /\ f \in Reader!Frame /\ IsPackedFrame(f) /\ ~IsEntered(f) /\ PendingFits(f)
  BY <1>3 DEF Reader!CacheFrame, Reader!Frame, Reader!CacheFrames, IsPackedFrame, IsEntered,
    PendingFits, Reader!Member
<1>5. frames' = <<f>> \o Tail(frames) /\ lent' = lent + 1
  BY <1>2 DEF Reader!ReadPackedVector, Reader!Become
<1>6. /\ mCurrentIndexPending' = mCurrentIndexPending /\ mCurrentIndex' = mCurrentIndex
      /\ mCurrentType' = mCurrentType /\ mObjectSkipping' = mObjectSkipping
      /\ mCleanExit' = mCleanExit /\ alive' = alive /\ mVariableHistory' = mVariableHistory
      /\ mCurrentPendingVariables' = mCurrentPendingVariables
      /\ stream' = stream /\ pos' = pos /\ result' = result /\ entered' = entered
      /\ outcome' = outcome
  BY DEF Reader!ReadPackedVector, Reader!streamFlags, Reader!history
<1>7. ~mCurrentIndexPending
  BY <1>2, NoneKept
<1> DEFINE new == <<f>>
<1>8. /\ new \in Seq(Reader!Frame) /\ Len(new) = 1 /\ new[1] = f /\ new # <<>>
      /\ frames' = new \o Tail(frames)
  BY <1>4, <1>5
<1> HIDE DEF f, new
<1>9. /\ ~LastIn(new, EnteredFrames) /\ LastIn(new, PackingFrames)
      /\ frames[1] \notin EnteredFrames /\ frames[1] \notin PackingFrames
  BY <1>2, <1>4, <1>8 DEF LastIn, EnteredFrames, PackingFrames, Plain
<1>10. Replaces(new)
  BY <1>1, <1>2, <1>4, <1>5, <1>6, <1>7, <1>8, <1>9 DEF Replaces, One
<1> QED
  BY <1>1, <1>6, <1>10, Follows DEF ReaderTypes

-----------------------------------------------------------------------------
\* SkipVariable and SkipArray, of values.
LEMMA SkipPrimitiveStep ==
  ASSUME IInv, Reader!SkipPrimitive \/ Reader!SkipElements
  PROVE  IInv'
<1>1. /\ ReaderTypes /\ Reader!Got
      /\ Reader!Running("unknown") \/ Reader!Running("skipArray")
  BY DEF IInv, Reader!SkipPrimitive, Reader!SkipElements
<1>2. /\ frames # <<>> /\ Plain(frames[1]) /\ ~Entering(frames[1]) /\ ~Stores(frames[1])
      /\ ~Clearing(frames[1])
  BY <1>1, ValuePoint
<1>3. frames' = <<>> \o Tail(frames)
  BY <1>1, <1>2, NoFrames DEF Reader!SkipPrimitive, Reader!SkipElements, Reader!Leave
<1>4. pos' \in Nat \ {0}
  BY <1>1, <1>2, Taken DEF Reader!SkipPrimitive, Reader!SkipElements, Reader!Take
<1>5. /\ stream' = stream /\ UNCHANGED Reader!messageVars /\ entered' = entered
      /\ outcome' = outcome /\ result' = result /\ result \subseteq Seq(Nat) \X Seq(Nat)
  BY <1>1 DEF Reader!SkipPrimitive, Reader!SkipElements, ReaderTypes
<1> QED
  BY <1>1, <1>2, <1>3, <1>4, <1>5, NoFrames, LeadsOn

\* SkipVariable, of an array.
LEMMA SkipArrayHeaderStep ==
  ASSUME IInv, Reader!SkipArrayHeader
  PROVE  IInv'
<1>1. ReaderTypes /\ Reader!Running("unknown") /\ Reader!Got /\ Reader!Top.type = "Array"
  BY DEF IInv, Reader!SkipArrayHeader
<1>2. /\ frames # <<>> /\ Plain(frames[1]) /\ ~Entering(frames[1]) /\ ~Stores(frames[1])
      /\ ~Clearing(frames[1])
  BY <1>1, ValuePoint
<1>3. stream[pos].type \in Reader!HeaderTypes /\ stream[pos + 1].n \in Nat
  BY <1>1, <1>2, TakenArray
<1> DEFINE f == Reader!SkipArrayFrame(stream[pos].type, stream[pos + 1].n)
<1>4. f \in Reader!Frame /\ Plain(f)
  BY <1>3 DEF Reader!SkipArrayFrame, Reader!Frame, Reader!SkipArrayFrames, Plain, IsEntered,
    IsPackedFrame
<1>5. frames' = <<f>> \o Tail(frames)
  BY DEF Reader!SkipArrayHeader, Reader!Become
<1> HIDE DEF f
<1>6. pos' \in Nat \ {0}
  BY <1>1, <1>2, Taken DEF Reader!SkipArrayHeader, Reader!Take
<1>7. /\ stream' = stream /\ UNCHANGED Reader!messageVars /\ entered' = entered
      /\ outcome' = outcome /\ result' = result /\ result \subseteq Seq(Nat) \X Seq(Nat)
  BY <1>1 DEF Reader!SkipArrayHeader, ReaderTypes
<1> QED
  BY <1>2, <1>4, <1>5, <1>6, <1>7, NewFrames, LeadsOn

\* SkipVariable and SkipArray, of objects: the last one ends the skipping, unless
\* it goes on outside.
LEMMA SkipObjectsStep ==
  ASSUME IInv, Reader!SkipObjects
  PROVE  IInv'
<1>1. ReaderTypes /\ (Reader!Running("unknown") \/ Reader!Running("skipArray")) /\ lent \in Int
  BY DEF IInv, Reader!SkipObjects, ReaderTypes
<1>2. /\ frames # <<>> /\ Reader!Top = frames[1] /\ frames[1] \in Reader!Frame
      /\ Plain(frames[1]) /\ ~Entering(frames[1]) /\ ~Stores(frames[1])
      /\ ~Clearing(frames[1])
  BY <1>1, ValuePoint
<1> DEFINE n == Reader!SkipCount
           new == [k \in 1 .. n |-> Reader!SkipFrame(Reader!Clears(k))]
<1>3. n \in Nat
  <2>1. Reader!Running("skipArray") => Reader!Top.n \in Nat
    BY <1>2, Kinds DEF Reader!Running, Reader!SkipArrayFrames
  <2> QED
    BY <2>1 DEF Reader!SkipCount, Reader!Running
<1>4. ASSUME NEW k \in 1 .. n
      PROVE  /\ new[k] \in Reader!Frame /\ Plain(new[k])
             /\ k = n /\ ~mObjectSkipping => Clearing(new[k])
  <2>1. Reader!Clears(k) \in BOOLEAN
    BY DEF Reader!Clears
  <2>2. Reader!SkipFrame(Reader!Clears(k)) \in Reader!Frame
    BY <2>1 DEF Reader!SkipFrame, Reader!Frame, Reader!SkipFrames, Reader!Locations,
      Reader!HeaderTypes
  <2> QED
    BY <2>2 DEF Reader!SkipFrame, Reader!Clears, Plain, IsEntered, IsPackedFrame, Clearing
<1>5. /\ frames' = new \o Tail(frames) /\ mObjectSkipping' = (mObjectSkipping \/ n > 0)
  BY DEF Reader!SkipObjects
<1>6. /\ mCurrentIndexPending' = mCurrentIndexPending /\ mCurrentIndex' = mCurrentIndex
      /\ mCurrentType' = mCurrentType /\ lent' = lent
      /\ mCleanExit' = mCleanExit /\ alive' = alive /\ mVariableHistory' = mVariableHistory
      /\ mCurrentPendingVariables' = mCurrentPendingVariables
      /\ stream' = stream /\ pos' = pos /\ result' = result /\ entered' = entered
      /\ outcome' = outcome
  BY DEF Reader!SkipObjects, Reader!arrays, Reader!history
<1>7. new = [k \in 1 .. n |-> new[k]]
  OBVIOUS
<1> HIDE DEF n, new
<1>8. new \in Seq(Reader!Frame) /\ Len(new) = n
  BY <1>3, <1>4, <1>7, SeveralFrames
<1>9. mObjectSkipping' => \/ mObjectSkipping /\ ~Clearing(frames[1])
                          \/ \E i \in 1 .. Len(new) : Clearing(new[i])
  <2>1. ASSUME mObjectSkipping', ~mObjectSkipping
        PROVE  \E i \in 1 .. Len(new) : Clearing(new[i])
    <3>0. n > 0
      BY <1>5, <2>1, Zenon
    <3>1. n \in 1 .. n
      BY <1>3, <3>0
    <3> QED
      BY <1>4, <1>8, <2>1, <3>1
  <2> QED
    BY <1>2, <2>1
<1>10. ~mCurrentIndexPending' /\ ~IsEntered(frames[1]) /\ lent' = lent - One(IsPackedFrame(frames[1]))
  BY <1>1, <1>2, <1>6, NoneKept DEF Plain, One
<1>11. Steady
  BY <1>2, <1>6 DEF Steady
<1>12. Replaces(new)
  BY <1>1, <1>4, <1>5, <1>6, <1>8, <1>9, <1>10, <1>11, Leads
<1> QED
  BY <1>1, <1>5, <1>6, <1>12, Follows DEF ReaderTypes

\* A skipped object ends.
LEMMA LeaveSkippedStep ==
  ASSUME IInv, Reader!LeaveSkipped
  PROVE  IInv'
<1>1. ReaderTypes /\ Reader!AtPoint("found") /\ lent \in Int /\ mObjectSkipping \in BOOLEAN
  BY DEF IInv, Reader!LeaveSkipped, Reader!Remaining, ReaderTypes
<1>2. /\ frames # <<>> /\ Reader!Top = frames[1] /\ frames[1] \in Reader!Frame
      /\ frames[1].what = "skip" /\ frames[1].at = "found"
  BY <1>1, ObjectPoint DEF Reader!LeaveSkipped, Reader!Running
<1>3. /\ Plain(frames[1]) /\ ~Entering(frames[1]) /\ ~Stores(frames[1])
      /\ Clearing(frames[1]) <=> frames[1].clears
  BY <1>2 DEF Plain, IsEntered, IsPackedFrame, Entering, Stores, Clearing
<1>4. frames' = <<>> \o Tail(frames) /\ mObjectSkipping' = (mObjectSkipping /\ ~frames[1].clears)
  BY <1>1, <1>2, NoFrames DEF Reader!LeaveSkipped, Reader!Leave
<1>5. /\ mCurrentIndexPending' = mCurrentIndexPending /\ mCurrentIndex' = mCurrentIndex
      /\ mCurrentType' = mCurrentType /\ lent' = lent
      /\ mCleanExit' = mCleanExit /\ alive' = alive /\ mVariableHistory' = mVariableHistory
      /\ mCurrentPendingVariables' = mCurrentPendingVariables
      /\ stream' = stream /\ pos' = pos /\ result' = result /\ entered' = entered
      /\ outcome' = outcome
  BY DEF Reader!LeaveSkipped, Reader!arrays, Reader!history
<1>6. ~mCurrentIndexPending' /\ ~IsEntered(frames[1]) /\ lent' = lent - One(IsPackedFrame(frames[1]))
  BY <1>1, <1>2, <1>3, <1>5, NoneKept DEF Plain, One
<1>7. Steady
  BY <1>2, <1>3, <1>5 DEF Steady
<1>8. mObjectSkipping' => mObjectSkipping /\ ~Clearing(frames[1])
  BY <1>3, <1>4
<1>9. /\ <<>> \in Seq(Reader!Frame) /\ \A i \in 1 .. Len(<<>>) : Plain(<<>>[i])
  BY <1>1, <1>2, NoFrames
<1>10. Replaces(<<>>)
  BY <1>1, <1>4, <1>5, <1>6, <1>7, <1>8, <1>9, Leads
<1>11. mObjectSkipping' \in BOOLEAN
  BY <1>4
<1> QED
  BY <1>1, <1>5, <1>10, <1>11, Follows DEF ReaderTypes

-----------------------------------------------------------------------------
\* The innermost call is the value message of a packed vector.
LEMMA PackedPoint ==
  ASSUME IInv, NEW locs, Reader!PackedAt(locs)
  PROVE  /\ frames # <<>> /\ Reader!Top = frames[1] /\ frames[1] \in Reader!PackedFrames
         /\ frames[1] \in Reader!Frame /\ frames[1].what = "packed" /\ frames[1].at \in locs
         /\ ~Entering(frames[1]) /\ ~Stores(frames[1]) /\ ~Clearing(frames[1])
         /\ ~IsEntered(frames[1]) /\ IsPackedFrame(frames[1])
         /\ PendingFits(frames[1])
<1>1. /\ frames # <<>> /\ Reader!Top = frames[1] /\ frames[1] \in Reader!Frame
      /\ frames[1].what = "packed" /\ frames[1].at \in locs
  BY TopType DEF IInv, Reader!PackedAt, Reader!Running
<1>2. /\ frames[1] \in Reader!PackedFrames
  BY <1>1, Kinds
<1>3. /\ ~Entering(frames[1]) /\ ~Stores(frames[1]) /\ ~Clearing(frames[1])
      /\ ~IsEntered(frames[1]) /\ IsPackedFrame(frames[1])
  BY <1>1 DEF Entering, Stores, Clearing, IsEntered, IsPackedFrame
<1>4. PendingFits(frames[1])
  <2>1. mCleanExit
    BY <1>1, <1>3, CurrentPending
  <2>2. 1 \in 1 .. Len(frames)
    BY <1>1, EmptySeq DEF IInv, ReaderTypes
  <2> QED
    BY <2>1, <2>2, Closures DEF IInv
<1> QED
  BY <1>1, <1>2, <1>3, <1>4

\* The next cached header.
LEMMA PackedHeader ==
  ASSUME frames[1] \in Reader!PackedFrames, Reader!Top = frames[1], Reader!Within
  PROVE  Reader!NextHeader.type \in Reader!HeaderTypes
<1>1. /\ frames[1].headers \in Seq(Reader!HeaderToken) /\ frames[1].h \in Nat \ {0}
      /\ frames[1].h <= Len(frames[1].headers)
  BY DEF Reader!PackedFrames, Reader!Within
<1>2. frames[1].h \in 1 .. Len(frames[1].headers)
  BY <1>1, LenProperties
<1>3. Reader!NextHeader \in Reader!HeaderToken
  BY <1>1, <1>2, ElementOfSeq DEF Reader!NextHeader
<1> QED
  BY <1>3 DEF Reader!HeaderToken

\* The next member of the element.
LEMMA PackedMember ==
  ASSUME frames[1] \in Reader!PackedFrames, Reader!Top = frames[1], Reader!Top.todo # <<>>
  PROVE  /\ Reader!Now \in Reader!Member
         /\ Append(Reader!Element, Reader!Now.index) \in Seq(Nat)
         /\ Reader!Element = Append(frames[1].path, frames[1].k)
<1>1. /\ frames[1].todo \in Seq(Reader!Member) /\ frames[1].path \in Seq(Nat)
      /\ frames[1].k \in Nat
  BY DEF Reader!PackedFrames
<1>2. Reader!Now \in Reader!Member
  BY <1>1, HeadTailProperties DEF Reader!Now
<1>3. Reader!Now.index \in Nat
  BY <1>2, MemberIndex
<1>4. /\ Reader!Element = Append(frames[1].path, frames[1].k)
      /\ Reader!Element \in Seq(Nat)
  BY <1>1, AppendProperties DEF Reader!Element
<1> QED
  BY <1>2, <1>3, <1>4, AppendProperties

\* The frame of a packed vector, further on.
LEMMA AlikePacked ==
  ASSUME frames[1].what \in {"cache", "packed"},
         NEW f \in Reader!Frame, f.what \in {"cache", "packed"}, PendingFits(f)
  PROVE  Alike(f)
BY DEF Alike, IsEntered, IsPackedFrame, Clearing

\* CacheHeaders.
LEMMA CacheHeadersStep ==
  ASSUME IInv, Reader!CacheHeaders
  PROVE  IInv'
<1>1. ReaderTypes /\ Reader!Running("cache") /\ Reader!Got
  BY DEF IInv, Reader!CacheHeaders
<1>2. /\ frames # <<>> /\ Reader!Top = frames[1] /\ frames[1] \in Reader!Frame
      /\ frames[1].what = "cache" /\ frames[1] \in Reader!CacheFrames
  BY <1>1, TopType, Kinds DEF Reader!Running
<1>3. ~Entering(frames[1]) /\ ~Stores(frames[1])
  BY <1>2 DEF Entering, Stores
<1>4. stream[pos] \in Reader!HeaderToken
  BY <1>1, <1>2, TakenHeader
<1> DEFINE e == [frames[1] EXCEPT !.headers = Append(@, stream[pos])]
           g == Reader!PackedFrame(frames[1].class, frames[1].path, frames[1].n,
                                   frames[1].headers)
           f == IF stream[pos].type = "Terminator" THEN g ELSE e
<1>5. e \in Reader!Frame /\ e.what = "cache"
  <2>1. Append(frames[1].headers, stream[pos]) \in Seq(Reader!HeaderToken)
    BY <1>2, <1>4, AppendProperties DEF Reader!CacheFrames
  <2> QED
    BY <1>2, <2>1 DEF Reader!Frame, Reader!CacheFrames
<1>6. g \in Reader!Frame /\ g.what = "packed" /\ g.at = "next"
  BY <1>2 DEF Reader!Frame, Reader!CacheFrames, Reader!PackedFrames, Reader!PackedFrame
<1>7. frames' = <<f>> \o Tail(frames)
  BY <1>2 DEF Reader!CacheHeaders, Reader!Become
<1> HIDE DEF e, g
<1>8. f \in Reader!Frame /\ f.what \in {"cache", "packed"} /\ PendingFits(f)
  BY <1>5, <1>6 DEF PendingFits
<1> HIDE DEF f
<1>9. Alike(f)
  BY <1>2, <1>8, AlikePacked
<1>10. ~mCurrentIndexPending
  BY <1>2, <1>3, NoneKept
<1>11. Steady /\ PendingGrows
  BY <1>2, <1>3 DEF Steady, PendingGrows, Reader!CacheHeaders, Reader!messageVars
<1>12. Replaces(<<f>>)
  BY <1>1, <1>7, <1>9, <1>10, <1>11, GoesOn DEF Reader!CacheHeaders, Reader!messageVars,
    ReaderTypes
<1>13. pos' \in Nat \ {0}
  BY <1>1, <1>2, Taken DEF Reader!CacheHeaders, Reader!Take
<1> QED
  BY <1>12, <1>13, Follows DEF IInv, ReaderTypes, Reader!CacheHeaders, Reader!messageVars

\* Steps from one member or header of a packed element to the next.
LEMMA PackedGoesOn ==
  ASSUME IInv, OnlyFrames, NEW locs, Reader!PackedAt(locs),
         NEW f \in Reader!Frame, f.what = "packed", PendingFits(f),
         frames' = <<f>> \o Tail(frames)
  PROVE  IInv'
<1>1. /\ frames # <<>> /\ frames[1].what = "packed"
      /\ ~Entering(frames[1]) /\ ~Stores(frames[1])
  BY PackedPoint
<1>2. Alike(f)
  BY <1>1, AlikePacked
<1> QED
  BY <1>1, <1>2, OnlyGoesOn

\* The same, with the Read of a proxy.
LEMMA PackedCalls ==
  ASSUME IInv, OnlyFrames, NEW locs, Reader!PackedAt(locs),
         NEW f \in Reader!Frame, f.what = "read",
         NEW g \in Reader!Frame, g.what = "packed", PendingFits(g),
         frames' = <<f, g>> \o Tail(frames)
  PROVE  IInv'
<1>1. /\ frames # <<>> /\ frames[1].what = "packed"
      /\ ~Entering(frames[1]) /\ ~Stores(frames[1])
  BY PackedPoint
<1>2. Alike(g)
  BY <1>1, AlikePacked
<1> QED
  BY <1>1, <1>2, OnlyCalls

\* StoreEntryPoint of the value message clears what is pending.
LEMMA NextElementStep ==
  ASSUME IInv, Reader!NextElement
  PROVE  IInv'
<1>1. Reader!PackedAt({"next"}) /\ OnlyFrames
  BY DEF Reader!NextElement, OnlyFrames
<1>2. Reader!Top = frames[1] /\ frames[1] \in Reader!PackedFrames
  BY <1>1, PackedPoint
<1> DEFINE f == [frames[1] EXCEPT !.at = "store", !.k = @ + 1,
                                  !.todo = Members[frames[1].class], !.h = 1, !.pending = {}]
<1>3. frames' = <<f>> \o Tail(frames)
  BY <1>2, Zenon DEF Reader!NextElement, Reader!Become, Reader!Cleared
<1>4. f \in Reader!Frame
  <2>1. Members[frames[1].class] \in Seq(Reader!Member)
    BY <1>2, ReaderFormat DEF Reader!PackedFrames
  <2>2. PICK todo \in Seq(Reader!Member) : todo = Members[frames[1].class]
    BY <2>1
  <2>3. PICK k \in Nat : k = frames[1].k + 1
    BY <1>2 DEF Reader!PackedFrames
  <2>4. f = [frames[1] EXCEPT !.at = "store", !.k = k, !.todo = todo, !.h = 1, !.pending = {}]
    BY <2>2, <2>3
  <2>5. 1 \in Nat \ {0} /\ {} \in SUBSET Reader!PendingMember
    OBVIOUS
  <2> HIDE DEF f
  <2> QED
    BY <1>2, <2>4, <2>5, ChangedPacked, Zenon
<1>5. f.what = "packed" /\ PendingFits(f)
  BY <1>2 DEF Reader!PackedFrames, PendingFits
<1> HIDE DEF f
<1> QED
  BY <1>1, <1>3, <1>4, <1>5, PackedGoesOn

\* The array of a packed vector is given back.
LEMMA LeavePackedVectorStep ==
  ASSUME IInv, Reader!LeavePackedVector
  PROVE  IInv'
<1>1. Reader!PackedAt({"next"}) /\ ReaderTypes /\ lent \in Int
  BY DEF IInv, Reader!LeavePackedVector, ReaderTypes
<1>2. /\ frames # <<>> /\ frames[1] \in Reader!Frame
      /\ ~Entering(frames[1]) /\ ~Stores(frames[1]) /\ ~Clearing(frames[1])
      /\ ~IsEntered(frames[1]) /\ IsPackedFrame(frames[1])
  BY <1>1, PackedPoint
<1>3. frames' = <<>> \o Tail(frames) /\ lent' = lent - One(IsPackedFrame(frames[1]))
  BY <1>1, <1>2, NoFrames DEF Reader!LeavePackedVector, Reader!Leave, Reader!Release, One
<1>4. /\ mCurrentIndexPending' = mCurrentIndexPending /\ mCurrentIndex' = mCurrentIndex
      /\ mCurrentType' = mCurrentType /\ mObjectSkipping' = mObjectSkipping
      /\ mCleanExit' = mCleanExit /\ alive' = alive /\ mVariableHistory' = mVariableHistory
      /\ mCurrentPendingVariables' = mCurrentPendingVariables
      /\ stream' = stream /\ pos' = pos /\ result' = result /\ entered' = entered
      /\ outcome' = outcome
  BY DEF Reader!LeavePackedVector, Reader!streamFlags, Reader!history
<1>5. ~mCurrentIndexPending'
  BY <1>2, <1>4, NoneKept
<1>6. Steady
  BY <1>2, <1>4 DEF Steady
<1>7. mObjectSkipping' => mObjectSkipping /\ ~Clearing(frames[1])
  BY <1>2, <1>4
<1>8. /\ <<>> \in Seq(Reader!Frame) /\ \A i \in 1 .. Len(<<>>) : Plain(<<>>[i])
  BY <1>1, <1>2, NoFrames
<1>9. Replaces(<<>>)
  BY <1>1, <1>2, <1>3, <1>4, <1>5, <1>6, <1>7, <1>8, Leads
<1> QED
  BY <1>1, <1>4, <1>9, Follows DEF ReaderTypes

\* StoreTemplate of the value message, without a header left.
LEMMA StoreMissingStep ==
  ASSUME IInv, Reader!StoreMissing
  PROVE  IInv'
<1>1. Reader!PackedAt({"store"}) /\ OnlyFrames
  BY DEF Reader!StoreMissing, OnlyFrames
<1>2. /\ Reader!Top = frames[1] /\ frames[1] \in Reader!PackedFrames /\ frames[1].at = "store"
      /\ PendingFits(frames[1]) /\ frames[1].what = "packed" /\ frames[1].todo # <<>>
  BY <1>1, PackedPoint DEF Reader!StoreMissing
<1> DEFINE f == [frames[1] EXCEPT !.todo = Tail(@)]
<1>3. frames' = <<f>> \o Tail(frames)
  BY <1>2 DEF Reader!StoreMissing, Reader!Become
<1>4. f \in Reader!Frame
  <2>1. {} \in SUBSET Reader!PendingMember /\ 1 \in Nat \ {0}
    OBVIOUS
  <2> QED
    BY <1>2, <2>1, StoredPacked
<1>5. f.what = "packed" /\ PendingFits(f)
  BY <1>2 DEF Reader!PackedFrames, PendingFits
<1> HIDE DEF f
<1> QED
  BY <1>1, <1>3, <1>4, <1>5, PackedGoesOn

\* StoreTemplate of the value message has found its member.
LEMMA StoreNextStep ==
  ASSUME IInv, Reader!StoreNext
  PROVE  IInv'
<1>1. Reader!PackedAt({"store", "drain"}) /\ OnlyFrames /\ Reader!Within
      /\ Reader!Top.todo # <<>>
  BY DEF Reader!StoreNext, OnlyFrames
<1>2. /\ Reader!Top = frames[1] /\ frames[1] \in Reader!PackedFrames
      /\ frames[1].at \in {"store", "drain"}
      /\ PendingFits(frames[1]) /\ frames[1].what = "packed" /\ frames[1].todo # <<>>
  BY <1>1, PackedPoint
<1> DEFINE f == Reader!ReadFrame(Reader!Now, Append(Reader!Element, Reader!Now.index),
                                 Reader!NextHeader.type)
           g == [frames[1] EXCEPT !.todo = Tail(@), !.h = Reader!PassedHeader, !.at = "store"]
<1>3. frames' = <<f, g>> \o Tail(frames)
  BY <1>2 DEF Reader!StoreNext
<1>4. f \in Reader!Frame /\ f.what = "read"
  BY <1>1, <1>2, PackedHeader, PackedMember, ReadFrameType
<1>5. g \in Reader!Frame
  <2>1. Reader!PassedHeader \in Nat \ {0}
    BY <1>2 DEF Reader!PassedHeader, Reader!PackedFrames
  <2>2. {} \in SUBSET Reader!PendingMember
    OBVIOUS
  <2> QED
    BY <1>2, <2>1, <2>2, StoredPacked
<1>6. g.what = "packed" /\ PendingFits(g)
  BY <1>2 DEF Reader!PackedFrames, PendingFits
<1> HIDE DEF f, g
<1> QED
  BY <1>1, <1>3, <1>4, <1>5, <1>6, PackedCalls

\* StoreTemplate of the value message leaves its member pending.
LEMMA StorePendingStep ==
  ASSUME IInv, Reader!StorePending
  PROVE  IInv'
<1>1. Reader!PackedAt({"store", "drain"}) /\ OnlyFrames /\ Reader!Top.todo # <<>>
  BY DEF Reader!StorePending, OnlyFrames
<1>2. /\ Reader!Top = frames[1] /\ frames[1] \in Reader!PackedFrames
      /\ frames[1].at \in {"store", "drain"}
      /\ PendingFits(frames[1]) /\ frames[1].what = "packed" /\ frames[1].todo # <<>>
  BY <1>1, PackedPoint
<1> DEFINE q == Reader!Pending(Reader!Now, Append(Reader!Element, Reader!Now.index))
           pending == frames[1].pending \cup {q}
           f == [frames[1] EXCEPT !.todo = Tail(@), !.at = "store", !.pending = pending]
<1>3. frames' = <<f>> \o Tail(frames)
  BY <1>2 DEF Reader!StorePending, Reader!Become
<1>4. /\ q \in Reader!PendingMember
      /\ q.path = Append(Append(frames[1].path, frames[1].k), q.member.index)
  BY <1>1, <1>2, PackedMember DEF Reader!Pending, Reader!PendingMember
<1>5. \A p \in frames[1].pending :
        p.path = Append(Append(frames[1].path, frames[1].k), p.member.index)
  BY <1>2 DEF PendingFits
<1> HIDE DEF q
<1>6. pending \in SUBSET Reader!PendingMember
  BY <1>2, <1>4 DEF Reader!PackedFrames
<1>7. \A p \in pending : p.path = Append(Append(frames[1].path, frames[1].k), p.member.index)
  BY <1>4, <1>5
<1> HIDE DEF pending
<1>8. f \in Reader!Frame
  <2>1. 1 \in Nat \ {0}
    OBVIOUS
  <2> QED
    BY <1>2, <1>6, <2>1, StoredPacked
<1>9. f.what = "packed" /\ PendingFits(f)
  BY <1>2, <1>7 DEF Reader!PackedFrames, PendingFits
<1> HIDE DEF f
<1> QED
  BY <1>1, <1>3, <1>8, <1>9, PackedGoesOn

\* A pending member of the element is read.
LEMMA ReadPendingStep ==
  ASSUME IInv, Reader!ReadPending
  PROVE  IInv'
<1>1. Reader!PackedAt({"store", "drain"}) /\ OnlyFrames /\ Reader!Within
  BY DEF Reader!ReadPending, OnlyFrames
<1>2. /\ Reader!Top = frames[1] /\ frames[1] \in Reader!PackedFrames
      /\ frames[1].at \in {"store", "drain"}
      /\ PendingFits(frames[1]) /\ frames[1].what = "packed"
  BY <1>1, PackedPoint
<1>3. PICK p \in frames[1].pending :
        frames' = <<Reader!ReadFrame(p.member, p.path, Reader!NextHeader.type),
                    [frames[1] EXCEPT !.at = "returned"]>> \o Tail(frames)
  BY <1>2 DEF Reader!ReadPending, Reader!NextPending
<1> DEFINE f == Reader!ReadFrame(p.member, p.path, Reader!NextHeader.type)
           g == [frames[1] EXCEPT !.at = "returned"]
<1>4. f \in Reader!Frame /\ f.what = "read"
  <2>1. p.member \in Reader!Member /\ p.path \in Seq(Nat)
    BY <1>2 DEF Reader!PackedFrames, Reader!PendingMember
  <2> QED
    BY <1>1, <1>2, <2>1, PackedHeader, ReadFrameType
<1>5. g \in Reader!Frame
  BY <1>2 DEF Reader!Frame, Reader!PackedFrames
<1>6. g.what = "packed" /\ PendingFits(g)
  BY <1>2 DEF Reader!PackedFrames, PendingFits
<1>7. frames' = <<f, g>> \o Tail(frames)
  BY <1>3
<1> HIDE DEF f, g
<1> QED
  BY <1>1, <1>4, <1>5, <1>6, <1>7, PackedCalls

\* Its closure has returned.
LEMMA ReadPendingReturnsStep ==
  ASSUME IInv, Reader!ReadPendingReturns
  PROVE  IInv'
<1>1. Reader!PackedAt({"returned"}) /\ OnlyFrames
  BY DEF Reader!ReadPendingReturns, OnlyFrames
<1>2. /\ Reader!Top = frames[1] /\ frames[1] \in Reader!PackedFrames
      /\ frames[1].at = "returned"
      /\ PendingFits(frames[1]) /\ frames[1].what = "packed"
  BY <1>1, PackedPoint
<1> DEFINE pending == frames[1].pending \ Reader!NextPending
           f == [frames[1] EXCEPT !.at = "drain", !.h = @ + 1, !.pending = pending]
<1>3. frames' = <<f>> \o Tail(frames)
  BY <1>2 DEF Reader!ReadPendingReturns, Reader!Become
<1>4. /\ pending \in SUBSET Reader!PendingMember
      /\ pending \subseteq frames[1].pending
  BY <1>2 DEF Reader!PackedFrames
<1> HIDE DEF pending
<1>5. f \in Reader!Frame
  <2>1. frames[1].h + 1 \in Nat \ {0}
    BY <1>2 DEF Reader!PackedFrames
  <2> QED
    BY <1>2, <1>4, <2>1 DEF Reader!Frame, Reader!PackedFrames
<1>6. f.what = "packed" /\ PendingFits(f)
  BY <1>2, <1>4 DEF Reader!PackedFrames, PendingFits
<1> HIDE DEF f
<1> QED
  BY <1>1, <1>3, <1>5, <1>6, PackedGoesOn

\* A header that nobody asks for.
LEMMA PassHeaderStep ==
  ASSUME IInv, Reader!PassHeader
  PROVE  IInv'
<1>1. Reader!PackedAt({"store", "drain"}) /\ OnlyFrames
  BY DEF Reader!PassHeader, OnlyFrames
<1>2. /\ Reader!Top = frames[1] /\ frames[1] \in Reader!PackedFrames
      /\ frames[1].at \in {"store", "drain"}
      /\ PendingFits(frames[1]) /\ frames[1].what = "packed"
  BY <1>1, PackedPoint
<1> DEFINE f == [frames[1] EXCEPT !.h = @ + 1]
<1>3. frames' = <<f>> \o Tail(frames)
  BY <1>2 DEF Reader!PassHeader, Reader!Become
<1>4. f \in Reader!Frame
  <2>1. frames[1].h + 1 \in Nat \ {0}
    BY <1>2 DEF Reader!PackedFrames
  <2>2. f \in Reader!PackedFrames
    BY <1>2, <2>1 DEF Reader!PackedFrames
  <2> QED
    BY <2>2 DEF Reader!Frame
<1>5. f.what = "packed" /\ PendingFits(f)
  BY <1>2 DEF Reader!PackedFrames, PendingFits
<1> HIDE DEF f
<1> QED
  BY <1>1, <1>3, <1>4, <1>5, PackedGoesOn

\* The element ends.
LEMMA ElementReadStep ==
  ASSUME IInv, Reader!ElementRead
  PROVE  IInv'
<1>1. Reader!PackedAt({"store", "drain"}) /\ OnlyFrames
  BY DEF Reader!ElementRead, OnlyFrames
<1>2. /\ Reader!Top = frames[1] /\ frames[1] \in Reader!PackedFrames
      /\ frames[1].what = "packed"
  BY <1>1, PackedPoint
<1> DEFINE f == [frames[1] EXCEPT !.at = "next"]
<1>3. frames' = <<f>> \o Tail(frames)
  BY <1>2 DEF Reader!ElementRead, Reader!Move, Reader!Become
<1>4. f \in Reader!Frame
  BY <1>2 DEF Reader!Frame, Reader!PackedFrames
<1>5. f.what = "packed" /\ PendingFits(f)
  BY <1>2 DEF Reader!PackedFrames, PendingFits
<1> HIDE DEF f
<1> QED
  BY <1>1, <1>3, <1>4, <1>5, PackedGoesOn

-----------------------------------------------------------------------------
\* What becomes of a call of Enter.
Outcomes == {"reading", "done", "InvalidType", "EndOfStream", "NoCleanExit"}

\* The last element of a sequence may be replaced, if there is one.
LEMMA LastReplaced ==
  ASSUME NEW S, NEW s \in Seq(S), NEW e \in S
  PROVE  [s EXCEPT ![Len(s)] = e] \in Seq(S)
<1>1. Len(s) \in Nat
  BY LenProperties
<1>2. CASE Len(s) >= 1
  <2>1. Len(s) \in 1 .. Len(s)
    BY <1>1, <1>2
  <2> QED
    BY <2>1, ExceptSeq
<1>3. CASE Len(s) = 0
  <2>1. s = [x \in DOMAIN s |-> s[x]] /\ DOMAIN s = 1 .. Len(s)
    BY LenProperties
  <2>2. [s EXCEPT ![Len(s)] = e] = s
    BY <1>3, <2>1
  <2> QED
    BY <2>2
<1> QED
  BY <1>1, <1>2, <1>3

\* StoreEntryPoint, with the types of what it changes.
LEMMA StoreEntryPointStep ==
  ASSUME IInv, Reader!StoreEntryPoint
  PROVE  IInv'
<1>1. ReaderTypes /\ Reader!AtPoint("enter")
  BY DEF IInv, Reader!StoreEntryPoint
<1>2. /\ frames # <<>> /\ Reader!Top = frames[1] /\ frames[1] \in Reader!ObjectFrames
  BY <1>1, ObjectPoint DEF Reader!SkipFrames
<1>3. frames' \in Seq(Reader!Frame)
  <2> DEFINE f == [frames[1] EXCEPT !.at = "store"]
  <2>1. f \in Reader!Frame
    BY <1>2 DEF Reader!Frame, Reader!ObjectFrames, Reader!Locations
  <2>2. frames' = <<f>> \o Tail(frames)
    BY <1>2 DEF Reader!StoreEntryPoint, Reader!Move, Reader!Become
  <2> HIDE DEF f
  <2>3. <<f>> \in Seq(Reader!Frame)
    BY <2>1
  <2> QED
    BY <1>1, <1>2, <2>2, <2>3, Replacing
<1>4. mVariableHistory' \in Seq({Null} \cup SUBSET Reader!PendingMember)
  <2>1. <<mCurrentPendingVariables>> \in Seq({Null} \cup SUBSET Reader!PendingMember)
    BY <1>1 DEF ReaderTypes
  <2> QED
    BY <1>1, <2>1, ConcatProperties DEF ReaderTypes, Reader!StoreEntryPoint
<1>5. ReaderTypes'
  <2>1. mCurrentPendingVariables' \in {Null} \cup SUBSET Reader!PendingMember
    BY DEF Reader!StoreEntryPoint
  <2>2. lent' \in Int
    BY <1>1 DEF ReaderTypes, Reader!StoreEntryPoint
  <2> QED
    BY <1>1, <1>3, <1>4, <2>1, <2>2 DEF ReaderTypes, Reader!StoreEntryPoint,
      Reader!streamFlags, Reader!history
<1> QED
  BY <1>5, EntryPoint

\* LeaveObject, with the types of what it changes.
LEMMA LeaveObjectStep ==
  ASSUME IInv, Reader!LeaveObject
  PROVE  IInv'
<1>1. ReaderTypes /\ Reader!AtPoint("found")
  BY DEF IInv, Reader!LeaveObject, Reader!Remaining
<1>2. frames # <<>> /\ ~Entering(frames[1])
  BY <1>1, ObjectPoint DEF Entering
<1>3. mVariableHistory # <<>>
  <2>1. mCleanExit
    BY <1>2, CurrentPending
  <2> QED
    BY <1>2, <2>1 DEF IInv, BottomInv
<1>4. frames' \in Seq(Reader!Frame)
  BY <1>1, <1>2, HeadTailProperties DEF ReaderTypes, Reader!LeaveObject, Reader!Leave
<1>5. /\ mVariableHistory' \in Seq({Null} \cup SUBSET Reader!PendingMember)
      /\ mCurrentPendingVariables' \in {Null} \cup SUBSET Reader!PendingMember
  BY <1>1, <1>3, HeadTailProperties DEF ReaderTypes, Reader!LeaveObject, Reader!PopHistory
<1>6. outcome' \in Seq(Outcomes)
  <2>1. outcome \in Seq(Outcomes) /\ "done" \in Outcomes
    BY <1>1 DEF ReaderTypes, Outcomes
  <2>2. [outcome EXCEPT ![Len(outcome)] = "done"] \in Seq(Outcomes)
    BY <2>1, LastReplaced
  <2> QED
    BY <2>1, <2>2 DEF Reader!LeaveObject
<1>7. lent' \in Int
  BY <1>1 DEF ReaderTypes, Reader!LeaveObject, Reader!Release
<1>8. ReaderTypes'
  BY <1>1, <1>4, <1>5, <1>6, <1>7 DEF ReaderTypes, Outcomes, Reader!LeaveObject,
    Reader!streamFlags
<1> QED
  BY <1>8, Leaving

\* An exception, with the types of what it changes.
LEMMA ThrowStep ==
  ASSUME IInv, frames # <<>>, NEW exception \in {"InvalidType", "EndOfStream", "NoCleanExit"},
         Reader!Throw(exception)
  PROVE  IInv'
<1>1. ReaderTypes /\ outcome \in Seq(Outcomes) /\ exception \in Outcomes
  BY DEF IInv, ReaderTypes, Outcomes
<1>2. outcome' \in Seq(Outcomes)
  BY <1>1, LastReplaced DEF Reader!Throw
<1>3. frames' \in Seq(Reader!Frame) /\ mCleanExit' \in BOOLEAN
  <2>1. <<>> \in Seq(Reader!Frame)
    OBVIOUS
  <2>2. frames' = <<>> /\ mCleanExit' = FALSE
    BY DEF Reader!Throw
  <2> QED
    BY <2>1, <2>2
<1>4. ReaderTypes'
  BY <1>1, <1>2, <1>3 DEF ReaderTypes, Outcomes, Reader!Throw
<1> QED
  BY <1>4, Throwing

\* All three of them.
LEMMA ThrowSteps ==
  ASSUME IInv, Reader!RefuseReuse \/ Reader!RejectType \/ Reader!FillReadBufferFails
  PROVE  IInv'
<1>1. frames # <<>>
  BY DEF Reader!RefuseReuse, Reader!RejectType, Reader!FillReadBufferFails, Reader!AtPoint,
    Reader!WrongType, Reader!Running
<1> QED
  BY <1>1, ThrowStep DEF Reader!RefuseReuse, Reader!RejectType, Reader!FillReadBufferFails

\* Enter, with the types of what it changes.
LEMMA EnterStep ==
  ASSUME IInv, NEW c \in Readable, Reader!Enter(c)
  PROVE  IInv'
<1>1. ReaderTypes /\ outcome \in Seq(Outcomes)
  BY DEF IInv, ReaderTypes, Outcomes
<1>2. outcome' \in Seq(Outcomes) /\ entered' \in Seq(Readable) /\ Len(entered') \in Nat
  <2>1. "reading" \in Outcomes
    BY DEF Outcomes
  <2> QED
    BY <1>1, <2>1, AppendProperties, LenProperties DEF ReaderTypes, Reader!Enter
<1>3. frames' \in Seq(Reader!Frame)
  <2> DEFINE path == <<Len(entered')>>
             f == Reader!ObjectFrame(c, path)
  <2>1. path \in Seq(Nat)
    BY <1>2
  <2>2. Members[c] \in Seq(Reader!Member)
    BY ReaderFormat
  <2> HIDE DEF path
  <2>3. f \in Reader!Frame
    BY <2>1, <2>2 DEF Reader!ObjectFrame, Reader!Frame, Reader!ObjectFrames,
      Reader!Locations, Reader!HeaderTypes
  <2>4. frames' = <<f>>
    BY DEF Reader!Enter, path
  <2> HIDE DEF f
  <2> QED
    BY <2>3, <2>4
<1>4. ReaderTypes'
  BY <1>1, <1>2, <1>3 DEF ReaderTypes, Outcomes, Reader!Enter, Reader!messageVars
<1> QED
  BY <1>4, Entered

\* The destructor, with the types of what it changes.
LEMMA DestroyStep ==
  ASSUME IInv, Reader!Destroy
  PROVE  IInv'
<1>1. ReaderTypes /\ Reader!Held \in Nat
  BY HeldBound DEF IInv
<1>2. lent' \in Int
  BY <1>1 DEF ReaderTypes, Reader!Destroy
<1>3. ReaderTypes'
  BY <1>1, <1>2 DEF ReaderTypes, Reader!Destroy, Reader!streamFlags
<1> QED
  BY <1>3, Destroying

\* Every step of the reader.
LEMMA ReaderStep ==
  ASSUME IInv, Reader!ReaderNext
  PROVE  IInv'
<1>1. CASE Reader!Step
  BY <1>1, ThrowSteps, StoreEntryPointStep, LeaveObjectStep, StoreKeptStep, StoreLaterStep,
    NoHeaderKeptStep, ReadHeaderStep, ReadNowStep, ReadNowReturnsStep, StoreFoundStep,
    StoreOtherStep, RemainingKeptStep, SkipUnknownStep, ReadPrimitiveStep, ReadObjectStep,
    ReadArrayHeaderStep, ReadPrimitiveVectorStep, ReadObjectVectorStep,
    ReadPackedVectorStep, CacheHeadersStep, NextElementStep, LeavePackedVectorStep,
    StoreMissingStep, StoreNextStep, StorePendingStep, ReadPendingStep,
    ReadPendingReturnsStep, PassHeaderStep, ElementReadStep, SkipPrimitiveStep,
    SkipArrayHeaderStep, SkipObjectsStep, LeaveSkippedStep, Zenon DEF Reader!Step
<1> QED
  BY <1>1, EnterStep, DestroyStep DEF Reader!ReaderNext

-----------------------------------------------------------------------------
\* In a message that has failed there is nothing to do but to throw.
LEMMA DeadThrows ==
  ASSUME IInv, ~mCleanExit, Reader!Step
  PROVE  Reader!RefuseReuse \/ Reader!RejectType \/ Reader!FillReadBufferFails
<1>1. ReaderTypes /\ DeadInv
  BY DEF IInv
<1>2. frames # <<>> => Reader!Top.what = "object" /\ Reader!Top.at = "enter"
  BY <1>1, TopType DEF DeadInv, Entering
<1>3. /\ \A what \in {"read", "body", "unknown", "skipArray", "cache", "packed", "skip"} :
           ~Reader!Running(what)
      /\ \A loc \in {"store", "header", "found", "returned"} : ~Reader!AtPoint(loc)
  BY <1>2 DEF Reader!Running, Reader!AtPoint
<1>4. ~Reader!StoreEntryPoint
  BY DEF Reader!StoreEntryPoint, Reader!Usable
<1>5. /\ ~Reader!LeaveObject /\ ~Reader!StoreKept /\ ~Reader!StoreLater
      /\ ~Reader!NoHeaderKept /\ ~Reader!ReadHeader /\ ~Reader!ReadNow
      /\ ~Reader!ReadNowReturns /\ ~Reader!StoreFound /\ ~Reader!StoreOther
      /\ ~Reader!RemainingKept /\ ~Reader!SkipUnknown
  BY <1>3 DEF Reader!LeaveObject, Reader!StoreKept, Reader!StoreLater, Reader!NoHeaderKept,
    Reader!ReadHeader, Reader!ReadNow, Reader!ReadNowReturns, Reader!StoreFound,
    Reader!StoreOther, Reader!RemainingKept, Reader!SkipUnknown, Reader!Remaining,
    Reader!Storing
<1>6. /\ ~Reader!ReadPrimitive /\ ~Reader!ReadObject /\ ~Reader!ReadArrayHeader
      /\ ~Reader!ReadPrimitiveVector /\ ~Reader!ReadObjectVector
      /\ ~Reader!ReadPackedVector /\ ~Reader!SkipPrimitive /\ ~Reader!SkipArrayHeader
      /\ ~Reader!SkipElements /\ ~Reader!SkipObjects /\ ~Reader!LeaveSkipped
  BY <1>3 DEF Reader!ReadPrimitive, Reader!ReadObject, Reader!ReadArrayHeader,
    Reader!ReadPrimitiveVector, Reader!ReadObjectVector, Reader!ReadPackedVector,
    Reader!SkipPrimitive, Reader!SkipArrayHeader, Reader!SkipElements, Reader!SkipObjects,
    Reader!LeaveSkipped
<1>7. /\ ~Reader!CacheHeaders /\ ~Reader!NextElement /\ ~Reader!LeavePackedVector
      /\ ~Reader!StoreMissing /\ ~Reader!StoreNext /\ ~Reader!StorePending
      /\ ~Reader!ReadPending /\ ~Reader!ReadPendingReturns /\ ~Reader!PassHeader
      /\ ~Reader!ElementRead
  BY <1>3 DEF Reader!CacheHeaders, Reader!NextElement, Reader!LeavePackedVector,
    Reader!StoreMissing, Reader!StoreNext, Reader!StorePending, Reader!ReadPending,
    Reader!ReadPendingReturns, Reader!PassHeader, Reader!ElementRead, Reader!PackedAt
<1> QED
  BY <1>4, <1>5, <1>6, <1>7 DEF Reader!Step

\* So neither the stream nor what has been read nor a closure changes.
LEMMA DeadStep ==
  ASSUME IInv, ~mCleanExit, Reader!ReaderNext
  PROVE  UNCHANGED <<pos, result, mCurrentPendingVariables>>
<1>1. CASE Reader!Step
  BY <1>1, DeadThrows DEF Reader!RefuseReuse, Reader!RejectType,
    Reader!FillReadBufferFails, Reader!Throw
<1>2. CASE \E c \in Readable : Reader!Enter(c)
  BY <1>2 DEF Reader!Enter, Reader!messageVars
<1>3. CASE Reader!Destroy
  BY <1>3 DEF Reader!Destroy
<1> QED
  BY <1>1, <1>2, <1>3 DEF Reader!ReaderNext

-----------------------------------------------------------------------------
(***************************************************************************)
(* The writer.                                                             *)
(***************************************************************************)
LEMMA SameFormat ==
  /\ Writer!Token = Reader!Token
  /\ Members \in [Class -> Seq(Writer!Member)]
  /\ Sendable \subseteq Class
<1>1. Writer!Token = Reader!Token
  BY DEF Writer!Token, Reader!Token, Writer!HeaderToken, Reader!HeaderToken,
    Writer!HeaderTypes, Reader!HeaderTypes, Writer!IntegerTypes, Reader!IntegerTypes
<1>2. Writer!Member = Member
  BY DEF Member, Writer!Member, PrimitiveTypes, Writer!PrimitiveTypes, IntegerTypes,
    Writer!IntegerTypes
<1> QED
  BY <1>1, <1>2, FormatAssumption, RoundTripAssumption

\* A call of OnSerialise is one.
LEMMA CallType ==
  ASSUME NEW c \in Class, NEW path \in Seq(Nat), NEW as \in {"object", "value", "inner"}
  PROVE  Writer!Call(c, path, as) \in Writer!Calls
BY SameFormat DEF Writer!Call, Writer!Calls

\* What OnSerialise of the innermost object stores next.
LEMMA MemberStored ==
  ASSUME Writer!TypeOK, calls # <<>>, Head(calls).todo # <<>>
  PROVE  /\ Head(Head(calls).todo) \in Writer!Member
         /\ Append(Head(calls).path, Head(Head(calls).todo).index) \in Seq(Nat)
         /\ Writer!Advanced \in Seq(Writer!Calls)
<1>1. Head(calls) \in Writer!Calls /\ Tail(calls) \in Seq(Writer!Calls)
  BY HeadTailProperties DEF Writer!TypeOK
<1>2. /\ Head(calls).todo \in Seq(Writer!Member) /\ Head(calls).path \in Seq(Nat)
  BY <1>1 DEF Writer!Calls
<1>3. /\ Head(Head(calls).todo) \in Writer!Member
      /\ Tail(Head(calls).todo) \in Seq(Writer!Member)
  BY <1>2, HeadTailProperties
<1>4. Append(Head(calls).path, Head(Head(calls).todo).index) \in Seq(Nat)
  <2>1. Head(Head(calls).todo).index \in 0 .. 27
    BY <1>3 DEF Writer!Member
  <2>2. \A i \in 0 .. 27 : i \in Nat
    OBVIOUS
  <2>3. Head(Head(calls).todo).index \in Nat
    BY <2>1, <2>2, Zenon
  <2> QED
    BY <1>2, <2>3, AppendProperties
<1>5. Writer!Advanced \in Seq(Writer!Calls)
  <2> DEFINE c == [Head(calls) EXCEPT !.todo = Tail(@)]
  <2>1. c \in Writer!Calls
    BY <1>1, <1>3 DEF Writer!Calls
  <2> HIDE DEF c
  <2>2. <<c>> \in Seq(Writer!Calls)
    BY <2>1
  <2>3. <<c>> \o Tail(calls) \in Seq(Writer!Calls)
    BY <1>1, <2>2, ConcatProperties
  <2> QED
    BY <2>3 DEF c, Writer!Advanced
<1> QED
  BY <1>3, <1>4, <1>5

\* What is put in front of a member, and in front of the elements of a vector.
LEMMA HeadersStored ==
  ASSUME NEW m \in Writer!Member
  PROVE  /\ Writer!MemberHeader(m) \in Writer!Token
         /\ Writer!OwnHeader(m) \in Seq(Writer!Token)
         /\ m.type = "Array" => Writer!ArrayHeader(m) \in Seq(Writer!Token)
<1>1. Writer!MemberHeader(m) \in Writer!Token
  BY DEF Writer!MemberHeader, Writer!Header, Writer!GetHeaderEnum, Writer!Member,
    Writer!Token, Writer!HeaderToken, Writer!HeaderTypes, Writer!PrimitiveTypes,
    Writer!IntegerTypes
<1>2. Writer!OwnHeader(m) \in Seq(Writer!Token)
  <2>1. <<Writer!MemberHeader(m)>> \in Seq(Writer!Token) /\ <<>> \in Seq(Writer!Token)
    BY <1>1
  <2> QED
    BY <2>1 DEF Writer!OwnHeader
<1>3. ASSUME m.type = "Array"
      PROVE  Writer!ArrayHeader(m) \in Seq(Writer!Token)
  <2>1. Writer!Header(Writer!Flags(m), Writer!GetHeaderEnum(m.sub)) \in Writer!Token
    BY <1>3 DEF Writer!Header, Writer!Flags, Writer!GetHeaderEnum, Writer!Member,
      Writer!Token, Writer!HeaderToken, Writer!HeaderTypes, Writer!PrimitiveTypes,
      Writer!IntegerTypes
  <2>2. Writer!Size(m.size) \in Writer!Token
    BY DEF Writer!Size, Writer!Member, Writer!Token
  <2> HIDE DEF Writer!Header, Writer!Size
  <2> QED
    BY <2>1, <2>2 DEF Writer!ArrayHeader
<1> QED
  BY <1>1, <1>2, <1>3

\* The calls of OnSerialise for the elements of a vector.
LEMMA ElementsStored ==
  ASSUME NEW m \in Writer!Member, NEW path \in Seq(Nat),
         NEW as \in {"object", "value", "inner"}
  PROVE  Writer!Elements(m, path, as) \in Seq(Writer!Calls)
<1>1. m.size \in Nat /\ m.class \in Class
  BY DEF Writer!Member
<1>2. ASSUME NEW k \in 1 .. m.size
      PROVE  Writer!Call(m.class, Append(path, k), as) \in Writer!Calls
  <2>1. Append(path, k) \in Seq(Nat)
    <3>1. k \in Nat
      BY <1>1
    <3> QED
      BY <3>1, AppendProperties
  <2> QED
    BY <1>1, <2>1, CallType
<1> DEFINE elements == [k \in 1 .. m.size |-> Writer!Call(m.class, Append(path, k), as)]
<1>3. elements \in [1 .. m.size -> Writer!Calls]
  BY <1>2
<1> HIDE DEF elements
<1>4. elements \in Seq(Writer!Calls)
  BY <1>1, <1>3, FunctionIsSeq
<1> QED
  BY <1>4 DEF elements, Writer!Elements

\* Every Store call writes tokens.
LEMMA StoreMemberStep ==
  ASSUME Writer!TypeOK, Writer!StoreMember
  PROVE  Writer!TypeOK'
<1> DEFINE m == Head(Head(calls).todo)
           path == Append(Head(calls).path, m.index)
<1>1. calls # <<>> /\ Head(calls).todo # <<>>
  BY DEF Writer!StoreMember
<1>2. m \in Writer!Member /\ path \in Seq(Nat) /\ Writer!Advanced \in Seq(Writer!Calls)
  BY <1>1, MemberStored
<1>3. \/ Writer!Store(m, path) \/ Writer!StoreVector(m, path)
      \/ Writer!StoreObject(m, path) \/ Writer!StoreObjectVector(m, path)
      \/ Writer!StorePackedVector(m, path) \/ Writer!StoreInnerVector(m, path)
  BY DEF Writer!StoreMember
<1> HIDE DEF m, path
<1>4. /\ Writer!OwnHeader(m) \in Seq(Writer!Token)
      /\ m.type = "Array" => Writer!ArrayHeader(m) \in Seq(Writer!Token)
  BY <1>2, HeadersStored
<1>5. stream \in Seq(Writer!Token) /\ sent \in Seq(Sendable) /\ ends \in Seq(Nat)
  BY DEF Writer!TypeOK
<1>6. ASSUME NEW p \in Seq(Nat) PROVE Writer!Value(p) \in Writer!Token
  BY DEF Writer!Value, Writer!Token
<1>7. ASSUME NEW as \in {"object", "value", "inner"}
      PROVE  Writer!Elements(m, path, as) \o Writer!Advanced \in Seq(Writer!Calls)
  BY <1>2, ElementsStored, ConcatProperties
<1>8. m.type = "Array" =>
        /\ stream \o Writer!OwnHeader(m) \o Writer!ArrayHeader(m) \in Seq(Writer!Token)
        /\ stream \o Writer!ArrayHeader(m) \in Seq(Writer!Token)
  BY <1>4, <1>5, ConcatProperties
<1>9. stream' \in Seq(Writer!Token) /\ calls' \in Seq(Writer!Calls)
  <2>1. CASE Writer!Store(m, path)
    <3>1. <<Writer!Value(path)>> \in Seq(Writer!Token)
      BY <1>2, <1>6
    <3> QED
      BY <1>2, <1>4, <1>5, <2>1, <3>1, ConcatProperties DEF Writer!Store
  <2>2. CASE Writer!StoreVector(m, path)
    <3> DEFINE values == [k \in 1 .. m.size |-> Writer!Value(Append(path, k))]
    <3>1. values \in Seq(Writer!Token)
      <4>1. m.size \in Nat
        BY <1>2 DEF Writer!Member
      <4>2. ASSUME NEW k \in 1 .. m.size PROVE Writer!Value(Append(path, k)) \in Writer!Token
        <5>1. k \in Nat
          BY <4>1
        <5> QED
          BY <1>2, <1>6, <5>1, AppendProperties
      <4> QED
        BY <4>1, <4>2
    <3>2. m.type = "Array"
      BY <2>2 DEF Writer!StoreVector, Writer!IsVector
    <3> HIDE DEF values
    <3>3. stream \o Writer!OwnHeader(m) \o Writer!ArrayHeader(m) \o values \in Seq(Writer!Token)
      BY <1>8, <3>1, <3>2, ConcatProperties
    <3> QED
      BY <1>2, <2>2, <3>3 DEF Writer!StoreVector, values
  <2>3. CASE Writer!StoreObject(m, path)
    <3>1. m.class \in Class
      BY <1>2 DEF Writer!Member
    <3>2. Writer!Call(m.class, path, "object") \in Writer!Calls
      BY <1>2, <3>1, CallType
    <3>3. <<Writer!Call(m.class, path, "object")>> \in Seq(Writer!Calls)
      BY <3>2
    <3>4. <<Writer!Call(m.class, path, "object")>> \o Writer!Advanced \in Seq(Writer!Calls)
      BY <1>2, <3>3, ConcatProperties
    <3> QED
      BY <1>4, <1>5, <2>3, <3>4, ConcatProperties DEF Writer!StoreObject
  <2>4. CASE Writer!StoreObjectVector(m, path)
    BY <1>7, <1>8, <2>4 DEF Writer!StoreObjectVector, Writer!IsObjects
  <2>5. CASE Writer!StorePackedVector(m, path)
    <3> DEFINE todo == Members[m.class]
               headers == [i \in 1 .. Len(todo) |-> Writer!MemberHeader(todo[i])]
    <3>1. headers \in Seq(Writer!Token)
      <4>1. todo \in Seq(Writer!Member)
        BY <1>2, SameFormat DEF Writer!Member
      <4>2. Len(todo) \in Nat
        BY <4>1, LenProperties
      <4>3. ASSUME NEW i \in 1 .. Len(todo) PROVE Writer!MemberHeader(todo[i]) \in Writer!Token
        BY <4>1, ElementOfSeq, HeadersStored
      <4> HIDE DEF todo
      <4> QED
        BY <4>2, <4>3
    <3>2. <<Writer!Terminator>> \in Seq(Writer!Token)
      <4>1. Writer!Terminator \in Writer!Token
        BY DEF Writer!Terminator, Writer!Header, Writer!Token, Writer!HeaderToken,
          Writer!HeaderTypes
      <4> QED
        BY <4>1
    <3>3. m.type = "Array"
      BY <2>5 DEF Writer!StorePackedVector, Writer!IsObjects
    <3>4. /\ stream' = stream \o Writer!OwnHeader(m) \o Writer!ArrayHeader(m) \o headers
                       \o <<Writer!Terminator>>
          /\ calls' = Writer!Elements(m, path, "value") \o Writer!Advanced
      BY <2>5 DEF Writer!StorePackedVector
    <3> HIDE DEF headers
    <3> QED
      BY <1>7, <1>8, <3>1, <3>2, <3>3, <3>4, ConcatProperties
  <2>6. CASE Writer!StoreInnerVector(m, path)
    BY <1>7, <1>8, <2>6, SMTT(30) DEF Writer!StoreInnerVector, Writer!IsObjects
  <2> QED
    BY <1>3, <2>1, <2>2, <2>3, <2>4, <2>5, <2>6
<1>10. UNCHANGED <<sent, ends>>
  BY <1>3 DEF Writer!Store, Writer!StoreVector, Writer!StoreObject,
    Writer!StoreObjectVector, Writer!StorePackedVector, Writer!StoreInnerVector
<1> QED
  BY <1>5, <1>9, <1>10 DEF Writer!TypeOK

\* Every step of the writer does.
LEMMA WriterStep ==
  ASSUME Writer!TypeOK, Writer!Next
  PROVE  Writer!TypeOK'
<1>1. ASSUME NEW c \in Sendable, Writer!StoreEntryPoint(c)
      PROVE  Writer!TypeOK'
  <2>1. sent' \in Seq(Sendable) /\ Len(sent') \in Nat
    BY <1>1, AppendProperties, LenProperties DEF Writer!TypeOK, Writer!StoreEntryPoint
  <2>2. PICK path \in Seq(Nat) : path = <<Len(sent')>>
    <3>1. PICK n \in Nat : n = Len(sent')
      BY <2>1
    <3>2. <<n>> \in Seq(Nat) /\ <<n>> = <<Len(sent')>>
      BY <3>1
    <3> QED
      BY <3>2
  <2>3. Writer!Call(c, path, "object") \in Writer!Calls
    BY SameFormat, CallType
  <2>4. <<Writer!Call(c, path, "object")>> \in Seq(Writer!Calls)
    BY <2>3
  <2> QED
    BY <1>1, <2>1, <2>2, <2>4 DEF Writer!TypeOK, Writer!StoreEntryPoint
<1>2. CASE Writer!Return
  <2>1. Writer!Terminator \in Writer!Token
    BY DEF Writer!Terminator, Writer!Header, Writer!Token, Writer!HeaderToken,
      Writer!HeaderTypes
  <2>2. stream' \in Seq(Writer!Token)
    BY <1>2, <2>1, AppendProperties DEF Writer!TypeOK, Writer!Return
  <2>3. calls' \in Seq(Writer!Calls)
    BY <1>2, HeadTailProperties DEF Writer!TypeOK, Writer!Return
  <2>4. ends' \in Seq(Nat)
    BY <1>2, <2>2, AppendProperties, LenProperties DEF Writer!TypeOK, Writer!Return
  <2> QED
    BY <1>2, <2>2, <2>3, <2>4 DEF Writer!TypeOK, Writer!Return
<1> QED
  BY <1>1, <1>2, StoreMemberStep DEF Writer!Next

-----------------------------------------------------------------------------
(***************************************************************************)
(* Both ends of the stream.                                                *)
(***************************************************************************)
PhaseInv == phase \in {"write", "read"} /\ Writer!TypeOK

\* The invariant holds at first.
LEMMA InitHolds == Init => PhaseInv /\ IInv
<1> SUFFICES ASSUME Init
             PROVE  PhaseInv /\ IInv
  OBVIOUS
<1>1. PhaseInv
  BY DEF Init, PhaseInv, Writer!Init, Writer!TypeOK
<1>2. ReaderTypes
  <2>1. /\ <<>> \in Seq(Reader!Token) /\ <<>> \in Seq(Reader!Frame)
        /\ <<>> \in Seq({Null} \cup SUBSET Reader!PendingMember)
        /\ <<>> \in Seq(Readable)
        /\ <<>> \in Seq({"reading", "done", "InvalidType", "EndOfStream", "NoCleanExit"})
    OBVIOUS
  <2>2. "Terminator" \in Reader!HeaderTypes
    BY DEF Reader!HeaderTypes
  <2>3. stream = <<>> /\ Reader!ReaderInit
    BY DEF Init, Writer!Init
  <2>4. /\ stream \in Seq(Reader!Token) /\ frames \in Seq(Reader!Frame)
        /\ mVariableHistory \in Seq({Null} \cup SUBSET Reader!PendingMember)
        /\ entered \in Seq(Readable) /\ outcome \in Seq(Outcomes)
    BY <2>1, <2>3, Zenon DEF Reader!ReaderInit, Outcomes
  <2>5. /\ mCurrentIndexPending \in BOOLEAN /\ mObjectSkipping \in BOOLEAN
        /\ mCleanExit \in BOOLEAN /\ alive \in BOOLEAN
        /\ mCurrentPendingVariables \in {Null} \cup SUBSET Reader!PendingMember
        /\ mCurrentType \in Reader!HeaderTypes
        /\ result \subseteq Seq(Nat) \X Seq(Nat)
    BY <2>2, <2>3, Zenon DEF Reader!ReaderInit
  <2>6. pos \in Nat \ {0} /\ mCurrentIndex \in 0 .. 27 /\ lent \in Int
    <3>1. pos = 1 /\ mCurrentIndex = 0 /\ lent = 0
      BY <2>3, Zenon DEF Reader!ReaderInit
    <3> QED
      BY <3>1
  <2> QED
    BY <2>4, <2>5, <2>6 DEF ReaderTypes, Outcomes
<1>3. /\ frames = <<>> /\ mVariableHistory = <<>> /\ mCurrentPendingVariables = Null
      /\ lent = 0 /\ mCleanExit = TRUE /\ alive = TRUE
      /\ mObjectSkipping = FALSE /\ mCurrentIndexPending = FALSE
  BY DEF Init, Reader!ReaderInit
<1>4. SavedInv
  BY <1>3, Fronted DEF SavedInv, Saved, ReaderTypes
<1>5. Depth(Len(frames)) = 0 /\ PackedDepth(Len(frames)) = 0
  <2>1. /\ {i \in 1 .. Len(frames) : IsEntered(frames[i])} = {}
        /\ {i \in 1 .. Len(frames) : IsPackedFrame(frames[i])} = {}
    BY <1>3
  <2> QED
    BY <2>1, FS_EmptySet DEF Depth, PackedDepth
<1>6. ClosuresLive
  BY <1>3, <1>5 DEF ClosuresLive
<1>7. /\ LentInv /\ DeadInv /\ SkippingInv /\ KeptInv /\ BottomInv /\ CleanWhenIdle
  BY <1>3 DEF LentInv, DeadInv, SkippingInv, KeptInv, BottomInv, CleanWhenIdle
<1> QED
  BY <1>1, <1>2, <1>4, <1>6, <1>7 DEF IInv

\* Every step of either end preserves it.
LEMMA NextHolds == PhaseInv /\ IInv /\ [Next]_vars => PhaseInv' /\ IInv'
<1> SUFFICES ASSUME PhaseInv, IInv, [Next]_vars
             PROVE  PhaseInv' /\ IInv'
  OBVIOUS
<1>1. CASE Write
  <2>1. Writer!TypeOK' /\ UNCHANGED <<phase, readerVars>>
    BY <1>1, WriterStep DEF Write, PhaseInv
  <2>2. stream' \in Seq(Reader!Token)
    BY <2>1, SameFormat DEF Writer!TypeOK
  <2>3. ReaderTypes'
    BY <2>1, <2>2 DEF IInv, ReaderTypes, readerVars
  <2> QED
    BY <2>1, <2>3, Quiet DEF PhaseInv
<1>2. CASE Deliver
  <2>1. stream \in Seq(Writer!Token) /\ Len(stream) \in Nat
    BY LenProperties DEF PhaseInv, Writer!TypeOK
  <2>2. PICK n \in 0 .. Len(stream) : stream' = SubSeq(stream, 1, n)
    BY <1>2, <2>1 DEF Deliver, Arrived
  <2>3. stream' \in Seq(Writer!Token)
    <3>1. n \in Int /\ \A i \in 1 .. n : stream[i] \in Writer!Token
      BY <2>1, ElementOfSeq
    <3> QED
      BY <2>2, <3>1, SubSeqProperties
  <2>4. PhaseInv'
    BY <1>2, <2>3 DEF PhaseInv, Deliver, Writer!TypeOK
  <2>5. ReaderTypes'
    BY <1>2, <2>3, SameFormat DEF IInv, ReaderTypes, Deliver, readerVars
  <2> QED
    BY <1>2, <2>4, <2>5, Quiet DEF Deliver
<1>3. CASE Read
  <2>1. IInv'
    BY <1>3, ReaderStep DEF Read
  <2>2. stream' \in Seq(Writer!Token)
    BY <2>1, SameFormat DEF IInv, ReaderTypes
  <2> QED
    BY <1>3, <2>1, <2>2 DEF Read, PhaseInv, Writer!TypeOK
<1>4. CASE UNCHANGED vars
  <2>1. PhaseInv'
    BY <1>4 DEF vars, PhaseInv, Writer!TypeOK
  <2>2. ReaderTypes' /\ UNCHANGED readerVars
    BY <1>4 DEF vars, readerVars, IInv, ReaderTypes
  <2> QED
    BY <2>1, <2>2, Quiet
<1> QED
  BY <1>1, <1>2, <1>3, <1>4 DEF Next, Finished

-----------------------------------------------------------------------------
(***************************************************************************)
(* The arrays that are back when the message dies.  While a packed vector  *)
(* is read one more has been taken than mVariableHistory knows of          *)
(* (binaryDeserMessage.h:294), so this is about all the other states.      *)
(***************************************************************************)
\* No packed vector is being read.
NoPackedVector == \A i \in 1 .. Len(frames) : ~IsPackedFrame(frames[i])

\* Every array that has been taken is in mVariableHistory, or all are back.
BackInv == IF alive THEN lent = Len(mVariableHistory) ELSE lent = 0

\* Only an exception ends the use of a message.
LEMMA OnlyThrows ==
  ASSUME Reader!Step, mCleanExit, ~mCleanExit'
  PROVE  Reader!RefuseReuse \/ Reader!RejectType \/ Reader!FillReadBufferFails
<1>1. /\ ~Reader!StoreEntryPoint /\ ~Reader!LeaveObject /\ ~Reader!StoreKept
      /\ ~Reader!StoreLater /\ ~Reader!NoHeaderKept /\ ~Reader!ReadHeader
      /\ ~Reader!ReadNow /\ ~Reader!ReadNowReturns /\ ~Reader!StoreFound
      /\ ~Reader!StoreOther /\ ~Reader!RemainingKept /\ ~Reader!SkipUnknown
  BY DEF Reader!StoreEntryPoint, Reader!LeaveObject, Reader!StoreKept, Reader!StoreLater,
    Reader!NoHeaderKept, Reader!ReadHeader, Reader!ReadNow, Reader!ReadNowReturns,
    Reader!StoreFound, Reader!StoreOther, Reader!RemainingKept, Reader!SkipUnknown,
    Reader!messageVars, Reader!streamFlags
<1>2. /\ ~Reader!ReadPrimitive /\ ~Reader!ReadObject /\ ~Reader!ReadArrayHeader
      /\ ~Reader!ReadPrimitiveVector /\ ~Reader!ReadObjectVector
      /\ ~Reader!ReadPackedVector /\ ~Reader!SkipPrimitive /\ ~Reader!SkipArrayHeader
      /\ ~Reader!SkipElements /\ ~Reader!SkipObjects /\ ~Reader!LeaveSkipped
  BY DEF Reader!ReadPrimitive, Reader!ReadObject, Reader!ReadArrayHeader,
    Reader!ReadPrimitiveVector, Reader!ReadObjectVector, Reader!ReadPackedVector,
    Reader!SkipPrimitive, Reader!SkipArrayHeader, Reader!SkipElements, Reader!SkipObjects,
    Reader!LeaveSkipped, Reader!messageVars, Reader!streamFlags
<1>3. /\ ~Reader!CacheHeaders /\ ~Reader!NextElement /\ ~Reader!LeavePackedVector
      /\ ~Reader!StoreMissing /\ ~Reader!StoreNext /\ ~Reader!StorePending
      /\ ~Reader!ReadPending /\ ~Reader!ReadPendingReturns /\ ~Reader!PassHeader
      /\ ~Reader!ElementRead
  BY DEF Reader!CacheHeaders, Reader!NextElement, Reader!LeavePackedVector,
    Reader!StoreMissing, Reader!StoreNext, Reader!StorePending, Reader!ReadPending,
    Reader!ReadPendingReturns, Reader!PassHeader, Reader!ElementRead,
    Reader!messageVars, Reader!streamFlags
<1> QED
  BY <1>1, <1>2, <1>3 DEF Reader!Step

\* The destructor finds the arrays of all the objects that were being read.
LEMMA HeldAll ==
  ASSUME Null \notin SUBSET Reader!PendingMember, ReaderTypes, SavedInv
  PROVE  Len(mVariableHistory) \in Nat /\ Reader!Held = Len(mVariableHistory)
<1> DEFINE h == Len(mVariableHistory)
           H == {k \in 1 .. h : \A j \in 1 .. k : mVariableHistory[j] # Null}
<1>1. h \in Nat
  BY LenProperties DEF ReaderTypes
<1>2. /\ \A k \in 1 .. h : Saved[k] # Null
      /\ Saved[h + 1] = Null /\ Saved[1] = mCurrentPendingVariables
      /\ \A k \in 1 .. h : Saved[k + 1] = mVariableHistory[k]
  <2>1. \A k \in 2 .. h + 1 : Saved[k] = mVariableHistory[k - 1]
    BY Fronted DEF ReaderTypes, Saved
  <2>2. ASSUME NEW k \in 1 .. h PROVE Saved[k + 1] = mVariableHistory[k]
    <3>1. k + 1 \in 2 .. h + 1 /\ (k + 1) - 1 = k
      BY <1>1
    <3> QED
      BY <2>1, <3>1
  <2>3. Saved[1] = mCurrentPendingVariables
    BY Fronted DEF ReaderTypes, Saved
  <2> QED
    BY <2>2, <2>3 DEF SavedInv
<1>3. Reader!Held = Cardinality(H) + IF mCurrentPendingVariables = Null THEN 0 ELSE 1
  BY SameCardinality DEF Reader!Held
<1>4. CASE h = 0
  <2>1. mCurrentPendingVariables = Null /\ H = {}
    BY <1>2, <1>4
  <2> QED
    BY <1>3, <1>4, <2>1, FS_EmptySet
<1>5. CASE h > 0
  <2>1. \A k \in 1 .. (h - 1) : mVariableHistory[k] # Null
    <3> TAKE k \in 1 .. (h - 1)
    <3>1. k \in 1 .. h /\ k + 1 \in 1 .. h
      BY <1>1
    <3> QED
      BY <1>2, <3>1
  <2>2. mVariableHistory[h] = Null
    BY <1>1, <1>2, <1>5
  <2>3. H = 1 .. (h - 1)
    BY <1>1, <1>5, <2>1, <2>2
  <2>4. Cardinality(1 .. (h - 1)) = h - 1
    BY <1>1, <1>5, FS_Interval
  <2>5. mCurrentPendingVariables # Null
    BY <1>1, <1>2, <1>5
  <2> HIDE DEF H
  <2> QED
    BY <1>1, <1>3, <2>3, <2>4, <2>5
<1> QED
  BY <1>1, <1>4, <1>5

\* A usable message has taken one array for each object that is being read.
LEMMA CleanBack ==
  ASSUME ReaderTypes', LentInv', ClosuresLive', CleanWhenIdle', mCleanExit', NoPackedVector'
  PROVE  BackInv'
<1>1. Len(frames') \in Nat /\ Len(mVariableHistory') \in Nat
  BY LenProperties DEF ReaderTypes
<1>2. PackedDepth(Len(frames))' = 0
  <2>1. {i \in 1 .. Len(frames') : IsPackedFrame(frames'[i])} = {}
    BY DEF NoPackedVector, IsPackedFrame
  <2> QED
    BY <2>1, FS_EmptySet DEF PackedDepth, IsPackedFrame
<1>3. lent' = Len(mVariableHistory')
  BY <1>1, <1>2 DEF ClosuresLive
<1>4. ~alive' => Len(mVariableHistory') = 0
  BY EmptySeq DEF LentInv, CleanWhenIdle
<1> QED
  BY <1>3, <1>4 DEF BackInv

\* An exception leaves the arrays to the destructor, which gives them back.
LEMMA DeadBack ==
  ASSUME Null \notin SUBSET Reader!PendingMember, IInv, BackInv, ~mCleanExit',
         Reader!ReaderNext
  PROVE  BackInv'
<1>1. CASE Reader!Step
  <2>1. Reader!RefuseReuse \/ Reader!RejectType \/ Reader!FillReadBufferFails
    BY <1>1, OnlyThrows, DeadThrows
  <2>2. alive' = alive /\ lent' = lent /\ mVariableHistory' = mVariableHistory
    BY <2>1 DEF Reader!RefuseReuse, Reader!RejectType, Reader!FillReadBufferFails, Reader!Throw
  <2> QED
    BY <2>2 DEF BackInv
<1>2. CASE \E c \in Readable : Reader!Enter(c)
  BY <1>2 DEF Reader!Enter, Reader!messageVars, BackInv
<1>3. CASE Reader!Destroy
  <2>1. /\ alive /\ alive' = FALSE /\ mCleanExit' = mCleanExit
        /\ lent' = IF mCleanExit THEN lent ELSE lent - Reader!Held
    BY <1>3 DEF Reader!Destroy, Reader!streamFlags
  <2>2. lent = Len(mVariableHistory)
    BY <2>1 DEF BackInv
  <2>3. Len(mVariableHistory) \in Nat /\ Reader!Held = Len(mVariableHistory)
    BY HeldAll DEF IInv
  <2> QED
    BY <2>1, <2>2, <2>3 DEF BackInv
<1> QED
  BY <1>1, <1>2, <1>3 DEF Reader!ReaderNext

-----------------------------------------------------------------------------
\* The invariant that the theorems below rest on.
THEOREM BinaryInvariant == Spec => [](PhaseInv /\ IInv)
BY InitHolds, NextHolds, PTL DEF Spec

\* All variables keep values of their kinds, whatever the classes, the bounds and
\* the place where the stream ends: in particular the pool is never given an array
\* twice (the count of lent ones stays a natural number).
THEOREM BinaryTypes == Spec => []TypeOK
<1>1. PhaseInv /\ IInv => TypeOK
  <2> SUFFICES ASSUME PhaseInv, IInv
               PROVE  TypeOK
    OBVIOUS
  <2>1. lent \in Nat
    <3>1. Len(mVariableHistory) \in Nat /\ lent \in Int
      BY LenProperties DEF IInv, ReaderTypes
    <3> QED
      BY <3>1 DEF IInv, LentInv
  <2>2. Reader!TypeOK
    BY <2>1 DEF IInv, ReaderTypes, Reader!TypeOK
  <2> QED
    BY <2>2 DEF TypeOK, PhaseInv
<1> QED
  BY <1>1, BinaryInvariant, PTL

\* While a message is usable, the arrays in use are those of the objects being read
\* and of the packed vectors, each with the closures of that very object or element,
\* for classes of any number, size and nesting (StoreEntryPoint of both messages,
\* AddPendingPrimitive).
THEOREM LiveClosures == Spec => []ClosuresLive
<1>1. PhaseInv /\ IInv => ClosuresLive
  BY DEF IInv
<1> QED
  BY <1>1, BinaryInvariant, PTL

\* A message that has returned normally is as good as new: no header kept, no
\* member pending, not skipping (the precondition of reuse that NoCleanExitException
\* stands for, binaryDeserMessage.h:117).
THEOREM CleanMessages == Spec => []CleanWhenIdle
<1>1. PhaseInv /\ IInv => CleanWhenIdle
  BY DEF IInv
<1> QED
  BY <1>1, BinaryInvariant, PTL

\* Nothing is read, and no closure run, through a message that has failed
\* (binaryDeserMessage.h:117).
THEOREM DeadMessages == Spec => DeadAfterFailure
<1>1. PhaseInv /\ IInv /\ [Next]_vars =>
        [~mCleanExit => UNCHANGED <<pos, result, mCurrentPendingVariables>>]_vars
  <2> SUFFICES ASSUME IInv, [Next]_vars, ~mCleanExit
               PROVE  UNCHANGED <<pos, result, mCurrentPendingVariables>>
    OBVIOUS
  <2> QED
    BY DeadStep DEF Next, Write, Deliver, Read, Finished, vars, readerVars
<1> QED
  BY <1>1, BinaryInvariant, PTL DEF Spec, DeadAfterFailure

\* As long as no packed vector is read, every array is back when the message dies,
\* whatever exceptions have ended its calls (the destructor; the assertion at
\* memoryPool.h:81).  nullptr is not a set of closures.
THEOREM ArraysBack ==
  ASSUME Null \notin SUBSET Reader!PendingMember
  PROVE  Spec /\ []NoPackedVector => []ArraysReturned
<1>1. Init => BackInv
  BY DEF Init, Reader!ReaderInit, BackInv
<1>2. /\ IInv /\ IInv' /\ NoPackedVector' /\ BackInv /\ [Next]_vars => BackInv'
  <2> SUFFICES ASSUME IInv, IInv', NoPackedVector', BackInv, [Next]_vars
               PROVE  BackInv'
    OBVIOUS
  <2>1. CASE mCleanExit'
    BY <2>1, CleanBack DEF IInv
  <2>2. CASE ~mCleanExit' /\ Reader!ReaderNext
    BY <2>2, DeadBack
  <2>3. CASE UNCHANGED readerVars
    BY <2>3 DEF readerVars, BackInv
  <2> QED
    BY <2>1, <2>2, <2>3 DEF Next, Write, Deliver, Read, Finished, vars, readerVars
<1>3. BackInv => ArraysReturned
  BY DEF BackInv, ArraysReturned
<1> QED
  BY <1>1, <1>2, <1>3, BinaryInvariant, PTL DEF Spec

-----------------------------------------------------------------------------
(*****************************************************************************)
(* Induction and recursion up to a number.                                 *)
(*****************************************************************************)
\* Below a number that S lacks, the successor would map what S has into itself,
\* one to one, and never to 0.
LEMMA InductionUpto ==
  ASSUME NEW N \in Nat, NEW S, 0 \in S, \A n \in 1 .. N : n - 1 \in S => n \in S
  PROVE  0 .. N \subseteq S
<1> SUFFICES ASSUME NEW n \in 0 .. N, n \notin S PROVE FALSE
  OBVIOUS
<1> DEFINE B == (0 .. n) \cap S
           f == [x \in B |-> x + 1]
<1>1. IsFiniteSet(B)
  <2>1. B \in SUBSET (0 .. n)
    OBVIOUS
  <2>2. IsFiniteSet(0 .. n)
    BY FS_Interval
  <2> QED BY <2>1, <2>2, FS_Subset
<1>2. f \in Injection(B, B \ {0})
  <2>1. \A x \in B : x + 1 \in 1 .. N /\ (x + 1) - 1 = x /\ x \in 0 .. n /\ x \in S /\ x # n
    OBVIOUS
  <2>2. \A x \in B : x + 1 \in B \ {0}
    <3>1. \A x \in B : x + 1 \in S /\ x + 1 \in 0 .. n /\ x + 1 # 0
      BY <2>1
    <3> QED BY <3>1
  <2>3. \A x, y \in B : x + 1 = y + 1 => x = y
    BY <2>1
  <2> HIDE DEF B
  <2>4. f \in [B -> B \ {0}]
    BY <2>2
  <2> QED BY <2>3, <2>4 DEF Injection, IsInjective
<1>3. 0 \in B
  OBVIOUS
<1> HIDE DEF B, f
<1>4. IsFiniteSet(B \ {0}) /\ Cardinality(B \ {0}) = Cardinality(B) - 1
  BY <1>1, <1>3, FS_RemoveElement
<1>5. Cardinality(B) <= Cardinality(B \ {0})
  BY <1>2, <1>4, FS_Injection
<1> QED BY <1>1, <1>4, <1>5, FS_CardinalityType

RecursiveUpto(N, f, a, G) == f[0] = a /\ \A n \in 1 .. N : f[n] = G[<<n, f[n - 1]>>]

\* There is a function that G takes from each number to the next.
LEMMA RecursionUpto ==
  ASSUME NEW N \in Nat, NEW V, NEW a \in V, NEW G \in [(1 .. N) \X V -> V]
  PROVE  \E f \in [0 .. N -> V] : RecursiveUpto(N, f, a, G)
<1> DEFINE S == {n \in 0 .. N : \E f \in [0 .. n -> V] : RecursiveUpto(n, f, a, G)}
<1>1. 0 \in S
  <2> DEFINE f == [i \in 0 .. 0 |-> a]
  <2>1. f \in [0 .. 0 -> V] /\ RecursiveUpto(0, f, a, G)
    BY DEF RecursiveUpto
  <2> HIDE DEF f
  <2>2. 0 \in 0 .. N
    OBVIOUS
  <2> QED BY <2>1, <2>2
<1>2. ASSUME NEW n \in 1 .. N, n - 1 \in S PROVE n \in S
  <2>1. PICK f \in [0 .. (n - 1) -> V] : RecursiveUpto(n - 1, f, a, G)
    BY <1>2
  <2> DEFINE g == [i \in 0 .. n |-> IF i = n THEN G[<<n, f[n - 1]>>] ELSE f[i]]
  <2>2. f[n - 1] \in V /\ G[<<n, f[n - 1]>>] \in V
    OBVIOUS
  <2>3. \A i \in 0 .. n : i = n \/ i \in 0 .. (n - 1)
    OBVIOUS
  <2>4. g \in [0 .. n -> V]
    BY <2>2, <2>3
  <2>5. g[n] = G[<<n, f[n - 1]>>] /\ \A i \in 0 .. (n - 1) : g[i] = f[i]
    OBVIOUS
  <2> HIDE DEF g
  <2>6. \A i \in 1 .. n : g[i] = G[<<i, g[i - 1]>>]
    <3> TAKE i \in 1 .. n
    <3>1. i - 1 \in 0 .. (n - 1)
      OBVIOUS
    <3>2. CASE i = n
      BY <2>5, <3>1, <3>2
    <3>3. CASE i # n
      <4>1. i \in 1 .. (n - 1) /\ i \in 0 .. (n - 1)
        BY <3>3
      <4>2. f[i] = G[<<i, f[i - 1]>>]
        BY <2>1, <4>1 DEF RecursiveUpto
      <4> QED BY <2>5, <3>1, <4>1, <4>2
    <3> QED BY <3>2, <3>3
  <2>7. g[0] = a
    BY <2>1, <2>5 DEF RecursiveUpto
  <2> QED BY <2>4, <2>6, <2>7 DEF RecursiveUpto
<1>3. 0 .. N \subseteq S
  <2> HIDE DEF S
  <2> QED BY <1>1, <1>2, InductionUpto
<1> QED BY <1>3

-----------------------------------------------------------------------------
(*****************************************************************************)
(* Members of classes.                                                     *)
(*****************************************************************************)
\* A member of a class, and what it refers to.
LEMMA MemberTypes ==
  ASSUME NEW c \in Class, NEW m \in MembersOf(c)
  PROVE  /\ m \in Member /\ m.class \in Class /\ m.size \in Nat /\ m.index \in Nat
         /\ m.index \in 0 .. 27 /\ m.packed \in BOOLEAN
<1>1. PICK i \in 1 .. Len(Members[c]) : m = Members[c][i]
  BY DEF MembersOf
<1>2. Members[c] \in Seq(Member)
  BY FormatAssumption
<1>3. m \in Member
  BY <1>1, <1>2, ElementOfSeq
<1>4. \A j \in 0 .. 27 : j \in Nat
  OBVIOUS
<1>5. m.index \in 0 .. 27 /\ m.class \in Class /\ m.size \in Nat /\ m.packed \in BOOLEAN
  BY <1>3 DEF Member
<1> QED
  BY <1>3, <1>4, <1>5, Zenon

Descends(N, f, a, G) == f[0] = a /\ \A d \in 1 .. N : f[d] = G[f[d - 1]]

\* There is a function that is defined by recursion down to 0, and it has its
\* values in V.
LEMMA RecursionChosen ==
  ASSUME NEW N \in Nat, NEW V, NEW a \in V, NEW G \in [V -> V]
  PROVE  \E f \in [0 .. N -> V] : Descends(N, f, a, G)
<1> DEFINE H == [p \in (1 .. N) \X V |-> G[p[2]]]
<1>1. H \in [(1 .. N) \X V -> V]
  OBVIOUS
<1>2. PICK f \in [0 .. N -> V] : RecursiveUpto(N, f, a, H)
  <2> HIDE DEF H
  <2> QED BY <1>1, RecursionUpto
<1>3. ASSUME NEW n \in 1 .. N PROVE f[n] = G[f[n - 1]]
  <2>1. n - 1 \in 0 .. N
    OBVIOUS
  <2>2. f[n - 1] \in V /\ f[n] = H[<<n, f[n - 1]>>]
    BY <1>2, <2>1 DEF RecursiveUpto
  <2> QED BY <2>2
<1>5. f[0] = a
  BY <1>2 DEF RecursiveUpto
<1> QED BY <1>2, <1>3, <1>5 DEF Descends

\* Each level of a recursive definition is of the kind that its step keeps.
LEMMA RecursionTypes ==
  ASSUME NEW N \in Nat, NEW V, NEW f, f[0] \in V,
         \A d \in 1 .. N : f[d - 1] \in V => f[d] \in V
  PROVE  \A d \in 0 .. N : f[d] \in V
<1> DEFINE S == {d \in 0 .. N : f[d] \in V}
<1>1. 0 \in S
  OBVIOUS
<1>2. \A d \in 1 .. N : d - 1 \in S => d \in S
  OBVIOUS
<1>3. 0 .. N \subseteq S
  <2> HIDE DEF S
  <2> QED BY <1>1, <1>2, InductionUpto
<1> QED BY <1>3

-----------------------------------------------------------------------------
(***************************************************************************)
(* The recursive definitions, one level at a time.                         *)
(***************************************************************************)
\* The levels of NestedTo.
LEMMA NestedLevels ==
  /\ NestedTo[0] = {}
  /\ \A d \in 1 .. MaxDepth : NestedTo[d] =
       {c \in Class : \A m \in MembersOf(c) :
          IsObject(m) \/ (IsObjects(m) /\ m.size > 0) => m.class \in NestedTo[d - 1]}
<1> DEFINE Step(v) == {c \in Class : \A m \in MembersOf(c) :
                         IsObject(m) \/ (IsObjects(m) /\ m.size > 0) => m.class \in v}
           V == SUBSET Class
           G == [v \in V |-> Step(v)]
<1>1. MaxDepth \in Nat
  BY DepthAssumption
<1>2. {} \in V /\ G \in [V -> V]
  <2>1. \A v \in V : Step(v) \in V
    OBVIOUS
  <2>2. {} \in V
    OBVIOUS
  <2> HIDE DEF Step, V
  <2> QED BY <2>1, <2>2
<1>3. PICK f \in [0 .. MaxDepth -> V] : Descends(MaxDepth, f, {}, G)
  <2> HIDE DEF G, V
  <2> QED BY <1>1, <1>2, RecursionChosen
<1>4. f = [d \in 0 .. MaxDepth |-> IF d = 0 THEN {} ELSE Step(f[d - 1])]
  <2>1. \A d \in 0 .. MaxDepth : d = 0 \/ (d \in 1 .. MaxDepth /\ d - 1 \in 0 .. MaxDepth)
    BY <1>1
  <2> HIDE DEF Step
  <2>2. \A v \in V : G[v] = Step(v)
    OBVIOUS
  <2> HIDE DEF V, G
  <2> QED BY <1>3, <2>1, <2>2 DEF Descends
<1>5. NestedTo = [d \in 0 .. MaxDepth |-> IF d = 0 THEN {} ELSE Step(NestedTo[d - 1])]
  BY <1>4 DEF NestedTo
<1> HIDE DEF Step
<1>6. 0 \in 0 .. MaxDepth /\ \A d \in 1 .. MaxDepth : d \in 0 .. MaxDepth /\ d # 0
  BY <1>1
<1>7. NestedTo[0] = {} /\ \A d \in 1 .. MaxDepth : NestedTo[d] = Step(NestedTo[d - 1])
  BY <1>5, <1>6
<1> QED BY <1>7 DEF Step

\* The levels of HasPackedTo.
LEMMA PackedLevels ==
  /\ HasPackedTo[0] = [c \in Class |-> FALSE]
  /\ \A d \in 1 .. MaxDepth : HasPackedTo[d] =
       [c \in Class |-> \E m \in MembersOf(c) :
          \/ m.packed
          \/ (IsObject(m) \/ (IsObjects(m) /\ m.size > 0)) /\ HasPackedTo[d - 1][m.class]]
<1> DEFINE Step(v) == [c \in Class |-> \E m \in MembersOf(c) :
              \/ m.packed
              \/ (IsObject(m) \/ (IsObjects(m) /\ m.size > 0)) /\ v[m.class]]
           V == [Class -> BOOLEAN]
           a == [c \in Class |-> FALSE]
           G == [v \in V |-> Step(v)]
<1>1. MaxDepth \in Nat
  BY DepthAssumption
<1>2. a \in V /\ G \in [V -> V]
  <2>1. \A v \in V : Step(v) \in V
    OBVIOUS
  <2>2. a \in V
    OBVIOUS
  <2> HIDE DEF Step, V
  <2> QED BY <2>1, <2>2
<1>3. PICK f \in [0 .. MaxDepth -> V] : Descends(MaxDepth, f, a, G)
  <2> HIDE DEF G, V, a
  <2> QED BY <1>1, <1>2, RecursionChosen
<1>4. f = [d \in 0 .. MaxDepth |-> IF d = 0 THEN a ELSE Step(f[d - 1])]
  <2>1. \A d \in 0 .. MaxDepth : d = 0 \/ (d \in 1 .. MaxDepth /\ d - 1 \in 0 .. MaxDepth)
    BY <1>1
  <2> HIDE DEF Step
  <2>2. \A v \in V : G[v] = Step(v)
    OBVIOUS
  <2> HIDE DEF V, G, a
  <2> QED BY <1>3, <2>1, <2>2 DEF Descends
<1>5. HasPackedTo = [d \in 0 .. MaxDepth |-> IF d = 0 THEN a ELSE Step(HasPackedTo[d - 1])]
  <2> DEFINE Is(F) == F = [d \in 0 .. MaxDepth |-> IF d = 0 THEN a ELSE Step(F[d - 1])]
  <2>1. HasPackedTo = CHOOSE F : Is(F)
    BY Zenon DEF HasPackedTo
  <2>2. Is(f)
    BY <1>4
  <2> HIDE DEF Is
  <2>3. Is(HasPackedTo)
    BY <2>1, <2>2, Zenon
  <2> QED BY <2>3 DEF Is
<1> HIDE DEF Step
<1>6. 0 \in 0 .. MaxDepth /\ \A d \in 1 .. MaxDepth : d \in 0 .. MaxDepth /\ d # 0
  BY <1>1
<1>7. HasPackedTo[0] = a /\ \A d \in 1 .. MaxDepth : HasPackedTo[d] = Step(HasPackedTo[d - 1])
  BY <1>5, <1>6
<1> QED BY <1>7 DEF Step

\* The pairs of members that lead from one pair of classes to another.
Leading(wr) ==
  {b \in Both(wr[1], wr[2]) :
     Fitting(b[1], b[2]) /\ (IsObject(b[2]) \/ (IsObjects(b[2]) /\ b[1].size > 0))}

\* The members that lead on lead to a pair of classes.
LEMMA LeadingTypes ==
  ASSUME NEW wr \in ClassPairs, NEW mn \in Leading(wr)
  PROVE  <<mn[1].class, mn[2].class>> \in ClassPairs
BY MemberTypes DEF Leading, Both, ClassPairs

\* The levels of PairsTo.
LEMMA PairLevels ==
  /\ PairsTo[0] = [wr \in ClassPairs |-> {}]
  /\ \A d \in 1 .. MaxDepth :
       /\ PairsTo[d] =
            [wr \in ClassPairs |->
               {wr} \cup UNION {PairsTo[d - 1][<<mn[1].class, mn[2].class>>] : mn \in Leading(wr)}]
       /\ PairsTo[d] \in [ClassPairs -> SUBSET ClassPairs]
<1> DEFINE Step(v) == [wr \in ClassPairs |->
                         {wr} \cup UNION {v[<<mn[1].class, mn[2].class>>] : mn \in Leading(wr)}]
           V == [ClassPairs -> SUBSET ClassPairs]
           a == [wr \in ClassPairs |-> {}]
           G == [v \in V |-> Step(v)]
<1>1. MaxDepth \in Nat
  BY DepthAssumption
<1>2. a \in V /\ G \in [V -> V]
  <2>1. ASSUME NEW v \in V PROVE Step(v) \in V
    BY LeadingTypes
  <2>2. a \in V
    OBVIOUS
  <2> HIDE DEF Step, V
  <2> QED BY <2>1, <2>2
<1>3. PICK f \in [0 .. MaxDepth -> V] : Descends(MaxDepth, f, a, G)
  <2> HIDE DEF G, V, a
  <2> QED BY <1>1, <1>2, RecursionChosen
<1>4. f = [d \in 0 .. MaxDepth |-> IF d = 0 THEN a ELSE Step(f[d - 1])]
  <2>1. \A d \in 0 .. MaxDepth : d = 0 \/ (d \in 1 .. MaxDepth /\ d - 1 \in 0 .. MaxDepth)
    BY <1>1
  <2> HIDE DEF Step
  <2>2. \A v \in V : G[v] = Step(v)
    OBVIOUS
  <2> HIDE DEF V, G, a
  <2> QED BY <1>3, <2>1, <2>2 DEF Descends
<1>5. PairsTo = [d \in 0 .. MaxDepth |-> IF d = 0 THEN a ELSE Step(PairsTo[d - 1])]
  BY <1>4, ZenonT(40) DEF PairsTo, Leading
<1> HIDE DEF Step
<1>6. 0 \in 0 .. MaxDepth /\ \A d \in 1 .. MaxDepth : d \in 0 .. MaxDepth /\ d # 0
  BY <1>1
<1>7. PairsTo[0] = a /\ \A d \in 1 .. MaxDepth : PairsTo[d] = Step(PairsTo[d - 1])
  BY <1>5, <1>6
<1>8. \A d \in 0 .. MaxDepth : PairsTo[d] \in V
  <2>1. \A d \in 1 .. MaxDepth : PairsTo[d - 1] \in V => PairsTo[d] \in V
    <3>1. \A v \in V : Step(v) \in V
      BY <1>2
    <3> HIDE DEF V, G
    <3> QED BY <1>7, <3>1
  <2> HIDE DEF V, G, a
  <2> QED BY <1>1, <1>2, <1>7, <2>1, RecursionTypes
<1> QED BY <1>6, <1>7, <1>8 DEF Step

\* A member is of one of the four kinds, and of one only.
LEMMA MemberKinds ==
  ASSUME NEW n \in Member
  PROVE  /\ IsPrimitive(n) \/ IsVector(n) \/ IsObject(n) \/ IsObjects(n)
         /\ IsPrimitive(n) => ~IsVector(n) /\ ~IsObject(n) /\ ~IsObjects(n)
         /\ IsVector(n) => ~IsObject(n) /\ ~IsObjects(n)
         /\ IsObject(n) => ~IsObjects(n)
BY DEF Member, IsPrimitive, IsVector, IsObject, IsObjects, PrimitiveTypes, IntegerTypes

\* Paths that are taken apart or put together.
LEMMA AppendThen ==
  ASSUME NEW i \in Nat, NEW p \in Seq(Nat), NEW q \in Seq(Nat)
  PROVE  /\ Append(p, i) \o q = p \o (<<i>> \o q)
         /\ <<i>> \o q \in Seq(Nat) /\ Append(p, i) \in Seq(Nat) /\ p \o q \in Seq(Nat)
         /\ <<i>> \in Seq(Nat) /\ p \o <<i>> = Append(p, i)
OBVIOUS

\* The path of an element of a vector.
LEMMA TwoIndices ==
  ASSUME NEW i \in Nat, NEW k \in Nat
  PROVE  <<i, k>> = Append(<<i>>, k) /\ <<i>> \in Seq(Nat) /\ <<i, k>> \in Seq(Nat)
OBVIOUS

\* What follows the path of an element.
LEMMA TwoThen ==
  ASSUME NEW i \in Nat, NEW k \in Nat, NEW p \in Seq(Nat), NEW q \in Seq(Nat)
  PROVE  /\ <<i, k>> \o q = <<i>> \o (<<k>> \o q) /\ <<i, k>> \o q \in Seq(Nat)
         /\ p \o (<<i, k>> \o q) = Append(Append(p, i), k) \o q
         /\ p \o <<i, k>> = Append(Append(p, i), k)
<1>1. <<i, k>> = Append(<<i>>, k) /\ <<i>> \in Seq(Nat)
  BY TwoIndices
<1>2. /\ Append(<<i>>, k) \o q = <<i>> \o (<<k>> \o q)
      /\ <<k>> \o q \in Seq(Nat) /\ <<i>> \o (<<k>> \o q) \in Seq(Nat)
      /\ Append(<<i>>, k) = <<i>> \o <<k>> /\ <<k>> \in Seq(Nat)
  <2>1. \A a \in Seq(Nat) : Append(a, k) \o q = a \o (<<k>> \o q) /\ a \o <<k>> = Append(a, k)
    BY AppendThen
  <2>2. <<k>> \o q \in Seq(Nat) /\ <<k>> \in Seq(Nat)
    BY AppendThen
  <2>3. <<i>> \o (<<k>> \o q) \in Seq(Nat)
    BY <2>2, AppendThen
  <2> QED
    BY <1>1, <2>1, <2>2, <2>3, Zenon
<1>3. \A r \in Seq(Nat) : Append(p, i) \o r = p \o (<<i>> \o r)
  BY AppendThen
<1>4. /\ Append(p, i) \in Seq(Nat)
      /\ \A a \in Seq(Nat) : Append(a, k) \o q = a \o (<<k>> \o q) /\ a \o <<k>> = Append(a, k)
  BY AppendThen
<1> QED
  BY <1>1, <1>2, <1>3, <1>4, Zenon

\* Where the values of a member start is a set of paths.
LEMMA StartTypes ==
  ASSUME NEW w \in Class, NEW r \in Class, NEW m \in MembersOf(w), NEW n \in MembersOf(r)
  PROVE  Starts(m, n) \in SUBSET Seq(Nat)
<1>1. n.index \in Nat /\ m.size \in Nat
  BY MemberTypes
<1>2. \A k \in 1 .. m.size : <<n.index, k>> \in Seq(Nat)
  BY <1>1
<1>3. <<n.index>> \in Seq(Nat)
  BY <1>1
<1> QED
  BY <1>2, <1>3 DEF Starts

\* Paths joined to paths are paths.
LEMMA JoinedTypes ==
  ASSUME NEW S \in SUBSET Seq(Nat), NEW P \in SUBSET Seq(Nat)
  PROVE  Joined(S, P) \in SUBSET Seq(Nat)
<1>1. \A s \in S, p \in P : s \o p \in Seq(Nat)
  BY AppendThen
<1>2. ASSUME NEW x \in Joined(S, P) PROVE x \in Seq(Nat)
  <2>1. \E s \in S, p \in P : x = s \o p
    BY <1>2 DEF Joined
  <2> QED
    BY <1>1, <2>1, Zenon
<1> QED
  BY <1>2

\* The values of a member have paths.
LEMMA BelowTypes ==
  ASSUME NEW w \in Class, NEW r \in Class, NEW m \in MembersOf(w), NEW n \in MembersOf(r),
         NEW v \in [ClassPairs -> SUBSET Seq(Nat)]
  PROVE  Below(m, n, v) \in SUBSET Seq(Nat)
<1>1. <<m.class, n.class>> \in ClassPairs
  BY MemberTypes DEF ClassPairs
<1>2. v[<<m.class, n.class>>] \in SUBSET Seq(Nat)
  BY <1>1
<1> QED
  BY <1>2, StartTypes, JoinedTypes DEF Below

\* The levels of CommonTo.
LEMMA CommonLevels ==
  /\ CommonTo[0] = [wr \in ClassPairs |-> {}]
  /\ \A d \in 1 .. MaxDepth :
       CommonTo[d] =
         [wr \in ClassPairs |->
            UNION {Below(mn[1], mn[2], CommonTo[d - 1]) :
                     mn \in {b \in Both(wr[1], wr[2]) : Fitting(b[1], b[2])}}]
  /\ \A d \in 0 .. MaxDepth : CommonTo[d] \in [ClassPairs -> SUBSET Seq(Nat)]
<1> DEFINE Step(v) == [wr \in ClassPairs |->
              UNION {Below(mn[1], mn[2], v) :
                       mn \in {b \in Both(wr[1], wr[2]) : Fitting(b[1], b[2])}}]
           V == [ClassPairs -> SUBSET Seq(Nat)]
           a == [wr \in ClassPairs |-> {}]
           G == [v \in V |-> Step(v)]
<1>1. MaxDepth \in Nat
  BY DepthAssumption
<1>2. a \in V /\ G \in [V -> V]
  <2>1. ASSUME NEW v \in V PROVE Step(v) \in V
    <3>1. ASSUME NEW wr \in ClassPairs,
                 NEW mn \in {b \in Both(wr[1], wr[2]) : Fitting(b[1], b[2])}
          PROVE  Below(mn[1], mn[2], v) \in SUBSET Seq(Nat)
      <4>1. /\ wr[1] \in Class /\ wr[2] \in Class
            /\ mn[1] \in MembersOf(wr[1]) /\ mn[2] \in MembersOf(wr[2])
        BY DEF Both, ClassPairs
      <4> QED BY <4>1, BelowTypes
    <3> QED BY <3>1
  <2>2. a \in V
    OBVIOUS
  <2> HIDE DEF Step, V
  <2> QED BY <2>1, <2>2
<1>3. PICK f \in [0 .. MaxDepth -> V] : Descends(MaxDepth, f, a, G)
  <2> HIDE DEF G, V, a
  <2> QED BY <1>1, <1>2, RecursionChosen
<1>4. f = [d \in 0 .. MaxDepth |-> IF d = 0 THEN a ELSE Step(f[d - 1])]
  <2>1. \A d \in 0 .. MaxDepth : d = 0 \/ (d \in 1 .. MaxDepth /\ d - 1 \in 0 .. MaxDepth)
    BY <1>1
  <2> HIDE DEF Step
  <2>2. \A v \in V : G[v] = Step(v)
    OBVIOUS
  <2> HIDE DEF V, G, a
  <2> QED BY <1>3, <2>1, <2>2 DEF Descends
<1>5. CommonTo = [d \in 0 .. MaxDepth |-> IF d = 0 THEN a ELSE Step(CommonTo[d - 1])]
  BY <1>4, ZenonT(40) DEF CommonTo
<1> HIDE DEF Step
<1>6. 0 \in 0 .. MaxDepth /\ \A d \in 1 .. MaxDepth : d \in 0 .. MaxDepth /\ d # 0
  BY <1>1
<1>7. CommonTo[0] = a /\ \A d \in 1 .. MaxDepth : CommonTo[d] = Step(CommonTo[d - 1])
  BY <1>5, <1>6
<1>8. \A d \in 0 .. MaxDepth : CommonTo[d] \in V
  <2>1. \A d \in 1 .. MaxDepth : CommonTo[d - 1] \in V => CommonTo[d] \in V
    <3>1. \A v \in V : Step(v) \in V
      BY <1>2
    <3> HIDE DEF V, G
    <3> QED BY <1>7, <3>1
  <2> HIDE DEF V, G, a
  <2> QED BY <1>1, <1>2, <1>7, <2>1, RecursionTypes
<1> QED BY <1>7, <1>8 DEF Step

\* What S says of the members of N[d], it says through those of N[d - 1].
Layered(D, N, S) ==
  /\ N[0] = {}
  /\ \A d \in 1 .. D, a \in 1 .. D, b \in 1 .. D : \A x \in N[d] :
       (\A y \in N[d - 1] : S[a - 1][y] = S[b - 1][y]) => S[a][x] = S[b][x]

\* What is defined level by level no longer changes at the highest level, if
\* nothing is missing there.
LEMMA Settles ==
  ASSUME NEW D \in Nat, NEW N, NEW S, Layered(D, N, S), NEW x \in N[D]
  PROVE  D \in 1 .. D /\ \A y \in N[D - 1] : S[D - 1][y] = S[D][y]
<1> DEFINE T == {d \in 0 .. D : \A e \in d .. D : \A u \in N[d] : S[e][u] = S[D][u]}
<1>1. 0 \in T
  BY DEF Layered
<1>2. ASSUME NEW d \in 1 .. D, d - 1 \in T PROVE d \in T
  <2>1. ASSUME NEW e \in d .. D, NEW u \in N[d] PROVE S[e][u] = S[D][u]
    <3>1. e \in 1 .. D /\ D \in 1 .. D /\ e - 1 \in (d - 1) .. D /\ D - 1 \in (d - 1) .. D
      OBVIOUS
    <3>2. \A y \in N[d - 1] : S[e - 1][y] = S[D][y] /\ S[D - 1][y] = S[D][y]
      BY <1>2, <3>1
    <3> QED BY <3>1, <3>2 DEF Layered
  <2> QED BY <2>1
<1>3. 0 .. D \subseteq T
  <2> HIDE DEF T
  <2> QED BY <1>1, <1>2, InductionUpto
<1>4. D \in 1 .. D
  BY DEF Layered
<1>5. D - 1 \in 0 .. D /\ D - 1 \in (D - 1) .. D
  BY <1>4
<1> QED BY <1>3, <1>4, <1>5

\* The pairs of classes of which the objects of the first nest less than d deep.
NestedPairs == [d \in 0 .. MaxDepth |-> NestedTo[d] \X Class]

\* Pairs of classes are nested no deeper than their writers are.
LEMMA NestedPairsEnd ==
  /\ MaxDepth \in Nat /\ NestedPairs[0] = {} /\ NestedPairs[MaxDepth] = ClassPairs
  /\ \A d \in 1 .. MaxDepth : \A wr \in NestedPairs[d] :
       /\ wr \in ClassPairs
       /\ \A m \in MembersOf(wr[1]) : \A n \in MembersOf(wr[2]) :
            IsObject(m) \/ (IsObjects(m) /\ m.size > 0) =>
              <<m.class, n.class>> \in NestedPairs[d - 1]
<1>1. MaxDepth \in Nat /\ NestedTo[MaxDepth] = Class /\ NestedTo[0] = {}
  BY DepthAssumption, NestedLevels
<1>2. 0 \in 0 .. MaxDepth /\ MaxDepth \in 0 .. MaxDepth
  BY <1>1
<1>3. ASSUME NEW d \in 1 .. MaxDepth, NEW wr \in NestedPairs[d]
      PROVE  /\ wr \in ClassPairs
             /\ \A m \in MembersOf(wr[1]) : \A n \in MembersOf(wr[2]) :
                  IsObject(m) \/ (IsObjects(m) /\ m.size > 0) =>
                    <<m.class, n.class>> \in NestedPairs[d - 1]
  <2>1. d \in 0 .. MaxDepth /\ d - 1 \in 0 .. MaxDepth
    BY <1>1
  <2>2. wr \in NestedTo[d] \X Class
    BY <2>1 DEF NestedPairs
  <2>3. NestedTo[d] =
          {c \in Class : \A m \in MembersOf(c) :
             IsObject(m) \/ (IsObjects(m) /\ m.size > 0) => m.class \in NestedTo[d - 1]}
    BY NestedLevels
  <2>4. wr \in ClassPairs /\ wr[1] \in Class /\ wr[2] \in Class /\ wr[1] \in NestedTo[d]
    BY <2>2, <2>3 DEF ClassPairs
  <2>5. ASSUME NEW m \in MembersOf(wr[1]), NEW n \in MembersOf(wr[2]),
               IsObject(m) \/ (IsObjects(m) /\ m.size > 0)
        PROVE  <<m.class, n.class>> \in NestedPairs[d - 1]
    <3>1. m.class \in NestedTo[d - 1]
      BY <2>3, <2>4, <2>5
    <3>2. n.class \in Class
      BY <2>4, MemberTypes
    <3> QED
      BY <2>1, <3>1, <3>2 DEF NestedPairs
  <2> QED
    BY <2>4, <2>5
<1> QED
  BY <1>1, <1>2, <1>3 DEF NestedPairs, ClassPairs

\* Only what is of one kind fits.
LEMMA FittingKinds ==
  ASSUME NEW m \in Member, NEW n \in Member, Fitting(m, n)
  PROVE  /\ IsObject(n) <=> IsObject(m)
         /\ IsObjects(n) <=> IsObjects(m)
         /\ IsVector(n) <=> IsVector(m)
         /\ IsPrimitive(n) <=> IsPrimitive(m)
<1>1. m.type \in Numbers => n.type \in Numbers
  BY DEF Fitting
<1>2. m.type \notin Numbers => m.type = n.type
  BY DEF Fitting
<1>3. m.type = "Array" => m.sub = n.sub \/ {m.sub, n.sub} \in SameOnTheWire
  BY DEF Fitting, Numbers
<1>4. m.type = "Array" => (m.sub = "Object" <=> n.sub = "Object")
  BY <1>3 DEF SameOnTheWire
<1> QED
  BY <1>1, <1>2, <1>4 DEF IsObject, IsObjects, IsVector, IsPrimitive, Numbers, PrimitiveTypes,
    IntegerTypes

\* A level below the deepest changes nothing: Pairs is the fixed point.
LEMMA PairsFixed ==
  /\ Pairs \in [ClassPairs -> SUBSET ClassPairs]
  /\ \A wr \in ClassPairs :
       Pairs[wr] = {wr} \cup UNION {Pairs[<<mn[1].class, mn[2].class>>] : mn \in Leading(wr)}
<1>1. MaxDepth \in Nat /\ NestedPairs[MaxDepth] = ClassPairs /\ NestedPairs[0] = {}
  BY NestedPairsEnd
<1> DEFINE Sub(mn) == <<mn[1].class, mn[2].class>>
<1>2. \A d \in 1 .. MaxDepth : \A wr \in ClassPairs :
        PairsTo[d][wr] = {wr} \cup UNION {PairsTo[d - 1][Sub(mn)] : mn \in Leading(wr)}
  BY PairLevels, ZenonT(40)
<1>3. \A d \in 1 .. MaxDepth : \A wr \in NestedPairs[d] :
        wr \in ClassPairs /\ \A mn \in Leading(wr) : Sub(mn) \in NestedPairs[d - 1]
  <2> TAKE d \in 1 .. MaxDepth
  <2> TAKE wr \in NestedPairs[d]
  <2>1. wr \in ClassPairs
    BY NestedPairsEnd
  <2>2. ASSUME NEW mn \in Leading(wr) PROVE Sub(mn) \in NestedPairs[d - 1]
    <3>1. /\ mn[1] \in MembersOf(wr[1]) /\ mn[2] \in MembersOf(wr[2]) /\ Fitting(mn[1], mn[2])
          /\ IsObject(mn[2]) \/ (IsObjects(mn[2]) /\ mn[1].size > 0)
      BY DEF Leading, Both
    <3>2. mn[1] \in Member /\ mn[2] \in Member
      BY <2>1, <3>1, MemberTypes DEF ClassPairs
    <3>3. IsObject(mn[1]) \/ (IsObjects(mn[1]) /\ mn[1].size > 0)
      BY <3>1, <3>2, FittingKinds
    <3> QED BY <3>1, <3>3, NestedPairsEnd
  <2> QED BY <2>1, <2>2
<1> HIDE DEF Sub
<1>4. Layered(MaxDepth, NestedPairs, PairsTo)
  <2>1. ASSUME NEW d \in 1 .. MaxDepth, NEW a \in 1 .. MaxDepth, NEW b \in 1 .. MaxDepth,
               NEW wr \in NestedPairs[d],
               \A y \in NestedPairs[d - 1] : PairsTo[a - 1][y] = PairsTo[b - 1][y]
        PROVE  PairsTo[a][wr] = PairsTo[b][wr]
    <3>1. wr \in ClassPairs /\ \A mn \in Leading(wr) : PairsTo[a - 1][Sub(mn)] = PairsTo[b - 1][Sub(mn)]
      BY <1>3, <2>1
    <3>2. {PairsTo[a - 1][Sub(mn)] : mn \in Leading(wr)} = {PairsTo[b - 1][Sub(mn)] : mn \in Leading(wr)}
      BY <3>1
    <3> QED BY <1>2, <3>1, <3>2, ZenonT(40)
  <2> QED BY <1>1, <2>1 DEF Layered
<1>5. ASSUME NEW wr \in ClassPairs
      PROVE  /\ MaxDepth \in 1 .. MaxDepth
             /\ Pairs[wr] = {wr} \cup UNION {Pairs[Sub(mn)] : mn \in Leading(wr)}
  <2>1. MaxDepth \in 1 .. MaxDepth
        /\ \A y \in NestedPairs[MaxDepth - 1] : PairsTo[MaxDepth - 1][y] = PairsTo[MaxDepth][y]
    BY <1>1, <1>4, Settles
  <2>2. \A mn \in Leading(wr) : PairsTo[MaxDepth - 1][Sub(mn)] = Pairs[Sub(mn)]
    BY <1>1, <1>3, <2>1 DEF Pairs
  <2>3. {PairsTo[MaxDepth - 1][Sub(mn)] : mn \in Leading(wr)} = {Pairs[Sub(mn)] : mn \in Leading(wr)}
    BY <2>2
  <2> QED BY <1>2, <2>1, <2>3 DEF Pairs
<1>6. Pairs \in [ClassPairs -> SUBSET ClassPairs]
  <2>1. CASE MaxDepth = 0
    BY <2>1, PairLevels DEF Pairs
  <2>2. CASE MaxDepth # 0
    <3>1. \A d \in 1 .. MaxDepth : PairsTo[d] \in [ClassPairs -> SUBSET ClassPairs]
      BY PairLevels
    <3>2. MaxDepth \in 1 .. MaxDepth
      BY <1>1, <2>2
    <3> QED BY <3>1, <3>2 DEF Pairs
  <2> QED BY <2>1, <2>2
<1> QED BY <1>5, <1>6 DEF Sub

\* So is Common.
LEMMA CommonFixed ==
  /\ Common \in [ClassPairs -> SUBSET Seq(Nat)]
  /\ \A wr \in ClassPairs :
       Common[wr] = UNION {Below(mn[1], mn[2], Common) :
                             mn \in {b \in Both(wr[1], wr[2]) : Fitting(b[1], b[2])}}
<1>1. MaxDepth \in Nat /\ NestedPairs[MaxDepth] = ClassPairs /\ NestedPairs[0] = {}
  BY NestedPairsEnd
<1> DEFINE Fits(wr) == {b \in Both(wr[1], wr[2]) : Fitting(b[1], b[2])}
<1>2. \A d \in 1 .. MaxDepth : \A wr \in ClassPairs :
        CommonTo[d][wr] = UNION {Below(mn[1], mn[2], CommonTo[d - 1]) : mn \in Fits(wr)}
  BY CommonLevels, ZenonT(40)
<1>3. ASSUME NEW d \in 1 .. MaxDepth, NEW wr \in NestedPairs[d], NEW v, NEW u,
             \A y \in NestedPairs[d - 1] : v[y] = u[y]
      PROVE  /\ wr \in ClassPairs
             /\ \A mn \in Fits(wr) : Below(mn[1], mn[2], v) = Below(mn[1], mn[2], u)
  <2>1. wr \in ClassPairs
    BY NestedPairsEnd
  <2>2. ASSUME NEW mn \in Fits(wr) PROVE Below(mn[1], mn[2], v) = Below(mn[1], mn[2], u)
    <3>1. mn[1] \in MembersOf(wr[1]) /\ mn[2] \in MembersOf(wr[2]) /\ Fitting(mn[1], mn[2])
      BY DEF Both
    <3>2. mn[1] \in Member /\ mn[2] \in Member /\ mn[1].size \in Nat
      BY <2>1, <3>1, MemberTypes DEF ClassPairs
    <3>3. CASE IsPrimitive(mn[2]) \/ IsVector(mn[2])
      BY <3>3 DEF Below
    <3>4. CASE IsObject(mn[1]) \/ (IsObjects(mn[1]) /\ mn[1].size > 0)
      <4>1. <<mn[1].class, mn[2].class>> \in NestedPairs[d - 1]
        BY <3>1, <3>4, NestedPairsEnd
      <4>2. v[<<mn[1].class, mn[2].class>>] = u[<<mn[1].class, mn[2].class>>]
        BY <1>3, <4>1
      <4> QED BY <4>2 DEF Below
    <3>5. CASE IsObjects(mn[1]) /\ mn[1].size = 0
      <4>1. mn[2].type = "Array"
        BY <3>1, <3>2, <3>5, FittingKinds DEF IsObjects
      <4>2. Starts(mn[1], mn[2]) = {}
        BY <3>5, <4>1 DEF Starts
      <4>3. \A P : Joined({}, P) = {}
        BY DEF Joined
      <4> QED BY <4>2, <4>3 DEF Below
    <3> QED
      BY <3>1, <3>2, <3>3, <3>4, <3>5, MemberKinds, FittingKinds
  <2> QED BY <2>1, <2>2
<1> HIDE DEF Fits
<1>4. Layered(MaxDepth, NestedPairs, CommonTo)
  <2>1. ASSUME NEW d \in 1 .. MaxDepth, NEW a \in 1 .. MaxDepth, NEW b \in 1 .. MaxDepth,
               NEW wr \in NestedPairs[d],
               \A y \in NestedPairs[d - 1] : CommonTo[a - 1][y] = CommonTo[b - 1][y]
        PROVE  CommonTo[a][wr] = CommonTo[b][wr]
    <3>1. wr \in ClassPairs /\ \A mn \in Fits(wr) :
            Below(mn[1], mn[2], CommonTo[a - 1]) = Below(mn[1], mn[2], CommonTo[b - 1])
      BY <1>3, <2>1
    <3>2. {Below(mn[1], mn[2], CommonTo[a - 1]) : mn \in Fits(wr)}
            = {Below(mn[1], mn[2], CommonTo[b - 1]) : mn \in Fits(wr)}
      BY <3>1
    <3> QED BY <1>2, <3>1, <3>2, ZenonT(40)
  <2> QED BY <1>1, <2>1 DEF Layered
<1>5. ASSUME NEW wr \in ClassPairs
      PROVE  Common[wr] = UNION {Below(mn[1], mn[2], Common) : mn \in Fits(wr)}
  <2>1. MaxDepth \in 1 .. MaxDepth
        /\ \A y \in NestedPairs[MaxDepth - 1] : CommonTo[MaxDepth - 1][y] = CommonTo[MaxDepth][y]
    BY <1>1, <1>4, Settles
  <2>2. \A mn \in Fits(wr) :
          Below(mn[1], mn[2], CommonTo[MaxDepth - 1]) = Below(mn[1], mn[2], Common)
    <3>1. \A y \in NestedPairs[MaxDepth - 1] : CommonTo[MaxDepth - 1][y] = Common[y]
      BY <2>1 DEF Common
    <3>2. wr \in NestedPairs[MaxDepth]
      BY <1>1
    <3> QED BY <1>3, <2>1, <3>1, <3>2
  <2>3. {Below(mn[1], mn[2], CommonTo[MaxDepth - 1]) : mn \in Fits(wr)}
          = {Below(mn[1], mn[2], Common) : mn \in Fits(wr)}
    BY <2>2
  <2> QED BY <1>2, <2>1, <2>3, ZenonT(40) DEF Common
<1>6. Common \in [ClassPairs -> SUBSET Seq(Nat)]
  <2>1. MaxDepth \in 0 .. MaxDepth
    BY <1>1
  <2> QED BY <2>1, CommonLevels DEF Common
<1> QED BY <1>5, <1>6 DEF Fits

\* Whatever the pairs that a pair comes to come to, it comes to itself.
LEMMA PairsClosed ==
  ASSUME NEW wr \in ClassPairs
  PROVE  /\ wr \in Pairs[wr]
         /\ \A pr \in Pairs[wr] :
              /\ pr \in ClassPairs /\ Pairs[pr] \subseteq Pairs[wr]
              /\ \A mn \in Leading(pr) : <<mn[1].class, mn[2].class>> \in Pairs[wr]
<1>1. MaxDepth \in Nat /\ NestedPairs[MaxDepth] = ClassPairs /\ NestedPairs[0] = {}
  BY NestedPairsEnd
<1> DEFINE Sub(mn) == <<mn[1].class, mn[2].class>>
<1>2. \A x \in ClassPairs :
        /\ Pairs[x] \subseteq ClassPairs
        /\ Pairs[x] = {x} \cup UNION {Pairs[Sub(mn)] : mn \in Leading(x)}
  BY PairsFixed
<1>3. \A x \in ClassPairs : \A mn \in Leading(x) : Sub(mn) \in ClassPairs
  BY LeadingTypes
<1>4. ASSUME NEW d \in 1 .. MaxDepth, NEW x \in NestedPairs[d], NEW mn \in Leading(x)
      PROVE  Sub(mn) \in NestedPairs[d - 1]
  <2>1. x \in ClassPairs
    BY NestedPairsEnd
  <2>2. /\ mn[1] \in MembersOf(x[1]) /\ mn[2] \in MembersOf(x[2]) /\ Fitting(mn[1], mn[2])
        /\ IsObject(mn[2]) \/ (IsObjects(mn[2]) /\ mn[1].size > 0)
    BY DEF Leading, Both
  <2>3. mn[1] \in Member /\ mn[2] \in Member
    BY <2>1, <2>2, MemberTypes DEF ClassPairs
  <2>4. IsObject(mn[1]) \/ (IsObjects(mn[1]) /\ mn[1].size > 0)
    BY <2>2, <2>3, FittingKinds
  <2> QED BY <2>2, <2>4, NestedPairsEnd
<1> HIDE DEF Sub
<1> DEFINE T == {d \in 0 .. MaxDepth : \A x \in NestedPairs[d] : \A pr \in Pairs[x] : Pairs[pr] \subseteq Pairs[x]}
<1>5. 0 \in T
  BY <1>1
<1>6. ASSUME NEW d \in 1 .. MaxDepth, d - 1 \in T PROVE d \in T
  <2>1. ASSUME NEW x \in NestedPairs[d], NEW pr \in Pairs[x] PROVE Pairs[pr] \subseteq Pairs[x]
    <3>1. x \in ClassPairs
      BY NestedPairsEnd
    <3>2. CASE pr = x
      BY <3>2
    <3>3. CASE \E mn \in Leading(x) : pr \in Pairs[Sub(mn)]
      <4>1. PICK mn \in Leading(x) : pr \in Pairs[Sub(mn)]
        BY <3>3
      <4>2. Sub(mn) \in NestedPairs[d - 1]
        BY <1>4
      <4>3. Pairs[pr] \subseteq Pairs[Sub(mn)]
        BY <1>6, <4>1, <4>2
      <4>4. Pairs[Sub(mn)] \subseteq Pairs[x]
        BY <1>2, <3>1
      <4> QED BY <4>3, <4>4
    <3> QED BY <1>2, <3>1, <3>2, <3>3
  <2> QED BY <2>1
<1>7. 0 .. MaxDepth \subseteq T
  <2> HIDE DEF T
  <2> QED BY <1>1, <1>5, <1>6, InductionUpto
<1>8. \A x \in ClassPairs : \A pr \in Pairs[x] : Pairs[pr] \subseteq Pairs[x]
  BY <1>1, <1>7
<1>9. ASSUME NEW pr \in Pairs[wr], NEW mn \in Leading(pr) PROVE Sub(mn) \in Pairs[wr]
  <2>1. pr \in ClassPairs
    BY <1>2
  <2>2. Sub(mn) \in ClassPairs
    BY <1>3, <2>1
  <2>3. Sub(mn) \in Pairs[Sub(mn)] /\ Pairs[Sub(mn)] \subseteq Pairs[pr]
    BY <1>2, <2>1, <2>2
  <2> QED BY <1>8, <2>3
<1> QED BY <1>2, <1>8, <1>9 DEF Sub

\* Types disagree in a pair of classes or further in.
LEMMA MismatchedBy ==
  ASSUME NEW wr \in ClassPairs
  PROVE  /\ Mismatched[wr] \in BOOLEAN
         /\ Mismatched[wr] <=> \E mn \in Both(wr[1], wr[2]) : Bad(mn[1], mn[2])
         /\ \A pr \in Pairs[wr] : Mismatched[pr] => Mismatched[wr]
<1> DEFINE Wrong(p) == \E mn \in Both(p[1], p[2]) : ~Fitting(mn[1], mn[2])
           Sub(mn) == <<mn[1].class, mn[2].class>>
<1>1. \A x \in ClassPairs : Mismatched[x] = (\E p \in Pairs[x] : Wrong(p))
  BY DEF Mismatched
<1>2. \A mn \in Leading(wr) : Sub(mn) \in ClassPairs
  BY LeadingTypes
<1>3. Pairs[wr] = {wr} \cup UNION {Pairs[Sub(mn)] : mn \in Leading(wr)}
  BY PairsFixed
<1>4. Mismatched[wr] <=> Wrong(wr) \/ \E mn \in Leading(wr) : Mismatched[Sub(mn)]
  <2> HIDE DEF Wrong, Sub
  <2> QED BY <1>1, <1>2, <1>3
<1>5. \A mn \in Both(wr[1], wr[2]) :
        Bad(mn[1], mn[2]) <=> ~Fitting(mn[1], mn[2]) \/ (mn \in Leading(wr) /\ Mismatched[Sub(mn)])
  BY DEF Bad, Leading, Goes
<1>6. \A pr \in Pairs[wr] : pr \in ClassPairs /\ Pairs[pr] \subseteq Pairs[wr]
  BY PairsClosed
<1>7. \A pr \in Pairs[wr] : Mismatched[pr] => Mismatched[wr]
  <2> HIDE DEF Wrong
  <2> QED BY <1>1, <1>6
<1>8. Leading(wr) \subseteq Both(wr[1], wr[2])
  BY DEF Leading
<1>9. Mismatched[wr] <=> \E mn \in Both(wr[1], wr[2]) : Bad(mn[1], mn[2])
  <2> HIDE DEF Sub
  <2> QED BY <1>4, <1>5, <1>8
<1> QED BY <1>1, <1>7, <1>9

\* Nothing in a class without packed vectors is one, or has one.
LEMMA PlainInside ==
  ASSUME NEW c \in Class, PlainClass(c), NEW m \in MembersOf(c)
  PROVE  PlainMember(m)
<1> DEFINE Inner(x) == IsObject(x) \/ (IsObjects(x) /\ x.size > 0)
           Has(d, x) == \E n \in MembersOf(x) : n.packed \/ (Inner(n) /\ HasPackedTo[d - 1][n.class])
<1>1. MaxDepth \in Nat /\ NestedTo[MaxDepth] = Class /\ NestedTo[0] = {}
  BY DepthAssumption, NestedLevels
<1>2. \A d \in 1 .. MaxDepth : \A x \in Class : HasPackedTo[d][x] = Has(d, x)
  BY PackedLevels, ZenonT(40)
<1>3. \A d \in 1 .. MaxDepth : \A x \in NestedTo[d] :
        x \in Class /\ \A n \in MembersOf(x) : Inner(n) => n.class \in NestedTo[d - 1]
  BY NestedLevels
<1> HIDE DEF Inner
<1>4. Layered(MaxDepth, NestedTo, HasPackedTo)
  <2>1. ASSUME NEW d \in 1 .. MaxDepth, NEW a \in 1 .. MaxDepth, NEW b \in 1 .. MaxDepth,
               NEW x \in NestedTo[d],
               \A y \in NestedTo[d - 1] : HasPackedTo[a - 1][y] = HasPackedTo[b - 1][y]
        PROVE  HasPackedTo[a][x] = HasPackedTo[b][x]
    <3>1. x \in Class /\ \A n \in MembersOf(x) : Inner(n) =>
            HasPackedTo[a - 1][n.class] = HasPackedTo[b - 1][n.class]
      BY <1>3, <2>1
    <3>2. Has(a, x) = Has(b, x)
      BY <3>1
    <3> HIDE DEF Has
    <3> QED BY <1>2, <3>1, <3>2, Zenon
  <2> QED BY <1>1, <2>1 DEF Layered
<1>5. MaxDepth \in 1 .. MaxDepth
      /\ \A y \in NestedTo[MaxDepth - 1] : HasPackedTo[MaxDepth - 1][y] = HasPackedTo[MaxDepth][y]
  BY <1>1, <1>4, Settles
<1>6. ~m.packed /\ (Inner(m) => ~HasPackedTo[MaxDepth - 1][m.class])
  BY <1>2, <1>5 DEF PlainClass
<1>7. Inner(m) => m.class \in NestedTo[MaxDepth - 1]
  BY <1>1, <1>3, <1>5
<1> QED BY <1>5, <1>6, <1>7 DEF PlainMember, PlainClass, Inner

-----------------------------------------------------------------------------
(***************************************************************************)
(* What is left of the members of a class.                                 *)
(***************************************************************************)
\* The members of a class are a sequence.
LEMMA ClassMembers ==
  ASSUME NEW c \in Class
  PROVE  Members[c] \in Seq(Member) /\ Len(Members[c]) \in Nat
BY FormatAssumption, LenProperties

\* The Store calls of a class from one on.
LEMMA LeftFrom ==
  ASSUME NEW c \in Class, NEW d \in 1 .. (Len(Members[c]) + 1)
  PROVE  /\ From(c, d) \in Seq(Member) /\ Len(From(c, d)) = Len(Members[c]) - d + 1
         /\ From(c, d) = <<>> <=> d = Len(Members[c]) + 1
         /\ From(c, d) # <<>> => /\ d \in 1 .. Len(Members[c])
                                 /\ Head(From(c, d)) = Members[c][d]
                                 /\ Tail(From(c, d)) = From(c, d + 1)
         /\ Items(From(c, d)) = {Members[c][i] : i \in d .. Len(Members[c])}
<1> DEFINE t == Members[c]
           s == From(c, d)
<1>1. t \in Seq(Member) /\ Len(t) \in Nat
  BY ClassMembers
<1> HIDE DEF t
<1>0. s = SubSeq(t, d, Len(t)) /\ From(c, d + 1) = SubSeq(t, d + 1, Len(t))
  BY DEF From, t
<1> HIDE DEF s
<1>x. d \in 1 .. (Len(t) + 1)
  BY DEF t
<1>2. \A i \in d .. Len(t) : t[i] \in Member
  <2>1. \A i \in d .. Len(t) : i \in 1 .. Len(t)
    BY <1>1, <1>x
  <2> QED BY <1>1, <2>1, ElementOfSeq
<1>3. d \in Int /\ Len(t) \in Int
  BY <1>1, <1>x
<1>4. /\ s \in Seq(Member) /\ Len(s) = IF d <= Len(t) THEN Len(t) - d + 1 ELSE 0
      /\ \A i \in 1 .. (Len(t) - d + 1) : s[i] = t[d + i - 1]
  BY <1>0, <1>2, <1>3, SubSeqProperties
<1>5. Len(s) = Len(t) - d + 1
  BY <1>1, <1>4, <1>x
<1>6. s = <<>> <=> d = Len(t) + 1
  <2>1. s = <<>> <=> Len(s) = 0
    BY <1>4, EmptySeq
  <2> QED BY <1>1, <1>5, <2>1, <1>x
<1>7. s # <<>> => d \in 1 .. Len(t) /\ Head(s) = t[d] /\ Tail(s) = From(c, d + 1)
  <2>1. s # <<>> => d \in 1 .. Len(t)
    BY <1>1, <1>6, <1>x
  <2>2. ASSUME d \in 1 .. Len(t) PROVE Head(s) = t[d] /\ Tail(s) = SubSeq(t, d + 1, Len(t))
    BY <1>0, <1>1, <2>2, HeadTailOfSubSeq
  <2> QED BY <1>0, <2>1, <2>2
<1>8. Items(s) = {t[i] : i \in d .. Len(t)}
  <2>1. ASSUME NEW x \in Items(s) PROVE x \in {t[i] : i \in d .. Len(t)}
    <3>1. PICK i \in 1 .. Len(s) : x = s[i]
      BY DEF Items
    <3>2. d + i - 1 \in d .. Len(t) /\ i \in 1 .. (Len(t) - d + 1)
      BY <1>1, <1>5, <1>x
    <3> QED BY <1>4, <3>1, <3>2
  <2>2. ASSUME NEW i \in d .. Len(t) PROVE t[i] \in Items(s)
    <3>1. i - d + 1 \in 1 .. Len(s) /\ i - d + 1 \in 1 .. (Len(t) - d + 1) /\ d + (i - d + 1) - 1 = i
      BY <1>1, <1>5, <1>x
    <3>2. s[i - d + 1] = t[i]
      BY <1>4, <3>1
    <3> QED BY <3>1, <3>2 DEF Items
  <2> QED BY <2>1, <2>2
<1> QED BY <1>4, <1>5, <1>6, <1>7, <1>8 DEF s, t

\* The index names the member.
LEMMA SameMember ==
  ASSUME NEW c \in Class, NEW m \in MembersOf(c), NEW n \in MembersOf(c), m.index = n.index
  PROVE  m = n
<1>1. PICK i \in 1 .. Len(Members[c]) : m = Members[c][i]
  BY DEF MembersOf
<1>2. PICK j \in 1 .. Len(Members[c]) : n = Members[c][j]
  BY DEF MembersOf
<1> QED BY <1>1, <1>2, FormatAssumption

\* At first all Store calls of a class are left.
LEMMA AllLeft ==
  ASSUME NEW c \in Class
  PROVE  /\ LeftOf(Members[c], c) /\ Items(Members[c]) = MembersOf(c)
         /\ Members[c] = From(c, 1)
<1>1. Members[c] \in Seq(Member) /\ Len(Members[c]) \in Nat
  BY ClassMembers
<1>2. Members[c] = SubSeq(Members[c], 1, Len(Members[c]))
  BY <1>1, SubSeqFull
<1> QED BY <1>1, <1>2 DEF LeftOf, From, Items, MembersOf

\* Each takes one member from those left.
LEMMA SomeLeft ==
  ASSUME NEW c \in Class, NEW s, LeftOf(s, c)
  PROVE  /\ s \in Seq(Member) /\ Items(s) \subseteq MembersOf(c)
         /\ s = <<>> => Items(s) = {}
         /\ s # <<>> =>
              /\ LeftOf(Tail(s), c)
              /\ Head(s) \in MembersOf(c) /\ Head(s) \in Items(s)
              /\ Items(Tail(s)) = Items(s) \ {Head(s)}
<1> DEFINE t == Members[c]
<1>1. t \in Seq(Member) /\ Len(t) \in Nat
  BY ClassMembers
<1>2. PICK d \in 1 .. (Len(t) + 1) : s = From(c, d)
  BY DEF LeftOf
<1>3. MembersOf(c) = {t[i] : i \in 1 .. Len(t)}
  BY DEF MembersOf
<1>4. \A i \in 1 .. Len(t), j \in 1 .. Len(t) : t[i] = t[j] => i = j
  BY FormatAssumption
<1>5. /\ s \in Seq(Member) /\ Items(s) = {t[i] : i \in d .. Len(t)}
      /\ s = <<>> <=> d = Len(t) + 1
      /\ s # <<>> => d \in 1 .. Len(t) /\ Head(s) = t[d] /\ Tail(s) = From(c, d + 1)
  BY <1>2, LeftFrom
<1>8. ASSUME s # <<>>
      PROVE  /\ LeftOf(Tail(s), c) /\ Head(s) \in MembersOf(c) /\ Head(s) \in Items(s)
             /\ Items(Tail(s)) = Items(s) \ {Head(s)}
  <2>1. d \in 1 .. Len(t) /\ d + 1 \in 1 .. (Len(t) + 1)
    BY <1>1, <1>5, <1>8
  <2>2. Head(s) = t[d] /\ Tail(s) = From(c, d + 1)
    BY <1>5, <1>8
  <2>3. Items(Tail(s)) = {t[i] : i \in (d + 1) .. Len(t)}
    BY <2>1, <2>2, LeftFrom
  <2>4. LeftOf(Tail(s), c)
    BY <2>1, <2>2 DEF LeftOf
  <2> HIDE DEF t
  <2>5. {t[i] : i \in (d + 1) .. Len(t)} = {t[i] : i \in d .. Len(t)} \ {t[d]}
    BY <1>1, <1>4, <2>1
  <2>6. d \in d .. Len(t)
    BY <1>1, <2>1
  <2> QED BY <1>3, <1>5, <2>1, <2>2, <2>3, <2>4, <2>5, <2>6
<1> HIDE DEF t
<1>6. Items(s) \subseteq MembersOf(c)
  BY <1>1, <1>3, <1>5
<1>7. s = <<>> => Items(s) = {}
  BY <1>1, <1>5
<1> QED BY <1>5, <1>6, <1>7, <1>8

-----------------------------------------------------------------------------
(***************************************************************************)
(* The members that a reader waits for.                                    *)
(***************************************************************************)
\* Meets, by its parts.
LEMMA MeetsTypes ==
  ASSUME NEW pr \in ClassPairs, NEW w, NEW path, NEW todo, NEW A, NEW gone,
         Meets(pr, w, path, todo, A, gone)
  PROVE  /\ pr[1] \in Class /\ pr[2] \in Class
         /\ LeftOf(w, pr[1]) /\ LeftOf(todo, pr[2])
         /\ Items(w) \subseteq MembersOf(pr[1]) /\ Items(todo) \subseteq MembersOf(pr[2])
         /\ Waiting(todo, A, gone) \subseteq MembersOf(pr[2])
         /\ w # <<>> => Head(w) \in Items(w)
         /\ todo # <<>> => Head(todo) \in Items(todo)
BY SomeLeft DEF Meets, Waiting, ClassPairs

\* Two classes of which neither side has read anything meet.
LEMMA MeetsFirst ==
  ASSUME NEW pr \in ClassPairs, NEW path, NEW gone
  PROVE  Meets(pr, Members[pr[1]], path, Members[pr[2]], {}, gone)
<1>1. pr[1] \in Class /\ pr[2] \in Class
  BY DEF ClassPairs
<1> QED BY <1>1, AllLeft DEF Meets, Waiting

\* They still do when the reader keeps a member for later (AddPendingPrimitive).
LEMMA MeetsLater ==
  ASSUME NEW pr \in ClassPairs, NEW w, NEW path, NEW todo, NEW A,
         Meets(pr, w, path, todo, A, {}), todo # <<>>
  PROVE  Meets(pr, w, path, Tail(todo),
               A \cup {Reader!Pending(Head(todo), Append(path, Head(todo).index))}, {})
<1> DEFINE q == Reader!Pending(Head(todo), Append(path, Head(todo).index))
<1>1. pr[1] \in Class /\ pr[2] \in Class
  BY DEF ClassPairs
<1>2. /\ LeftOf(Tail(todo), pr[2]) /\ Head(todo) \in MembersOf(pr[2]) /\ Head(todo) \in Items(todo)
      /\ Items(Tail(todo)) = Items(todo) \ {Head(todo)} /\ LeftOf(w, pr[1])
  BY <1>1, SomeLeft DEF Meets
<1>3. q.member = Head(todo) /\ q.path = Append(path, Head(todo).index)
  BY DEF Reader!Pending
<1> HIDE DEF q
<1>4. Waiting(Tail(todo), A \cup {q}, {}) = Waiting(todo, A, {})
  BY <1>2, <1>3 DEF Waiting
<1> QED BY <1>2, <1>3, <1>4 DEF Meets, q

\* They do when both have the same member next, and it is read.
LEMMA MeetsTaken ==
  ASSUME NEW pr \in ClassPairs, NEW w, NEW path, NEW todo, NEW A,
         Meets(pr, w, path, todo, A, {}), w # <<>>, todo # <<>>, Head(w).index = Head(todo).index
  PROVE  Meets(pr, Tail(w), path, Tail(todo), A, {})
<1>1. pr[1] \in Class /\ pr[2] \in Class
  BY DEF ClassPairs
<1>2. /\ LeftOf(Tail(todo), pr[2]) /\ Head(todo) \in MembersOf(pr[2]) /\ Head(todo) \in Items(todo)
      /\ Items(Tail(todo)) = Items(todo) \ {Head(todo)}
      /\ LeftOf(Tail(w), pr[1]) /\ Head(w) \in MembersOf(pr[1])
      /\ Items(Tail(w)) = Items(w) \ {Head(w)}
  BY <1>1, SomeLeft DEF Meets
<1>3. Waiting(Tail(todo), A, {}) = Waiting(todo, A, {}) \ {Head(todo)}
  BY <1>2 DEF Waiting, Meets
<1>4. ASSUME NEW m \in MembersOf(pr[1]), NEW n \in MembersOf(pr[2]), m.index = n.index
      PROVE  m = Head(w) <=> n = Head(todo)
  BY <1>1, <1>2, <1>4, SameMember
<1> QED BY <1>2, <1>3, <1>4 DEF Meets

\* They do when a pending member is read, but for its closure, which is running.
LEMMA MeetsNow ==
  ASSUME NEW pr \in ClassPairs, NEW w, NEW path, NEW todo, NEW A,
         Meets(pr, w, path, todo, A, {}), w # <<>>, NEW p \in A, p.member.index = Head(w).index
  PROVE  Meets(pr, Tail(w), path, todo, A, {Head(w).index})
<1>1. pr[1] \in Class /\ pr[2] \in Class
  BY DEF ClassPairs
<1>2. /\ LeftOf(Tail(w), pr[1]) /\ Head(w) \in MembersOf(pr[1])
      /\ Items(Tail(w)) = Items(w) \ {Head(w)} /\ Items(todo) \subseteq MembersOf(pr[2])
  BY <1>1, SomeLeft DEF Meets
<1>3. p.member \in MembersOf(pr[2]) /\ p.member \notin Items(todo)
  BY DEF Meets
<1>4. ASSUME NEW n \in MembersOf(pr[2])
      PROVE  n.index = Head(w).index <=> n = p.member
  BY <1>1, <1>3, SameMember
<1>5. Waiting(todo, A, {Head(w).index}) = Waiting(todo, A, {}) \ {p.member}
  BY <1>2, <1>3, <1>4 DEF Waiting, Meets
<1>6. ASSUME NEW m \in MembersOf(pr[1]), NEW n \in MembersOf(pr[2]), m.index = n.index
      PROVE  m = Head(w) <=> n = p.member
  BY <1>1, <1>2, <1>3, <1>6, SameMember
<1> QED BY <1>2, <1>5, <1>6 DEF Meets

\* And when that closure has returned and is removed.
LEMMA MeetsReturned ==
  ASSUME NEW pr, NEW w, NEW path, NEW todo, NEW A, NEW i, Meets(pr, w, path, todo, A, {i})
  PROVE  Meets(pr, w, path, todo, {p \in A : p.member.index # i}, {})
<1>1. Waiting(todo, {p \in A : p.member.index # i}, {}) = Waiting(todo, A, {i})
  BY DEF Waiting
<1> QED BY <1>1 DEF Meets

\* Nobody waits for what the reader does not have.
LEMMA MeetsUnknown ==
  ASSUME NEW pr \in ClassPairs, NEW w, NEW path, NEW A,
         Meets(pr, w, path, <<>>, A, {}), w # <<>>, ~\E p \in A : p.member.index = Head(w).index
  PROVE  /\ Meets(pr, Tail(w), path, <<>>, A, {})
         /\ Counterparts(Head(w), pr[2]) = {}
<1>1. pr[1] \in Class /\ pr[2] \in Class
  BY DEF ClassPairs
<1>2. /\ LeftOf(Tail(w), pr[1]) /\ Head(w) \in MembersOf(pr[1]) /\ Head(w) \in Items(w)
      /\ Items(Tail(w)) = Items(w) \ {Head(w)} /\ Items(<<>>) = {}
  BY <1>1, SomeLeft DEF Meets
<1>3. Counterparts(Head(w), pr[2]) = {}
  BY <1>2 DEF Meets, Waiting, Counterparts
<1> QED BY <1>2, <1>3 DEF Meets, Counterparts

\* At the end of what was written only members that it lacks are waited for.
LEMMA MeetsEnd ==
  ASSUME NEW pr \in ClassPairs, NEW path, NEW todo, NEW A,
         Meets(pr, <<>>, path, todo, A, {}), NEW n \in Waiting(todo, A, {})
  PROVE  /\ n \in MembersOf(pr[2])
         /\ \A m \in MembersOf(pr[1]) : m.index # n.index
<1>1. pr[1] \in Class /\ pr[2] \in Class /\ n \in MembersOf(pr[2])
  BY MeetsTypes DEF ClassPairs
<1>2. Items(<<>>) = {}
  BY <1>1, SomeLeft DEF Meets
<1> QED BY <1>1, <1>2 DEF Meets

-----------------------------------------------------------------------------
(***************************************************************************)
(* What the rest of an object yields.                                      *)
(***************************************************************************)
\* What is left gives what its first member gives, and what the others do.
LEMMA RestTaken ==
  ASSUME NEW w \in Class, NEW r \in Class, NEW s, LeftOf(s, w), s # <<>>,
         NEW n \in MembersOf(r), n.index = Head(s).index
  PROVE  /\ Rest(s, r) = Yield(Head(s), n) \cup Rest(Tail(s), r)
         /\ Good(s, r) <=> (~Bad(Head(s), n) /\ Good(Tail(s), r))
<1>1. Items(s) = {Head(s)} \cup Items(Tail(s))
  BY SomeLeft
<1>2. \A k \in MembersOf(r) : k.index = Head(s).index <=> k = n
  BY SameMember
<1>3. Meeting(s, r) = {<<Head(s), n>>} \cup Meeting(Tail(s), r)
  BY <1>1, <1>2 DEF Meeting
<1>4. Rest(s, r) = Yield(Head(s), n) \cup Rest(Tail(s), r)
  <2> DEFINE Y(mn) == Yield(mn[1], mn[2])
             M == Meeting(Tail(s), r)
             q == <<Head(s), n>>
  <2>1. Rest(s, r) = UNION {Y(mn) : mn \in {q} \cup M} /\ Rest(Tail(s), r) = UNION {Y(mn) : mn \in M}
    BY <1>3 DEF Rest
  <2>2. Y(q) = Yield(Head(s), n)
    OBVIOUS
  <2> HIDE DEF Y, M, q
  <2> QED BY <2>1, <2>2
<1>5. Good(s, r) <=> (~Bad(Head(s), n) /\ Good(Tail(s), r))
  <2> DEFINE Y(mn) == Bad(mn[1], mn[2])
             M == Meeting(Tail(s), r)
             q == <<Head(s), n>>
  <2>1. (Good(s, r) <=> \A mn \in {q} \cup M : ~Y(mn)) /\ (Good(Tail(s), r) <=> \A mn \in M : ~Y(mn))
    BY <1>3 DEF Good
  <2>2. Y(q) <=> Bad(Head(s), n)
    OBVIOUS
  <2> HIDE DEF Y, M, q
  <2> QED BY <2>1, <2>2
<1> QED BY <1>4, <1>5

\* A member that the reader does not have adds nothing to what it gets.
LEMMA RestUnknown ==
  ASSUME NEW w \in Class, NEW r \in Class, NEW s, LeftOf(s, w), s # <<>>,
         Counterparts(Head(s), r) = {}
  PROVE  Rest(s, r) = Rest(Tail(s), r) /\ (Good(s, r) <=> Good(Tail(s), r))
<1>1. Items(s) = {Head(s)} \cup Items(Tail(s))
  BY SomeLeft
<1>3. Meeting(s, r) = Meeting(Tail(s), r)
  BY <1>1 DEF Meeting, Counterparts
<1> QED BY <1>3 DEF Rest, Good

\* Nothing left gives nothing.
LEMMA RestNone ==
  ASSUME NEW r
  PROVE  Rest(<<>>, r) = {} /\ Good(<<>>, r)
<1>1. Meeting(<<>>, r) = {}
  BY DEF Meeting, Items
<1> QED BY <1>1 DEF Rest, Good

\* A whole object gives what the two classes have in common.
LEMMA RestAll ==
  ASSUME NEW w \in Class, NEW r \in Class
  PROVE  /\ Rest(Members[w], r) = Common[<<w, r>>]
         /\ Good(Members[w], r) <=> ~Mismatched[<<w, r>>]
<1>1. Meeting(Members[w], r) = Both(w, r)
  BY AllLeft DEF Meeting, Both
<1>2. <<w, r>> \in ClassPairs /\ <<w, r>>[1] = w /\ <<w, r>>[2] = r
  BY DEF ClassPairs
<1>3. Good(Members[w], r) <=> ~Mismatched[<<w, r>>]
  <2>1. Mismatched[<<w, r>>] <=> \E mn \in Both(w, r) : Bad(mn[1], mn[2])
    <3> DEFINE wr == <<w, r>>
    <3>1. wr \in ClassPairs /\ wr[1] = w /\ wr[2] = r
      BY <1>2
    <3> HIDE DEF wr
    <3>2. Mismatched[wr] <=> \E mn \in Both(wr[1], wr[2]) : Bad(mn[1], mn[2])
      BY <3>1, MismatchedBy
    <3>3. Mismatched[wr] <=> \E mn \in Both(w, r) : Bad(mn[1], mn[2])
      BY <3>1, <3>2
    <3> QED BY <3>3 DEF wr
  <2>2. Good(Members[w], r) <=> \A mn \in Both(w, r) : ~Bad(mn[1], mn[2])
    BY <1>1 DEF Good
  <2> QED BY <2>1, <2>2
<1>4. Common[<<w, r>>] = UNION {Below(mn[1], mn[2], Common) : mn \in {b \in Both(w, r) : Fitting(b[1], b[2])}}
  BY <1>2, CommonFixed
<1>5. Rest(Members[w], r) = UNION {Yield(mn[1], mn[2]) : mn \in Both(w, r)}
  BY <1>1 DEF Rest
<1>6. UNION {Yield(mn[1], mn[2]) : mn \in Both(w, r)} =
        UNION {Below(mn[1], mn[2], Common) : mn \in {b \in Both(w, r) : Fitting(b[1], b[2])}}
  BY DEF Yield
<1> QED BY <1>3, <1>4, <1>5, <1>6

\* What is owed at a path.
LEMMA OwedUnion ==
  ASSUME NEW path, NEW A, NEW B
  PROVE  /\ Owed(path, A \cup B) = Owed(path, A) \cup Owed(path, B)
         /\ Owed(path, {}) = {}
BY DEF Owed

\* What the elements of a vector give, one by one.
LEMMA ElementsOwedStep ==
  ASSUME NEW path, NEW k \in Nat, NEW n \in Nat, NEW P
  PROVE  /\ k < n => ElementsOwed(path, (k + 1) .. n, P) =
              Owed(Append(path, k + 1), P) \cup ElementsOwed(path, (k + 1 + 1) .. n, P)
         /\ k = n => ElementsOwed(path, (k + 1) .. n, P) = {}
<1>1. k < n => (k + 1) .. n = {k + 1} \cup ((k + 1 + 1) .. n)
  OBVIOUS
<1>2. k = n => (k + 1) .. n = {}
  OBVIOUS
<1> QED BY <1>1, <1>2 DEF ElementsOwed

IsJoined(x, s, p) == x = s \o p

\* What is joined, and of what.
LEMMA JoinedParts ==
  ASSUME NEW S, NEW Q
  PROVE  /\ \A x \in Joined(S, Q) : \E s \in S : \E p \in Q : IsJoined(x, s, p)
         /\ \A s \in S, p \in Q : s \o p \in Joined(S, Q)
<1>1. ASSUME NEW x, x \in Joined(S, Q) PROVE \E s \in S : \E p \in Q : x = s \o p
  BY <1>1 DEF Joined
<1>2. ASSUME NEW s \in S, NEW p \in Q PROVE s \o p \in Joined(S, Q)
  BY DEF Joined
<1>3. ASSUME NEW x, x \in Joined(S, Q) PROVE \E s \in S : \E p \in Q : IsJoined(x, s, p)
  BY <1>1, <1>3 DEF IsJoined
<1> QED BY <1>2, <1>3, Zenon

\* Values below each of several places.
LEMMA OwedJoined ==
  ASSUME NEW path \in Seq(Nat), NEW S \in SUBSET Seq(Nat), NEW Q \in SUBSET Seq(Nat)
  PROVE  Owed(path, Joined(S, Q)) = UNION {Owed(path \o s, Q) : s \in S}
<1>1. \A s \in S, p \in Q : path \o (s \o p) = (path \o s) \o p
  <2> TAKE s \in S, p \in Q
  <2>1. s \in Seq(Nat) /\ p \in Seq(Nat)
    OBVIOUS
  <2> QED BY <2>1, ConcatAssociative, SMTT(30)
<1>2. ASSUME NEW x \in Owed(path, Joined(S, Q)) PROVE x \in UNION {Owed(path \o s, Q) : s \in S}
  <2>1. PICK q \in Joined(S, Q) : x = Kept(path \o q)
    <3>1. x \in {Kept(path \o q) : q \in Joined(S, Q)}
      BY <1>2 DEF Owed
    <3> HIDE DEF Owed, Joined
    <3> QED BY <3>1
  <2>a. q \in Joined(S, Q)
    BY <2>1
  <2>2. PICK s \in S : \E p \in Q : IsJoined(q, s, p)
    BY <2>a, JoinedParts, Zenon
  <2>3. PICK p \in Q : q = s \o p
    BY <2>2 DEF IsJoined
  <2>4. x = Kept((path \o s) \o p)
    BY <1>1, <2>1, <2>3, Zenon
  <2>5. x \in Owed(path \o s, Q)
    BY <2>4 DEF Owed
  <2> QED BY <2>5
<1>3. ASSUME NEW s \in S, NEW x \in Owed(path \o s, Q) PROVE x \in Owed(path, Joined(S, Q))
  <2>1. PICK p \in Q : x = Kept((path \o s) \o p)
    BY <1>3 DEF Owed
  <2>2. x = Kept(path \o (s \o p))
    BY <1>1, <2>1, Zenon
  <2>3. s \o p \in Joined(S, Q)
    BY JoinedParts, Zenon
  <2> QED BY <2>2, <2>3 DEF Owed
<1> QED BY <1>2, <1>3

\* What a member at P, of an object at a path, yields.
IsYield(path, P, m, n) ==
  /\ IsPrimitive(n) => Owed(path, Yield(m, n)) = {Kept(P)}
  /\ IsVector(n) => Owed(path, Yield(m, n)) = {Kept(Append(P, k)) : k \in 1 .. m.size}
  /\ IsObject(n) => Owed(path, Yield(m, n)) = Owed(P, Common[<<m.class, n.class>>])
  /\ IsObjects(n) => Owed(path, Yield(m, n)) = ElementsOwed(P, 1 .. m.size, Common[<<m.class, n.class>>])

\* What each kind of a member gives.
LEMMA YieldKinds ==
  ASSUME NEW w \in Class, NEW r \in Class, NEW m \in MembersOf(w), NEW n \in MembersOf(r),
         Fitting(m, n), NEW path \in Seq(Nat), NEW P, P = Append(path, n.index)
  PROVE  IsYield(path, P, m, n)
<1>1. n \in Member /\ n.index \in Nat /\ m.size \in Nat /\ <<m.class, n.class>> \in ClassPairs
  BY MemberTypes DEF ClassPairs
<1> DEFINE Q == Common[<<m.class, n.class>>]
           i == n.index
<1>2. Q \in SUBSET Seq(Nat)
  BY <1>1, CommonFixed
<1>3. path \o <<i>> = P /\ <<i>> \in Seq(Nat)
  BY <1>1, AppendThen
<1>4. \A k \in 1 .. m.size : path \o <<i, k>> = Append(P, k) /\ <<i, k>> \in Seq(Nat)
  <2> TAKE k \in 1 .. m.size
  <2>1. k \in Nat
    BY <1>1
  <2>2. \A a \in Nat, b \in Nat : \A q \in Seq(Nat) : q \o <<a, b>> = Append(Append(q, a), b)
    BY TwoThen, Zenon
  <2>3. path \o <<i, k>> = Append(Append(path, i), k)
    BY <1>1, <2>1, <2>2
  <2> QED BY <1>1, <2>1, <2>3, TwoIndices
<1>5. Yield(m, n) = IF IsPrimitive(n) \/ IsVector(n) THEN Starts(m, n) ELSE Joined(Starts(m, n), Q)
  BY DEF Yield, Below
<1> DEFINE V == {<<i, k>> : k \in 1 .. m.size}
<1>6. /\ n.type = "Array" => Starts(m, n) = V
      /\ n.type # "Array" => Starts(m, n) = {<<i>>}
  BY DEF Starts
<1>7. IsPrimitive(n) => n.type # "Array"
  BY DEF IsPrimitive, PrimitiveTypes, IntegerTypes
<1>8. ASSUME IsPrimitive(n) PROVE Owed(path, Yield(m, n)) = {Kept(P)}
  BY <1>3, <1>5, <1>6, <1>7, <1>8 DEF Owed
<1>9. ASSUME IsVector(n)
      PROVE  Owed(path, Yield(m, n)) = {Kept(Append(P, k)) : k \in 1 .. m.size}
  <2>1. Owed(path, V) = {Kept(path \o <<i, k>>) : k \in 1 .. m.size}
    BY DEF Owed
  <2>2. Yield(m, n) = V
    BY <1>5, <1>6, <1>9 DEF IsVector
  <2> QED BY <1>4, <2>1, <2>2, ZenonT(40)
<1>10. ASSUME IsObject(n) PROVE Owed(path, Yield(m, n)) = Owed(P, Q)
  <2>1. Yield(m, n) = Joined({<<i>>}, Q)
    BY <1>1, <1>5, <1>6, <1>10, MemberKinds DEF IsObject
  <2>2. Owed(path, Joined({<<i>>}, Q)) = UNION {Owed(path \o s, Q) : s \in {<<i>>}}
    <3>1. {<<i>>} \in SUBSET Seq(Nat)
      BY <1>3
    <3> HIDE DEF Q
    <3> QED BY <1>2, <3>1, OwedJoined, ZenonT(40)
  <2>3. UNION {Owed(path \o s, Q) : s \in {<<i>>}} = Owed(path \o <<i>>, Q)
    OBVIOUS
  <2> QED BY <1>3, <2>1, <2>2, <2>3
<1>11. ASSUME IsObjects(n)
       PROVE  Owed(path, Yield(m, n)) = ElementsOwed(P, 1 .. m.size, Q)
  <2>1. Yield(m, n) = Joined(V, Q)
    BY <1>1, <1>5, <1>6, <1>11, MemberKinds DEF IsObjects
  <2>2. Owed(path, Joined(V, Q)) = UNION {Owed(path \o s, Q) : s \in V}
    <3>1. V \in SUBSET Seq(Nat)
      BY <1>4
    <3> HIDE DEF Q, V
    <3> QED BY <1>2, <3>1, OwedJoined
  <2> HIDE DEF Q
  <2>3. {Owed(path \o s, Q) : s \in V} = {Owed(path \o <<i, k>>, Q) : k \in 1 .. m.size}
    OBVIOUS
  <2>4. {Owed(path \o <<i, k>>, Q) : k \in 1 .. m.size} = {Owed(Append(P, k), Q) : k \in 1 .. m.size}
    BY <1>4
  <2> QED BY <2>1, <2>2, <2>3, <2>4 DEF ElementsOwed
<1> QED BY <1>8, <1>9, <1>10, <1>11 DEF IsYield

-----------------------------------------------------------------------------
(***************************************************************************)
(* From one context to the next.                                           *)
(***************************************************************************)
\* Where the first of some calls starts, if what is above them goes on from c.
FirstOf(ctx, c) == IF ctx = <<>> THEN c ELSE ctx[1]
\* Some calls, one after the other, that start from contexts ctx and end in c.
Linked(new, ctx, c, wr) ==
  /\ ctx \in Seq(Context) /\ Len(ctx) = Len(new)
  /\ \A i \in 1 .. Len(new) :
       Stands(new[i], ctx[i], IF i = Len(new) THEN c ELSE ctx[i + 1], wr)

\* The first of some contexts, and the last.
StartsIn(G, c) == G[1] = c
EndsIn(G, c) == G[Len(G)] = c

\* The calls that replace the innermost one end where it would have.
LEMMA Onward ==
  ASSUME NEW wr, NEW F \in Seq(Reader!Frame), F # <<>>, NEW g, Chain(F, g, wr),
         NEW new \in Seq(Reader!Frame), NEW ctx, Linked(new, ctx, g[2], wr)
  PROVE  /\ Chain(new \o Tail(F), ctx \o Tail(g), wr)
         /\ StartsIn(ctx \o Tail(g), FirstOf(ctx, g[2]))
         /\ EndsIn(ctx \o Tail(g), g[Len(g)])
<1> DEFINE G == ctx \o Tail(g)
           N == new \o Tail(F)
           m == Len(new)
<1>1. /\ g \in Seq(Context) /\ Len(g) = Len(F) + 1 /\ Len(F) \in Nat /\ Len(F) >= 1 /\ g # <<>>
      /\ \A i \in 1 .. Len(F) : Stands(F[i], g[i], g[i + 1], wr)
  <2>1. g \in Seq(Context) /\ Len(g) = Len(F) + 1 /\ \A i \in 1 .. Len(F) : Stands(F[i], g[i], g[i + 1], wr)
    BY DEF Chain
  <2>2. Len(F) \in Nat /\ Len(F) >= 1
    BY EmptySeq, LenProperties
  <2>3. g # <<>>
    BY <2>1, <2>2, EmptySeq
  <2> QED BY <2>1, <2>2, <2>3
<1>2. ctx \in Seq(Context) /\ Len(ctx) = m /\ m \in Nat
  BY LenProperties DEF Linked
<1>3. /\ N \in Seq(Reader!Frame) /\ Len(N) = m + Len(F) - 1
      /\ \A i \in 1 .. m : N[i] = new[i]
      /\ \A i \in 2 .. Len(F) : N[i + m - 1] = F[i]
  BY ReplacedHead
<1>4. /\ G \in Seq(Context) /\ Len(G) = m + Len(F)
      /\ \A i \in 1 .. m : G[i] = ctx[i]
      /\ \A i \in 2 .. Len(g) : G[i + m - 1] = g[i]
  <2>1. /\ G \in Seq(Context) /\ Len(G) = Len(ctx) + Len(g) - 1
        /\ \A i \in 1 .. Len(ctx) : G[i] = ctx[i]
        /\ \A i \in 2 .. Len(g) : G[i + Len(ctx) - 1] = g[i]
    <3>1. g \in Seq(Context) /\ g # <<>> /\ ctx \in Seq(Context)
      BY <1>1, <1>2
    <3> QED BY <3>1, ReplacedHead
  <2> QED BY <1>1, <1>2, <2>1
<1> HIDE DEF G, N
<1>5. G[m + 1] = g[2] /\ G[Len(G)] = g[Len(g)]
  <2>1. 2 \in 2 .. Len(g) /\ Len(g) \in 2 .. Len(g) /\ 2 + m - 1 = m + 1
        /\ Len(g) + m - 1 = Len(G)
    BY <1>1, <1>2, <1>4
  <2> QED BY <1>4, <2>1
<1>6. G[1] = FirstOf(ctx, g[2])
  <2>1. CASE ctx = <<>>
    <3>1. m = 0
      BY <1>2, <2>1, EmptySeq
    <3>2. G[1] = g[2]
      BY <1>5, <3>1
    <3> QED BY <2>1, <3>2 DEF FirstOf
  <2>2. CASE ctx # <<>>
    <3>1. 1 \in 1 .. m
      BY <1>2, <2>2, EmptySeq
    <3> QED BY <1>4, <2>2, <3>1 DEF FirstOf
  <2> QED BY <2>1, <2>2
<1>7. ASSUME NEW i \in 1 .. Len(N) PROVE Stands(N[i], G[i], G[i + 1], wr)
  <2>1. CASE i <= m
    <3>1. i \in 1 .. m
      BY <1>2, <2>1
    <3>2. Stands(new[i], ctx[i], IF i = m THEN g[2] ELSE ctx[i + 1], wr)
      BY <3>1 DEF Linked
    <3>3. N[i] = new[i] /\ G[i] = ctx[i]
      BY <1>3, <1>4, <3>1
    <3>4. G[i + 1] = IF i = m THEN g[2] ELSE ctx[i + 1]
      <4>1. i # m => i + 1 \in 1 .. m
        BY <1>2, <3>1
      <4> QED BY <1>4, <1>5, <4>1
    <3> QED BY <3>2, <3>3, <3>4
  <2>2. CASE i > m
    <3>1. i - m + 1 \in 2 .. Len(F) /\ i - m + 1 \in 1 .. Len(F) /\ (i - m + 1) + m - 1 = i
          /\ i - m + 1 \in 2 .. Len(g) /\ i - m + 1 + 1 \in 2 .. Len(g) /\ (i - m + 1 + 1) + m - 1 = i + 1
      BY <1>1, <1>2, <1>3, <2>2
    <3>2. Stands(F[i - m + 1], g[i - m + 1], g[i - m + 1 + 1], wr)
      BY <1>1, <3>1
    <3>3. N[i] = F[i - m + 1]
      BY <1>3, <3>1
    <3>4. G[i] = g[i - m + 1]
      BY <1>4, <3>1
    <3>5. G[i + 1] = g[i - m + 1 + 1]
      <4> DEFINE j == i - m + 1 + 1
      <4>1. j \in 2 .. Len(g) /\ j + m - 1 = i + 1
        BY <3>1
      <4> HIDE DEF j
      <4>2. G[i + 1] = g[j]
        BY <1>4, <4>1
      <4> QED BY <4>2 DEF j
    <3> QED BY <3>2, <3>3, <3>4, <3>5
  <2>3. m \in Nat /\ i \in Nat
    BY <1>2, <1>3
  <2>4. i <= m \/ i > m
    BY <2>3
  <2> QED BY <2>1, <2>2, <2>4
<1>8. Len(G) = Len(N) + 1
  BY <1>1, <1>2, <1>3, <1>4
<1> QED BY <1>4, <1>5, <1>6, <1>7, <1>8 DEF Chain, StartsIn, EndsIn, G, N

\* A step that replaces the innermost call by others that end where it would have
\* leaves the reader where it is on its way.
Continues(x, y, W, g, new, ctx) ==
  /\ y.n = x.n /\ sent' = sent /\ entered' = entered
  /\ new \in Seq(Reader!Frame) /\ Linked(new, ctx, g[2], PairNow)
  /\ frames' = new \o Tail(frames)
  /\ \A i \in 2 .. Len(new) : Waits(new[i])
  /\ Present(FirstOf(ctx, g[2]), y)'
  /\ new # <<>> =>
       /\ TakenSince(new[1], y)'
       /\ HeaderSeen(new[1])' => y.at + 1 <= Len(stream') /\ W[y.at + 1] = SeenHeader(new[1])'
  /\ new = <<>> =>
       /\ Reached(y.at)' /\ ~mCurrentIndexPending'
       /\ Len(frames) = 1 => y.at <= Len(stream')

\* A reader whose frames and contexts go on as Continues says follows on.
LEMMA FollowsOn ==
  ASSUME ReaderTypes, ReaderTypes', NEW x, NEW y \in Moment, NEW W, NEW g, Following(x, W, g),
         NEW new, NEW ctx, Continues(x, y, W, g, new, ctx)
  PROVE  \/ Idle(y)'
         \/ \E G : Following(y, W, G)'
<1> DEFINE G == ctx \o Tail(g)
           m == Len(new)
<1>1. frames # <<>> /\ frames \in Seq(Reader!Frame) /\ Chain(frames, g, PairNow)
      /\ Round <= Len(sent) /\ x.n = Round /\ g[Len(g)] = LastContext
      /\ \A i \in 2 .. Len(frames) : Waits(frames[i])
  BY DEF Following, ReaderTypes
<1>0. /\ y.n = x.n /\ sent' = sent /\ entered' = entered
      /\ new \in Seq(Reader!Frame) /\ Linked(new, ctx, g[2], PairNow)
      /\ frames' = new \o Tail(frames)
      /\ \A i \in 2 .. Len(new) : Waits(new[i])
      /\ Present(FirstOf(ctx, g[2]), y)'
  BY DEF Continues
<1>2. /\ Chain(new \o Tail(frames), G, PairNow)
      /\ G[1] = FirstOf(ctx, g[2]) /\ G[Len(G)] = g[Len(g)]
  <2>1. /\ frames # <<>> /\ frames \in Seq(Reader!Frame) /\ Chain(frames, g, PairNow)
        /\ new \in Seq(Reader!Frame) /\ Linked(new, ctx, g[2], PairNow)
    BY <1>0, <1>1
  <2> HIDE DEF G
  <2>2. /\ Chain(new \o Tail(frames), ctx \o Tail(g), PairNow)
        /\ StartsIn(ctx \o Tail(g), FirstOf(ctx, g[2]))
        /\ EndsIn(ctx \o Tail(g), g[Len(g)])
    BY <2>1, Onward, Zenon
  <2> QED BY <2>2 DEF G, StartsIn, EndsIn
<1>3. /\ m \in Nat /\ Len(frames) \in Nat /\ Len(frames) >= 1
      /\ Len(frames') = m + Len(frames) - 1
      /\ \A i \in 1 .. m : frames'[i] = new[i]
      /\ \A i \in 2 .. Len(frames) : frames'[i + m - 1] = frames[i]
  BY <1>0, <1>1, ReplacedHead
<1>4. Round' = Round /\ PairNow' = PairNow
  BY <1>0 DEF Round, PairNow, Classes
<1>5. LastContext' = LastContext
  BY <1>0, <1>4 DEF LastContext, AllOwed, Classes
<1>6. new = <<>> <=> m = 0
  BY <1>0, EmptySeq
<1>7. frames' \in Seq(Reader!Frame)
  BY DEF ReaderTypes
<1> HIDE DEF G, m
<1>8. CASE frames' = <<>>
  <2>1. Len(frames') = 0
    BY <1>8
  <2>2. m = 0 /\ Len(frames) = 1
    <3>1. m \in Nat /\ Len(frames) \in Nat /\ Len(frames) >= 1 /\ Len(frames') = m + Len(frames) - 1
      BY <1>3
    <3> QED BY ONLY <2>1, <3>1
  <2>3. new = <<>>
    BY <1>6, <2>2
  <2>4. Len(g) = 2
    BY <1>1, <2>2 DEF Chain
  <2>5. ctx = <<>>
    BY <1>0, <2>2, EmptySeq DEF Linked, m
  <2>6. FirstOf(ctx, g[2]) = LastContext
    BY <1>1, <2>4, <2>5 DEF FirstOf
  <2>7. Present(LastContext, y)'
    BY <1>0, <1>5, <2>6
  <2>8. /\ y.calls = <<>> /\ <<Null>> = <<mCurrentPendingVariables'>> \o mVariableHistory'
        /\ ~mObjectSkipping'
        /\ y.at <= Len(stream') => result' = AllOwed(Round)'
        /\ ~Mismatched[PairNow']
    BY <2>7, ReaderTypes' DEF Present, LastContext, ReaderTypes
  <2>9. mCurrentPendingVariables' = Null /\ mVariableHistory' = <<>>
    <3>1. mVariableHistory' \in Seq({Null} \cup SUBSET Reader!PendingMember)
      BY DEF ReaderTypes
    <3>2. /\ Len(mVariableHistory') \in Nat
          /\ Len(<<mCurrentPendingVariables'>> \o mVariableHistory') = Len(mVariableHistory') + 1
          /\ (<<mCurrentPendingVariables'>> \o mVariableHistory')[1] = mCurrentPendingVariables'
      BY <3>1, Fronted
    <3>3. Len(<<Null>>) = 1 /\ <<Null>>[1] = Null
      OBVIOUS
    <3>4. Len(mVariableHistory') = 0 /\ mCurrentPendingVariables' = Null
      BY <2>8, <3>2, <3>3
    <3> QED BY <3>1, <3>4, EmptySeq
  <2>10. Round' <= Len(sent') /\ y.n = Round'
    BY <1>0, <1>1, <1>4
  <2>11. Reached(y.at)' /\ ~mCurrentIndexPending' /\ y.at <= Len(stream')
    BY <2>2, <2>3 DEF Continues
  <2>12. Idle(y)'
    BY <1>8, <2>8, <2>9, <2>10, <2>11 DEF Idle
  <2> QED BY <2>12
<1>9. CASE frames' # <<>>
  <2>1. ASSUME NEW i \in 2 .. Len(frames') PROVE Waits(frames'[i])
    <3>1. CASE i <= m
      BY <1>0, <1>3, <3>1
    <3>2. CASE i > m
      <4>1. i - m + 1 \in 2 .. Len(frames) /\ (i - m + 1) + m - 1 = i
        BY <1>3, <3>2
      <4>2. frames'[i] = frames[i - m + 1]
        BY <1>3, <4>1
      <4> QED BY <1>1, <4>1, <4>2
    <3> QED BY <1>3, <3>1, <3>2
  <2>2. /\ TakenSince(frames[1], y)'
        /\ HeaderSeen(frames[1])' => y.at + 1 <= Len(stream') /\ W[y.at + 1] = SeenHeader(frames[1])'
    <3>1. CASE new # <<>>
      <4>1. frames'[1] = new[1]
        BY <1>3, <1>6, <3>1
      <4> QED BY <3>1, <4>1 DEF Continues
    <3>2. CASE new = <<>>
      <4>0. Len(frames') >= 1
        BY <1>7, <1>9, EmptySeq, LenProperties
      <4>1. 2 \in 2 .. Len(frames) /\ 2 + m - 1 = 1
        BY <1>3, <1>6, <3>2, <4>0
      <4>2. Waits(frames'[1])
        BY <1>1, <1>3, <4>1
      <4>3. ~HeaderSeen(frames[1])'
        BY <3>2, <4>2 DEF Continues, HeaderSeen, Waits
      <4>4. y.at + OneIf(HeaderSeen(frames[1])') = y.at
        BY <4>3 DEF OneIf, Moment
      <4>5. TakenSince(frames[1], y)'
        BY <3>2, <4>2, <4>4 DEF Continues, TakenSince, Waits
      <4> QED BY <4>3, <4>5
    <3> QED BY <3>1, <3>2
  <2>3. Chain(frames, G, PairNow)' /\ Present(G[1], y)' /\ G[Len(G)] = LastContext'
    BY <1>0, <1>1, <1>2, <1>4, <1>5
  <2>4. Round' <= Len(sent') /\ y.n = Round'
    BY <1>0, <1>1, <1>4
  <2>5. Following(y, W, G)'
    BY <1>9, <2>1, <2>2, <2>3, <2>4 DEF Following
  <2> QED BY <2>5
<1> QED BY <1>8, <1>9

\* One or two calls, or none.
LEMMA OneLinked ==
  ASSUME NEW wr, NEW f \in Reader!Frame, NEW T \in Context, NEW R, Stands(f, T, R, wr)
  PROVE  <<f>> \in Seq(Reader!Frame) /\ Linked(<<f>>, <<T>>, R, wr) /\ FirstOf(<<T>>, R) = T
<1>1. <<f>> \in Seq(Reader!Frame) /\ <<T>> \in Seq(Context)
  OBVIOUS
<1>2. Len(<<f>>) = 1 /\ Len(<<T>>) = 1 /\ <<f>>[1] = f /\ <<T>>[1] = T /\ <<T>> # <<>>
  OBVIOUS
<1> QED BY <1>1, <1>2 DEF Linked, FirstOf

\* Two calls in a row.
LEMMA TwoLinked ==
  ASSUME NEW wr, NEW f \in Reader!Frame, NEW e \in Reader!Frame, NEW T \in Context, NEW U \in Context,
         NEW R, Stands(f, T, U, wr), Stands(e, U, R, wr)
  PROVE  <<f, e>> \in Seq(Reader!Frame) /\ Linked(<<f, e>>, <<T, U>>, R, wr) /\ FirstOf(<<T, U>>, R) = T
<1>1. <<f, e>> \in Seq(Reader!Frame) /\ <<T, U>> \in Seq(Context)
  OBVIOUS
<1>2. /\ Len(<<f, e>>) = 2 /\ Len(<<T, U>>) = 2 /\ <<f, e>>[1] = f /\ <<T, U>>[1] = T
      /\ <<f, e>>[2] = e /\ <<T, U>>[2] = U /\ <<T, U>> # <<>>
  OBVIOUS
<1>3. ASSUME NEW i \in 1 .. 2 PROVE i = 1 \/ i = 2
  OBVIOUS
<1>4. \A i \in 1 .. 2 : Stands(<<f, e>>[i], <<T, U>>[i], IF i = 2 THEN R ELSE <<T, U>>[i + 1], wr)
  BY <1>2, <1>3
<1> QED BY <1>1, <1>2, <1>4 DEF Linked, FirstOf

\* No call at all.
LEMMA NoneLinked ==
  ASSUME NEW wr, NEW R
  PROVE  <<>> \in Seq(Reader!Frame) /\ Linked(<<>>, <<>>, R, wr) /\ FirstOf(<<>>, R) = R
BY DEF Linked, FirstOf

\* The reader is at moment x of the writer; y is the next, if there is one.
IsAt(x, y, W, g) ==
  /\ IInv /\ mCleanExit /\ Following(x, W, g) /\ Prefix(stream, W) /\ W \in Seq(Token)
  /\ x \in Moment /\ y \in Moment
  /\ x.calls # <<>> =>
       x.at <= y.at /\ y.at <= Len(W) /\ (Returns(x, y, W) \/ StoresNext(x, y, W))
  /\ PairNow \in ClassPairs /\ ~Unsupported[PairNow]

\* It is at one of them.
Goal(x, y, W) ==
  \E z \in {x, y} : Idle(z) \/ \E G : Following(z, W, G)

\* What is known of the innermost call.
LEMMA Innermost ==
  ASSUME NEW x, NEW y, NEW W, NEW g, IsAt(x, y, W, g)
  PROVE  /\ frames # <<>> /\ frames[1] \in Reader!Frame /\ Reader!Top = frames[1]
         /\ g[1] \in Context /\ g[2] \in Context
         /\ Stands(frames[1], g[1], g[2], PairNow) /\ Present(g[1], x)
         /\ TakenSince(frames[1], x)
         /\ HeaderSeen(frames[1]) => x.at + 1 <= Len(stream) /\ W[x.at + 1] = SeenHeader(frames[1])
<1>1. ReaderTypes /\ frames # <<>> /\ Chain(frames, g, PairNow)
  BY DEF IsAt, IInv, Following
<1>2. frames \in Seq(Reader!Frame) /\ Len(frames) \in Nat /\ Len(frames) >= 1
  BY <1>1, EmptySeq, LenProperties DEF ReaderTypes
<1>3. g \in Seq(Context) /\ Len(g) = Len(frames) + 1
      /\ \A i \in 1 .. Len(frames) : Stands(frames[i], g[i], g[i + 1], PairNow)
  BY <1>1 DEF Chain
<1>4. 1 \in 1 .. Len(frames) /\ 1 \in 1 .. Len(g) /\ 2 \in 1 .. Len(g)
  BY <1>2, <1>3
<1>5. Stands(frames[1], g[1], g[2], PairNow)
  BY <1>3, <1>4
<1>6. g[1] \in Context /\ g[2] \in Context
  BY <1>3, <1>4, ElementOfSeq
<1> QED BY <1>1, <1>5, <1>6, TopType DEF IsAt, Following

\* The innermost call goes on.
LEMMA Stays ==
  ASSUME NEW x, NEW y, NEW W, NEW g, IsAt(x, y, W, g), NEW z \in {x, y}, z.n = x.n,
         ReaderTypes', sent' = sent, entered' = entered, stream' = stream,
         NEW f \in Reader!Frame, frames' = <<f>> \o Tail(frames),
         NEW T \in Context, Stands(f, T, g[2], PairNow), Present(T, z)', TakenSince(f, z)',
         HeaderSeen(f)' => z.at + 1 <= Len(stream) /\ W[z.at + 1] = SeenHeader(f)'
  PROVE  Goal(x, y, W)'
<1>1. <<f>> \in Seq(Reader!Frame) /\ Linked(<<f>>, <<T>>, g[2], PairNow) /\ FirstOf(<<T>>, g[2]) = T
  BY OneLinked
<1>2. <<f>> # <<>> /\ <<f>>[1] = f /\ Len(<<f>>) = 1
  OBVIOUS
<1>3. Continues(x, z, W, g, <<f>>, <<T>>)
  BY <1>1, <1>2 DEF Continues
<1>4. ReaderTypes /\ z \in Moment /\ Following(x, W, g)
  BY DEF IsAt, IInv
<1>5. Idle(z)' \/ \E G : Following(z, W, G)'
  BY <1>3, <1>4, FollowsOn
<1> QED BY <1>5 DEF Goal

\* The innermost call calls another.
LEMMA Invokes ==
  ASSUME NEW x, NEW y, NEW W, NEW g, IsAt(x, y, W, g),
         ReaderTypes', sent' = sent, entered' = entered, stream' = stream,
         NEW f \in Reader!Frame, NEW e \in Reader!Frame, frames' = <<f, e>> \o Tail(frames),
         NEW T \in Context, NEW U \in Context, Stands(f, T, U, PairNow), Stands(e, U, g[2], PairNow),
         Present(T, x)', TakenSince(f, x)', Waits(e),
         f.what \notin {"object", "skip"}
  PROVE  Goal(x, y, W)'
<1>1. <<f, e>> \in Seq(Reader!Frame) /\ Linked(<<f, e>>, <<T, U>>, g[2], PairNow) /\ FirstOf(<<T, U>>, g[2]) = T
  BY TwoLinked
<1>2. <<f, e>> # <<>> /\ <<f, e>>[1] = f /\ Len(<<f, e>>) = 2 /\ <<f, e>>[2] = e
  OBVIOUS
<1>3. \A i \in 2 .. 2 : i = 2
  OBVIOUS
<1>4. ~HeaderSeen(f)'
  BY DEF HeaderSeen
<1>5. x.n = x.n
  OBVIOUS
<1>6. Continues(x, x, W, g, <<f, e>>, <<T, U>>)
  BY <1>1, <1>2, <1>3, <1>4 DEF Continues
<1>7. ReaderTypes /\ x \in Moment /\ Following(x, W, g)
  BY DEF IsAt, IInv
<1>8. Idle(x)' \/ \E G : Following(x, W, G)'
  BY <1>6, <1>7, FollowsOn
<1> QED BY <1>8 DEF Goal

\* The innermost call returns.
LEMMA ReturnsTo ==
  ASSUME NEW x, NEW y, NEW W, NEW g, IsAt(x, y, W, g), NEW z \in {x, y}, z.n = x.n,
         ReaderTypes', sent' = sent, entered' = entered, stream' = stream,
         frames' = Tail(frames), Present(g[2], z)', Reached(z.at)', ~mCurrentIndexPending',
         frames[1].what = "object" => z.at <= Len(stream)
  PROVE  Goal(x, y, W)'
<1>1. <<>> \in Seq(Reader!Frame) /\ Linked(<<>>, <<>>, g[2], PairNow) /\ FirstOf(<<>>, g[2]) = g[2]
  BY NoneLinked
<1>2. ReaderTypes /\ z \in Moment /\ Following(x, W, g) /\ frames # <<>> /\ BottomInv /\ mCleanExit
  BY DEF IsAt, IInv, Following
<1>3. <<>> \o Tail(frames) = Tail(frames)
  <2>1. frames \in Seq(Reader!Frame)
    BY <1>2 DEF ReaderTypes
  <2>2. Tail(frames) \in Seq(Reader!Frame)
    BY <1>2, <2>1, HeadTailProperties
  <2> QED BY <2>2, ConcatEmptySeq
<1>4. Len(frames) = 1 => frames[1].what = "object"
  BY <1>2 DEF BottomInv, Entering, IsEntered
<1>5. Continues(x, z, W, g, <<>>, <<>>)
  <2>1. \A i \in 2 .. Len(<<>>) : Waits(<<>>[i])
    OBVIOUS
  <2> QED BY <1>1, <1>3, <1>4, <2>1 DEF Continues
<1>6. Idle(z)' \/ \E G : Following(z, W, G)'
  BY <1>2, <1>5, FollowsOn
<1> QED BY <1>6 DEF Goal

-----------------------------------------------------------------------------
(*****************************************************************************)
(* The innermost call, an object.                                          *)
(*****************************************************************************)
\* The calls of a writer.
LEMMA CallTypes ==
  ASSUME NEW cs \in Seq(CallRecord), cs # <<>>
  PROVE  /\ Head(cs) \in CallRecord /\ Tail(cs) \in Seq(CallRecord)
         /\ Head(cs).path \in Seq(Nat) /\ Head(cs).todo \in Seq(Member)
         /\ Head(cs).as \in {"object", "value", "inner"}
         /\ Head(cs).todo # <<>> =>
              /\ Item(cs) \in Member /\ ItemPath(cs) \in Seq(Nat)
              /\ AfterStore(cs) \in Seq(CallRecord) /\ AfterStore(cs) # <<>>
              /\ Tail(AfterStore(cs)) = Tail(cs)
              /\ Head(AfterStore(cs)) = [Head(cs) EXCEPT !.todo = Tail(@)]
              /\ Head(AfterStore(cs)).todo = Tail(Head(cs).todo)
              /\ Head(AfterStore(cs)).as = Head(cs).as
              /\ Head(AfterStore(cs)).path = Head(cs).path
<1>1. Head(cs) \in CallRecord /\ Tail(cs) \in Seq(CallRecord)
  BY HeadTailProperties
<1>2. /\ Head(cs).path \in Seq(Nat) /\ Head(cs).todo \in Seq(Member)
      /\ Head(cs).as \in {"object", "value", "inner"}
  BY <1>1 DEF CallRecord
<1>3. ASSUME Head(cs).todo # <<>>
      PROVE  /\ Item(cs) \in Member /\ ItemPath(cs) \in Seq(Nat)
             /\ AfterStore(cs) \in Seq(CallRecord) /\ AfterStore(cs) # <<>>
             /\ Tail(AfterStore(cs)) = Tail(cs)
             /\ Head(AfterStore(cs)) = [Head(cs) EXCEPT !.todo = Tail(@)]
             /\ Head(AfterStore(cs)).todo = Tail(Head(cs).todo)
             /\ Head(AfterStore(cs)).as = Head(cs).as
             /\ Head(AfterStore(cs)).path = Head(cs).path
  <2>1. Item(cs) \in Member /\ Tail(Head(cs).todo) \in Seq(Member)
    BY <1>2, <1>3, HeadTailProperties DEF Item
  <2>2. Item(cs).index \in Nat
    <3>1. Item(cs).index \in 0 .. 27
      BY <2>1 DEF Member
    <3>2. \A i \in 0 .. 27 : i \in Nat
      OBVIOUS
    <3> QED BY <3>1, <3>2, Zenon
  <2>3. ItemPath(cs) \in Seq(Nat)
    BY <1>2, <2>2 DEF ItemPath
  <2> DEFINE c == [Head(cs) EXCEPT !.todo = Tail(@)]
  <2>4. /\ c \in CallRecord /\ c.todo = Tail(Head(cs).todo) /\ c.as = Head(cs).as
        /\ c.path = Head(cs).path
    BY <1>1, <2>1 DEF CallRecord
  <2>5. AfterStore(cs) = <<c>> \o Tail(cs)
    BY DEF AfterStore
  <2> HIDE DEF c
  <2>6. <<c>> \in Seq(CallRecord)
    BY <2>4
  <2>7. /\ <<c>> \o Tail(cs) \in Seq(CallRecord) /\ <<c>> \o Tail(cs) # <<>>
        /\ Head(<<c>> \o Tail(cs)) = c /\ Tail(<<c>> \o Tail(cs)) = Tail(cs)
    BY <1>1, <2>4
  <2> QED BY <2>1, <2>3, <2>4, <2>5, <2>7 DEF c
<1> QED BY <1>1, <1>2, <1>3

\* No member has the header of a Terminator.
LEMMA HeaderKinds ==
  ASSUME NEW m \in Member
  PROVE  /\ GetHeaderEnum(m.type) # "Terminator" /\ HeaderOf(m).index = m.index
         /\ HeaderOf(m).type = GetHeaderEnum(m.type)
         /\ HeaderOf(m).token = "header"
         /\ GetHeaderEnum(m.type) \in HeaderTypes
         /\ Terminator.type = "Terminator" /\ Terminator.index = 0 /\ Terminator.token = "header"
BY DEF GetHeaderEnum, HeaderOf, Header, Terminator, Member, PrimitiveTypes, IntegerTypes, HeaderTypes

\* A header that has been taken and not used is that of the next member of the
\* writer, or the Terminator.
LEMMA SeenItem ==
  ASSUME NEW x, NEW y, NEW W, NEW g, IsAt(x, y, W, g), HeaderSeen(frames[1]),
         x.calls # <<>>, Head(x.calls).as = "object"
  PROVE  LET s == SeenHeader(frames[1])
         IN  /\ y.n = x.n /\ x.at + 1 <= Len(stream)
             /\ s.type = "Terminator" =>
                  /\ Head(x.calls).todo = <<>> /\ s.index = 0
                  /\ y.calls = Tail(x.calls) /\ y.at = x.at + 1
             /\ s.type # "Terminator" =>
                  /\ Head(x.calls).todo # <<>> /\ StoresNext(x, y, W)
                  /\ s.index = Item(x.calls).index /\ s.type = GetHeaderEnum(Item(x.calls).type)
<1> DEFINE s == SeenHeader(frames[1])
<1>1. x.at + 1 <= Len(stream) /\ W[x.at + 1] = s
  BY Innermost
<1>2. x.calls \in Seq(CallRecord) /\ x \in Moment /\ y \in Moment
      /\ (Returns(x, y, W) \/ StoresNext(x, y, W))
  BY DEF IsAt, Moment
<1>3. CASE Returns(x, y, W)
  <2>1. /\ Head(x.calls).todo = <<>> /\ y.n = x.n /\ y.calls = Tail(x.calls)
        /\ y.at = x.at + 1 /\ W[y.at] = Terminator
    BY <1>3 DEF Returns, OneIf
  <2>2. s.type = "Terminator" /\ s.index = 0
    BY <1>1, <2>1, HeaderKinds DEF Terminator, Header
  <2> QED BY <1>1, <2>1, <2>2
<1>4. CASE StoresNext(x, y, W)
  <2>1. Head(x.calls).todo # <<>> /\ y.n = x.n /\ W[x.at + 1] = HeaderOf(Item(x.calls))
    BY <1>4 DEF StoresNext
  <2>2. Item(x.calls) \in Member
    BY <1>2, <2>1, CallTypes
  <2>3. s = HeaderOf(Item(x.calls))
    BY <1>1, <2>1
  <2> HIDE DEF s
  <2>4. s.type = GetHeaderEnum(Item(x.calls).type) /\ s.index = Item(x.calls).index /\ s.type # "Terminator"
    BY <2>2, <2>3, HeaderKinds
  <2> QED BY <1>1, <1>4, <2>1, <2>4 DEF s
<1> QED BY <1>2, <1>3, <1>4

\* An object that is being read.
LEMMA ObjectNow ==
  ASSUME NEW x, NEW y, NEW W, NEW g, IsAt(x, y, W, g), frames[1].what = "object"
  PROVE  /\ frames[1] \in Reader!ObjectFrames
         /\ StandsObject(frames[1], g[1], g[2], PairNow)
         /\ x.calls # <<>> /\ Head(x.calls).as = "object" /\ Head(x.calls).path = frames[1].path
         /\ x.calls = g[1].calls /\ g[2].calls = Tail(x.calls)
         /\ g[1].arrays = <<mCurrentPendingVariables>> \o mVariableHistory
         /\ Head(g[1].arrays) = mCurrentPendingVariables
         /\ Tail(g[1].arrays) = mVariableHistory
         /\ mObjectSkipping = FALSE
         /\ Reached(x.at + OneIf(HeaderSeen(frames[1])))
<1>1. /\ Stands(frames[1], g[1], g[2], PairNow) /\ Present(g[1], x) /\ frames[1] \in Reader!Frame
      /\ TakenSince(frames[1], x) /\ g[1] \in Context
  BY Innermost
<1>2. StandsObject(frames[1], g[1], g[2], PairNow) /\ frames[1] \in Reader!ObjectFrames
  BY <1>1, Kinds DEF Stands
<1>3. g[1].calls = x.calls /\ g[1].arrays = <<mCurrentPendingVariables>> \o mVariableHistory
      /\ g[1].skipping = mObjectSkipping
  BY <1>1 DEF Present
<1>4. mVariableHistory \in Seq({Null} \cup SUBSET Reader!PendingMember) /\ mObjectSkipping \in BOOLEAN
      /\ mCurrentPendingVariables \in {Null} \cup SUBSET Reader!PendingMember
  BY DEF IsAt, IInv, ReaderTypes
<1>5. Head(g[1].arrays) = mCurrentPendingVariables /\ Tail(g[1].arrays) = mVariableHistory
  BY <1>3, <1>4
<1>6. Reached(x.at + OneIf(HeaderSeen(frames[1])))
  BY <1>1 DEF TakenSince
<1> QED BY <1>2, <1>3, <1>4, <1>5, <1>6 DEF StandsObject

\* The contexts around the next item of the writer.
AfterSkip(T) == [T EXCEPT !.calls = AfterStore(@)]
AfterRead(T, n) ==
  [T EXCEPT !.calls = AfterStore(@),
            !.got = @ \cup Owed(Head(T.calls).path, Yield(Item(T.calls), n)),
            !.clean = @ /\ ~Bad(Item(T.calls), n)]
WithArray(T, A) == [T EXCEPT !.arrays = <<A>> \o Tail(@)]

\* What is owed is a set of values with their paths.
LEMMA OwedTypes ==
  ASSUME NEW path \in Seq(Nat), NEW P \in SUBSET Seq(Nat)
  PROVE  Owed(path, P) \in SUBSET (Seq(Nat) \X Seq(Nat))
<1>1. ASSUME NEW e \in Owed(path, P) PROVE e \in Seq(Nat) \X Seq(Nat)
  <2>1. PICK p \in P : e = Kept(path \o p)
    BY <1>1 DEF Owed
  <2>2. path \o p \in Seq(Nat)
    BY <2>1
  <2>3. Kept(path \o p) \in Seq(Nat) \X Seq(Nat)
    BY <2>2 DEF Kept
  <2> QED BY <2>1, <2>3
<1> QED BY <1>1

\* What a member gives has paths.
LEMMA YieldTypes ==
  ASSUME NEW pr \in ClassPairs, NEW m \in MembersOf(pr[1]), NEW n \in MembersOf(pr[2])
  PROVE  Yield(m, n) \in SUBSET Seq(Nat)
<1>1. pr[1] \in Class /\ pr[2] \in Class
  BY DEF ClassPairs
<1>2. Common \in [ClassPairs -> SUBSET Seq(Nat)]
  BY CommonFixed
<1>3. Below(m, n, Common) \in SUBSET Seq(Nat)
  BY <1>1, <1>2, BelowTypes
<1>4. CASE Fitting(m, n)
  BY <1>3, <1>4 DEF Yield
<1>5. CASE ~Fitting(m, n)
  BY <1>5 DEF Yield
<1> QED BY <1>4, <1>5

\* The fields of a context.
LEMMA ContextTypes ==
  ASSUME NEW T \in Context
  PROVE  /\ T.calls \in Seq(CallRecord) /\ T.arrays \in Seq({Null} \cup SUBSET Reader!PendingMember)
         /\ T.skipping \in BOOLEAN /\ T.clean \in BOOLEAN
         /\ T.got \in SUBSET (Seq(Nat) \X Seq(Nat))
BY DEF Context

\* The context after one item, skipped or read.
LEMMA AfterItem ==
  ASSUME NEW T \in Context, T.calls # <<>>, Head(T.calls).todo # <<>>
  PROVE  /\ AfterSkip(T) \in Context
         /\ AfterSkip(T).calls = AfterStore(T.calls) /\ AfterSkip(T).arrays = T.arrays
         /\ AfterSkip(T).skipping = T.skipping /\ AfterSkip(T).got = T.got
         /\ AfterSkip(T).clean = T.clean
         /\ \A n : LET U == AfterRead(T, n)
                   IN  /\ U.calls = AfterStore(T.calls) /\ U.arrays = T.arrays
                       /\ U.skipping = T.skipping
                       /\ U.got = T.got \cup Owed(Head(T.calls).path, Yield(Item(T.calls), n))
                       /\ U.clean = (T.clean /\ ~Bad(Item(T.calls), n))
                       /\ Yield(Item(T.calls), n) \in SUBSET Seq(Nat) => U \in Context
<1>1. /\ AfterStore(T.calls) \in Seq(CallRecord) /\ Head(T.calls).path \in Seq(Nat)
  BY CallTypes, ContextTypes
<1>2. /\ AfterSkip(T).calls = AfterStore(T.calls) /\ AfterSkip(T).arrays = T.arrays
      /\ AfterSkip(T).skipping = T.skipping /\ AfterSkip(T).got = T.got
      /\ AfterSkip(T).clean = T.clean
  BY DEF AfterSkip, Context
<1>3. AfterSkip(T) \in Context
  BY <1>1 DEF AfterSkip, Context
<1>4. ASSUME NEW n
      PROVE  LET U == AfterRead(T, n)
             IN  /\ U.calls = AfterStore(T.calls) /\ U.arrays = T.arrays
                 /\ U.skipping = T.skipping
                 /\ U.got = T.got \cup Owed(Head(T.calls).path, Yield(Item(T.calls), n))
                 /\ U.clean = (T.clean /\ ~Bad(Item(T.calls), n))
                 /\ Yield(Item(T.calls), n) \in SUBSET Seq(Nat) => U \in Context
  <2> DEFINE G == T.got \cup Owed(Head(T.calls).path, Yield(Item(T.calls), n))
             C == T.clean /\ ~Bad(Item(T.calls), n)
             A == AfterStore(T.calls)
  <2>1. AfterRead(T, n) = [T EXCEPT !.calls = A, !.got = G, !.clean = C]
    BY DEF AfterRead, Context
  <2>2. Yield(Item(T.calls), n) \in SUBSET Seq(Nat) => G \in SUBSET (Seq(Nat) \X Seq(Nat))
    <3>1. ASSUME Yield(Item(T.calls), n) \in SUBSET Seq(Nat)
          PROVE  G \in SUBSET (Seq(Nat) \X Seq(Nat))
      <4>1. Owed(Head(T.calls).path, Yield(Item(T.calls), n)) \in SUBSET (Seq(Nat) \X Seq(Nat))
        BY <1>1, <3>1, OwedTypes
      <4>2. T.got \in SUBSET (Seq(Nat) \X Seq(Nat))
        BY ContextTypes
      <4> QED BY <4>1, <4>2
    <3> QED BY <3>1
  <2>3. C \in BOOLEAN /\ A \in Seq(CallRecord)
    BY <1>1
  <2> HIDE DEF G, C, A
  <2>4. /\ AfterRead(T, n).calls = A /\ AfterRead(T, n).arrays = T.arrays
        /\ AfterRead(T, n).skipping = T.skipping
        /\ AfterRead(T, n).got = G /\ AfterRead(T, n).clean = C
    BY <2>1 DEF Context
  <2>5. G \in SUBSET (Seq(Nat) \X Seq(Nat)) => AfterRead(T, n) \in Context
    BY <2>1, <2>3 DEF Context
  <2> QED BY <2>2, <2>4, <2>5 DEF G, C, A
<1> QED BY <1>2, <1>3, <1>4

\* A context with another array of pending members.
LEMMA OtherArray ==
  ASSUME NEW T \in Context, T.arrays # <<>>, NEW A \in SUBSET Reader!PendingMember
  PROVE  /\ WithArray(T, A) \in Context
         /\ WithArray(T, A).arrays = <<A>> \o Tail(T.arrays)
         /\ WithArray(T, A).arrays # <<>>
         /\ Head(WithArray(T, A).arrays) = A /\ Tail(WithArray(T, A).arrays) = Tail(T.arrays)
         /\ WithArray(T, A).calls = T.calls /\ WithArray(T, A).skipping = T.skipping
         /\ WithArray(T, A).got = T.got /\ WithArray(T, A).clean = T.clean
<1> DEFINE B == <<A>> \o Tail(T.arrays)
           E == {Null} \cup SUBSET Reader!PendingMember
<1>1. T.arrays \in Seq(E) /\ A \in E
  BY ContextTypes
<1>2. Tail(T.arrays) \in Seq(E)
  BY <1>1, HeadTailProperties
<1> HIDE DEF E
<1>3. B \in Seq(E) /\ B # <<>> /\ Head(B) = A /\ Tail(B) = Tail(T.arrays)
  BY <1>1, <1>2
<1>4. WithArray(T, A) = [T EXCEPT !.arrays = B]
  BY DEF WithArray
<1> HIDE DEF B
<1>5. WithArray(T, A) \in Context
  BY <1>3, <1>4 DEF Context, E
<1>6. /\ WithArray(T, A).arrays = B
      /\ WithArray(T, A).calls = T.calls /\ WithArray(T, A).skipping = T.skipping
      /\ WithArray(T, A).got = T.got /\ WithArray(T, A).clean = T.clean
  BY <1>4 DEF Context
<1> QED BY <1>3, <1>5, <1>6 DEF B

\* What an object frame stands for.
IsBetween(f, T, R, pr) ==
  /\ Meets(pr, Head(T.calls).todo, f.path, f.todo,
           IF f.at = "enter" THEN {} ELSE Head(T.arrays),
           IF f.at = "returned" THEN {f.index} ELSE {})
  /\ R.got = T.got \cup Owed(f.path, Rest(Head(T.calls).todo, pr[2]))
  /\ R.clean = (T.clean /\ Good(Head(T.calls).todo, pr[2]))

\* A member is read, by the Store call or through its closure.
LEMMA ObjectReads ==
  ASSUME NEW wr \in ClassPairs, NEW f, NEW T \in Context, NEW R \in Context, StandsObject(f, T, R, wr),
         f.at \in {"store", "found"}, Head(T.calls).todo # <<>>,
         NEW n, n.index = Item(T.calls).index, NEW e, e.path = f.path,
         \/ /\ f.todo # <<>> /\ n = Head(f.todo)
            /\ e.at = "store" /\ e.todo = Tail(f.todo)
         \/ /\ \E p \in Head(T.arrays) : p.member = n
            /\ e.at = "returned" /\ e.todo = f.todo /\ e.index = n.index
  PROVE  /\ AfterRead(T, n) \in Context
         /\ Reads(n, Append(f.path, n.index), T, AfterRead(T, n), wr)
         /\ StandsObject(e, AfterRead(T, n), R, wr)
<1> DEFINE U == AfterRead(T, n)
           w == Head(T.calls).todo
           m == Item(T.calls)
           A == Head(T.arrays)
<1>1. /\ ~T.skipping /\ ~R.skipping
      /\ T.calls # <<>> /\ Head(T.calls).as = "object" /\ Head(T.calls).path = f.path
      /\ R.calls = Tail(T.calls)
      /\ T.arrays # <<>> /\ A \in SUBSET Reader!PendingMember /\ R.arrays = Tail(T.arrays)
  BY DEF StandsObject
<1>2. PICK pr \in Pairs[wr] : IsBetween(f, T, R, pr)
  BY DEF StandsObject, IsBetween
<1>3. /\ Meets(pr, w, f.path, f.todo, A, {})
      /\ R.got = T.got \cup Owed(f.path, Rest(w, pr[2]))
      /\ R.clean = (T.clean /\ Good(w, pr[2]))
  BY <1>2 DEF IsBetween
<1>4. pr \in ClassPairs
  BY PairsClosed
<1>5. /\ pr[1] \in Class /\ pr[2] \in Class /\ LeftOf(w, pr[1])
      /\ Items(w) \subseteq MembersOf(pr[1]) /\ Items(f.todo) \subseteq MembersOf(pr[2])
      /\ Waiting(f.todo, A, {}) \subseteq MembersOf(pr[2])
      /\ Head(w) \in Items(w)
      /\ f.todo # <<>> => Head(f.todo) \in Items(f.todo)
  BY <1>3, <1>4, MeetsTypes
<1>6. m = Head(w) /\ m \in MembersOf(pr[1])
  BY <1>5 DEF Item
<1>7. n \in MembersOf(pr[2])
  <2>1. CASE f.todo # <<>> /\ n = Head(f.todo)
    BY <1>5, <2>1
  <2>2. CASE \E p \in A : p.member = n
    <3>1. n \in Waiting(f.todo, A, {})
      BY <2>2 DEF Waiting
    <3> QED BY <1>5, <3>1
  <2> QED BY <2>1, <2>2
<1>8. /\ Rest(w, pr[2]) = Yield(m, n) \cup Rest(Tail(w), pr[2])
      /\ Good(w, pr[2]) <=> (~Bad(m, n) /\ Good(Tail(w), pr[2]))
  BY <1>5, <1>6, <1>7, RestTaken
<1>9. Yield(m, n) \in SUBSET Seq(Nat)
  BY <1>4, <1>6, <1>7, YieldTypes
<1>10. /\ U.calls = AfterStore(T.calls) /\ U.arrays = T.arrays /\ U.skipping = T.skipping
       /\ U.got = T.got \cup Owed(Head(T.calls).path, Yield(m, n))
       /\ U.clean = (T.clean /\ ~Bad(m, n))
       /\ U \in Context
  BY <1>1, <1>9, AfterItem
<1>11. /\ AfterStore(T.calls) # <<>> /\ Tail(AfterStore(T.calls)) = Tail(T.calls)
       /\ Head(AfterStore(T.calls)).todo = Tail(w)
       /\ Head(AfterStore(T.calls)).as = "object"
       /\ Head(AfterStore(T.calls)).path = f.path
  BY <1>1, CallTypes, ContextTypes
<1> HIDE DEF U, w, m, A
<1>12. Reads(n, Append(f.path, n.index), T, U, wr)
  <2>1. TakesItem(T, U)
    BY <1>1, <1>10 DEF TakesItem, w
  <2>2. ItemPath(T.calls) = Append(f.path, n.index)
    BY <1>1, <1>6, <1>7 DEF ItemPath, m
  <2> QED BY <1>1, <1>2, <1>6, <1>7, <1>10, <2>1, <2>2 DEF Reads, m
<1>13. R.got = U.got \cup Owed(f.path, Rest(Tail(w), pr[2]))
  <2>1. Owed(f.path, Rest(w, pr[2])) = Owed(f.path, Yield(m, n)) \cup Owed(f.path, Rest(Tail(w), pr[2]))
    BY <1>8, OwedUnion
  <2> QED BY <1>1, <1>3, <1>10, <2>1
<1>14. R.clean = (U.clean /\ Good(Tail(w), pr[2]))
  <2>1. R.clean \in BOOLEAN
    BY ContextTypes
  <2> QED BY <1>3, <1>8, <1>10, <2>1
<1>15. Meets(pr, Tail(w), f.path, e.todo, A, IF e.at = "returned" THEN {e.index} ELSE {})
  <2>1. CASE f.todo # <<>> /\ n = Head(f.todo) /\ e.at = "store" /\ e.todo = Tail(f.todo)
    <3>1. Meets(pr, Tail(w), f.path, Tail(f.todo), A, {})
      BY <1>3, <1>4, <1>6, <2>1, MeetsTaken DEF m, w
    <3> QED BY <2>1, <3>1
  <2>2. CASE (\E p \in A : p.member = n) /\ e.at = "returned" /\ e.todo = f.todo /\ e.index = n.index
    <3>1. PICK p \in A : p.member = n
      BY <2>2
    <3>2. p.member.index = Head(w).index /\ w # <<>>
      BY <1>6, <3>1 DEF m, w
    <3>3. Meets(pr, Tail(w), f.path, f.todo, A, {Head(w).index})
      BY <1>3, <1>4, <3>2, MeetsNow
    <3> QED BY <1>6, <2>2, <3>3 DEF m
  <2> QED BY <2>1, <2>2 DEF A
<1>16. StandsObject(e, U, R, wr)
  <2>1. e.at # "enter"
    OBVIOUS
  <2>2. Head(U.arrays) = A /\ U.arrays # <<>> /\ Tail(U.arrays) = R.arrays
    BY <1>1, <1>10 DEF A
  <2>3. Head(U.calls).todo = Tail(w) /\ Head(U.calls).as = "object" /\ Head(U.calls).path = e.path
        /\ U.calls # <<>> /\ R.calls = Tail(U.calls)
    BY <1>1, <1>10, <1>11
  <2>4. IsBetween(e, U, R, pr)
    BY <1>13, <1>14, <1>15, <2>1, <2>2, <2>3 DEF IsBetween
  <2> QED BY <1>1, <1>2, <1>10, <2>1, <2>2, <2>3, <2>4 DEF StandsObject, IsBetween
<1> QED BY <1>10, <1>12, <1>16 DEF U

\* What is known of an object frame.
LEMMA Between ==
  ASSUME NEW wr \in ClassPairs, NEW f, NEW T, NEW R, StandsObject(f, T, R, wr)
  PROVE  /\ ~T.skipping /\ ~R.skipping
         /\ T.calls # <<>> /\ Head(T.calls).as = "object" /\ Head(T.calls).path = f.path
         /\ R.calls = Tail(T.calls)
         /\ f.at = "enter" => R.arrays = T.arrays
         /\ f.at # "enter" => T.arrays # <<>> /\ Head(T.arrays) \in SUBSET Reader!PendingMember
                              /\ R.arrays = Tail(T.arrays)
         /\ \E pr \in Pairs[wr] : pr \in ClassPairs /\ IsBetween(f, T, R, pr)
BY PairsClosed DEF StandsObject, IsBetween

\* Between two members the object stands as Meets says.
LEMMA BetweenStands ==
  ASSUME NEW wr, NEW f, NEW T, NEW R, NEW pr \in Pairs[wr], IsBetween(f, T, R, pr),
         ~T.skipping, ~R.skipping,
         T.calls # <<>>, Head(T.calls).as = "object", Head(T.calls).path = f.path,
         R.calls = Tail(T.calls), f.at # "enter",
         T.arrays # <<>>, Head(T.arrays) \in SUBSET Reader!PendingMember,
         R.arrays = Tail(T.arrays)
  PROVE  StandsObject(f, T, R, wr)
BY DEF StandsObject, IsBetween

\* The point in StoreTemplate or ReadRemaining changes.
LEMMA ObjectGoesOn ==
  ASSUME NEW wr \in ClassPairs, NEW f, NEW T, NEW R, StandsObject(f, T, R, wr),
         f.at \in {"store", "header", "found"},
         NEW e, e.path = f.path, e.todo = f.todo, e.at \in {"store", "header", "found"}
  PROVE  StandsObject(e, T, R, wr)
<1>1. PICK pr \in Pairs[wr] : pr \in ClassPairs /\ IsBetween(f, T, R, pr)
  BY Between
<1>2. IsBetween(e, T, R, pr)
  BY <1>1 DEF IsBetween
<1> QED BY <1>2, Between, BetweenStands

\* The object has an array of its own.
LEMMA ObjectStarts ==
  ASSUME NEW wr \in ClassPairs, NEW f, NEW T \in Context, NEW R \in Context,
         StandsObject(f, T, R, wr), f.at = "enter",
         NEW e, e.path = f.path, e.todo = f.todo, e.at = "store",
         NEW U, U = [T EXCEPT !.arrays = <<{}>> \o @]
  PROVE  /\ U \in Context /\ StandsObject(e, U, R, wr)
         /\ U.calls = T.calls /\ U.arrays = <<{}>> \o T.arrays
         /\ U.skipping = T.skipping /\ U.got = T.got /\ U.clean = T.clean
<1> DEFINE B == <<{}>> \o T.arrays
           E == {Null} \cup SUBSET Reader!PendingMember
<1>1. /\ ~T.skipping /\ ~R.skipping
      /\ T.calls # <<>> /\ Head(T.calls).as = "object" /\ Head(T.calls).path = f.path
      /\ R.calls = Tail(T.calls) /\ R.arrays = T.arrays
  BY Between
<1>2. PICK pr \in Pairs[wr] : pr \in ClassPairs /\ IsBetween(f, T, R, pr)
  BY Between
<1>3. T.arrays \in Seq(E) /\ {} \in E /\ {} \in SUBSET Reader!PendingMember
  BY ContextTypes
<1> HIDE DEF E
<1>4. B \in Seq(E) /\ B # <<>> /\ Head(B) = {} /\ Tail(B) = T.arrays
  BY <1>3
<1>0. U = [T EXCEPT !.arrays = B]
  OBVIOUS
<1> HIDE DEF B
<1>5. U \in Context
  BY <1>0, <1>4 DEF Context, E
<1>6. /\ U.calls = T.calls /\ U.arrays = B
      /\ U.skipping = T.skipping /\ U.got = T.got /\ U.clean = T.clean
  BY <1>0 DEF Context
<1>7. IsBetween(e, U, R, pr)
  BY <1>2, <1>4, <1>6 DEF IsBetween
<1>8. StandsObject(e, U, R, wr)
  BY <1>1, <1>3, <1>4, <1>6, <1>7, BetweenStands
<1> QED BY <1>5, <1>6, <1>8 DEF B

\* A Store call leaves its member pending.
LEMMA ObjectPends ==
  ASSUME NEW wr \in ClassPairs, NEW f, NEW T \in Context, NEW R \in Context,
         StandsObject(f, T, R, wr), f.at \in {"store", "found"}, f.todo # <<>>,
         NEW e, e.path = f.path, e.todo = Tail(f.todo), e.at = "store",
         NEW A \in SUBSET Reader!PendingMember,
         A = Head(T.arrays) \cup {Reader!Pending(Head(f.todo), Append(f.path, Head(f.todo).index))}
  PROVE  WithArray(T, A) \in Context /\ StandsObject(e, WithArray(T, A), R, wr)
<1>1. /\ ~T.skipping /\ ~R.skipping
      /\ T.calls # <<>> /\ Head(T.calls).as = "object" /\ Head(T.calls).path = f.path
      /\ R.calls = Tail(T.calls)
      /\ T.arrays # <<>> /\ Head(T.arrays) \in SUBSET Reader!PendingMember
      /\ R.arrays = Tail(T.arrays)
  BY Between
<1>2. PICK pr \in Pairs[wr] : pr \in ClassPairs /\ IsBetween(f, T, R, pr)
  BY Between
<1> DEFINE U == WithArray(T, A)
<1>3. /\ U \in Context /\ U.arrays # <<>> /\ Head(U.arrays) = A /\ Tail(U.arrays) = Tail(T.arrays)
      /\ U.calls = T.calls /\ U.skipping = T.skipping /\ U.got = T.got /\ U.clean = T.clean
  BY <1>1, OtherArray
<1> HIDE DEF U
<1>4. Meets(pr, Head(T.calls).todo, f.path, f.todo, Head(T.arrays), {})
  BY <1>2 DEF IsBetween
<1>5. Meets(pr, Head(T.calls).todo, f.path, Tail(f.todo), A, {})
  BY <1>2, <1>4, MeetsLater
<1>6. IsBetween(e, U, R, pr)
  BY <1>2, <1>3, <1>5 DEF IsBetween
<1>7. StandsObject(e, U, R, wr)
  BY <1>1, <1>3, <1>6, BetweenStands
<1> QED BY <1>3, <1>7 DEF U

\* A closure returns.
LEMMA ObjectReturned ==
  ASSUME NEW wr \in ClassPairs, NEW f, NEW T \in Context, NEW R \in Context,
         StandsObject(f, T, R, wr), f.at = "returned",
         NEW e, e.path = f.path, e.todo = f.todo, e.at = "header",
         NEW A \in SUBSET Reader!PendingMember,
         A = {p \in Head(T.arrays) : p.member.index # f.index}
  PROVE  WithArray(T, A) \in Context /\ StandsObject(e, WithArray(T, A), R, wr)
<1>1. /\ ~T.skipping /\ ~R.skipping
      /\ T.calls # <<>> /\ Head(T.calls).as = "object" /\ Head(T.calls).path = f.path
      /\ R.calls = Tail(T.calls)
      /\ T.arrays # <<>> /\ Head(T.arrays) \in SUBSET Reader!PendingMember
      /\ R.arrays = Tail(T.arrays)
  BY Between
<1>2. PICK pr \in Pairs[wr] : pr \in ClassPairs /\ IsBetween(f, T, R, pr)
  BY Between
<1> DEFINE U == WithArray(T, A)
<1>3. /\ U \in Context /\ U.arrays # <<>> /\ Head(U.arrays) = A /\ Tail(U.arrays) = Tail(T.arrays)
      /\ U.calls = T.calls /\ U.skipping = T.skipping /\ U.got = T.got /\ U.clean = T.clean
  BY <1>1, OtherArray
<1> HIDE DEF U
<1>4. Meets(pr, Head(T.calls).todo, f.path, f.todo, Head(T.arrays), {f.index})
  BY <1>2 DEF IsBetween
<1>5. Meets(pr, Head(T.calls).todo, f.path, f.todo, A, {})
  BY <1>4, MeetsReturned
<1>6. IsBetween(e, U, R, pr)
  BY <1>2, <1>3, <1>5 DEF IsBetween
<1>7. StandsObject(e, U, R, wr)
  BY <1>1, <1>3, <1>6, BetweenStands
<1> QED BY <1>3, <1>7 DEF U

\* Nobody asks for a member, and the pair is one that can be read.
LEMMA ObjectSkips ==
  ASSUME NEW wr \in ClassPairs, ~Unsupported[wr], NEW f, NEW T \in Context, NEW R \in Context,
         StandsObject(f, T, R, wr), f.at = "found", f.todo = <<>>, Head(T.calls).todo # <<>>,
         ~\E p \in Head(T.arrays) : p.member.index = Item(T.calls).index,
         NEW e, e.path = f.path, e.todo = <<>>, e.at = "header"
  PROVE  /\ AfterSkip(T) \in Context /\ StandsObject(e, AfterSkip(T), R, wr)
         /\ PlainMember(Item(T.calls))
<1>1. /\ ~T.skipping /\ ~R.skipping
      /\ T.calls # <<>> /\ Head(T.calls).as = "object" /\ Head(T.calls).path = f.path
      /\ R.calls = Tail(T.calls)
      /\ T.arrays # <<>> /\ Head(T.arrays) \in SUBSET Reader!PendingMember
      /\ R.arrays = Tail(T.arrays)
  BY Between
<1>2. PICK pr \in Pairs[wr] : pr \in ClassPairs /\ IsBetween(f, T, R, pr)
  BY Between
<1> DEFINE U == AfterSkip(T)
           w == Head(T.calls).todo
           m == Item(T.calls)
<1>3. /\ U \in Context /\ U.calls = AfterStore(T.calls) /\ U.arrays = T.arrays
      /\ U.skipping = T.skipping /\ U.got = T.got /\ U.clean = T.clean
  BY <1>1, AfterItem
<1>4. /\ AfterStore(T.calls) # <<>> /\ Tail(AfterStore(T.calls)) = Tail(T.calls)
      /\ Head(AfterStore(T.calls)).todo = Tail(w)
      /\ Head(AfterStore(T.calls)).as = "object"
      /\ Head(AfterStore(T.calls)).path = f.path
  BY <1>1, CallTypes, ContextTypes
<1>5. m = Head(w)
  BY DEF Item
<1> HIDE DEF U, w, m
<1>6. Meets(pr, w, f.path, <<>>, Head(T.arrays), {})
  BY <1>2 DEF IsBetween, w
<1>7. /\ Meets(pr, Tail(w), f.path, <<>>, Head(T.arrays), {})
      /\ Counterparts(m, pr[2]) = {}
  BY <1>2, <1>5, <1>6, MeetsUnknown DEF w, m
<1>8. pr[1] \in Class /\ pr[2] \in Class /\ LeftOf(w, pr[1]) /\ m \in MembersOf(pr[1])
  BY <1>2, <1>5, <1>6, MeetsTypes DEF w
<1>9. Rest(w, pr[2]) = Rest(Tail(w), pr[2]) /\ (Good(w, pr[2]) <=> Good(Tail(w), pr[2]))
  BY <1>5, <1>7, <1>8, RestUnknown DEF w
<1>10. IsBetween(e, U, R, pr)
  <2>1. R.clean \in BOOLEAN /\ T.clean \in BOOLEAN
    BY ContextTypes
  <2>2. R.clean = (T.clean /\ Good(w, pr[2])) /\ R.got = T.got \cup Owed(f.path, Rest(w, pr[2]))
    BY <1>2 DEF IsBetween, w
  <2>3. R.clean = (U.clean /\ Good(Tail(w), pr[2]))
    BY <1>3, <1>9, <2>1, <2>2
  <2> QED BY <1>3, <1>4, <1>7, <1>9, <2>2, <2>3 DEF IsBetween
<1>11. StandsObject(e, U, R, wr)
  BY <1>1, <1>3, <1>4, <1>10, BetweenStands
<1>12. PlainMember(m)
  <2>1. ~HasPacked(m)
    BY <1>7, <1>8 DEF Unsupported
  <2> QED BY <2>1 DEF HasPacked, PlainMember, PlainClass
<1> QED BY <1>3, <1>11, <1>12 DEF U, m

\* Everything has been read.
LEMMA ObjectEnds ==
  ASSUME NEW wr \in ClassPairs, NEW f, NEW T \in Context, NEW R \in Context,
         StandsObject(f, T, R, wr), f.at # "enter", Head(T.calls).todo = <<>>
  PROVE  R.got = T.got /\ R.clean = T.clean
<1>1. PICK pr \in Pairs[wr] : pr \in ClassPairs /\ IsBetween(f, T, R, pr)
  BY Between
<1>2. Rest(<<>>, pr[2]) = {} /\ Good(<<>>, pr[2])
  BY RestNone
<1>3. R.got = T.got \cup {}
  BY <1>1, <1>2, OwedUnion DEF IsBetween
<1>4. T.clean \in BOOLEAN
  BY ContextTypes
<1>5. R.clean = (T.clean /\ Good(<<>>, pr[2]))
  BY <1>1 DEF IsBetween
<1> QED BY <1>2, <1>3, <1>4, <1>5

\* A member that waits for what the writer has not written has index 0 only if
\* the writer has no such member.
LEMMA ObjectLacks ==
  ASSUME NEW wr \in ClassPairs, NEW f, NEW T \in Context, NEW R \in Context,
         StandsObject(f, T, R, wr), f.at \in {"store", "found"}, Head(T.calls).todo = <<>>,
         NEW n, n \in Items(f.todo) \/ (\E p \in Head(T.arrays) : p.member = n), n.index = 0
  PROVE  LacksZero[wr]
<1>1. PICK pr \in Pairs[wr] : pr \in ClassPairs /\ IsBetween(f, T, R, pr)
  BY Between
<1>2. Meets(pr, <<>>, f.path, f.todo, Head(T.arrays), {})
  BY <1>1 DEF IsBetween
<1>3. n \in Waiting(f.todo, Head(T.arrays), {})
  BY DEF Waiting
<1>4. n \in MembersOf(pr[2]) /\ \A m \in MembersOf(pr[1]) : m.index # n.index
  BY <1>1, <1>2, <1>3, MeetsEnd
<1> QED BY <1>1, <1>4 DEF LacksZero

-----------------------------------------------------------------------------
(*****************************************************************************)
(* StoreTemplate, ReadRemaining and LeaveObject.                           *)
(*****************************************************************************)
\* The reader is on its way, or it has taken a Terminator for a header.
Onwards(x, y, W) == Goal(x, y, W) \/ Doomed

\* What every step that reads leaves alone.
Kindly == /\ IInv' /\ sent' = sent /\ entered' = entered /\ stream' = stream

\* The present context is what the variables are.
LEMMA PresentIs ==
  ASSUME NEW x, NEW y, NEW W, NEW g, IsAt(x, y, W, g)
  PROVE  /\ g[1].calls = x.calls /\ g[1].arrays = <<mCurrentPendingVariables>> \o mVariableHistory
         /\ g[1].skipping = mObjectSkipping /\ g[1].clean
         /\ x.at <= Len(stream) => g[1].got = result
         /\ g[1] \in Context /\ g[2] \in Context
         /\ PairNow \in ClassPairs /\ ~Unsupported[PairNow]
         /\ IInv /\ ReaderTypes
<1>1. PairNow \in ClassPairs /\ ~Unsupported[PairNow] /\ IInv /\ ReaderTypes
  BY DEF IsAt, IInv
<1>2. Present(g[1], x) /\ g[1] \in Context /\ g[2] \in Context
  BY Innermost
<1> QED BY <1>1, <1>2 DEF Present

\* A step within a call on an object or a skipped one.
LEMMA PointStep ==
  ASSUME NEW x, NEW y, NEW W, NEW g, IsAt(x, y, W, g), Kindly,
         NEW e \in Reader!Frame, e.what \in {"object", "skip"}, frames' = <<e>> \o Tail(frames),
         NEW T \in Context, Stands(e, T, g[2], PairNow), Present(T, x)',
         Reached(x.at + OneIf(HeaderSeen(e)))',
         HeaderSeen(e)' => x.at + 1 <= Len(stream) /\ W[x.at + 1] = SeenHeader(e)'
  PROVE  Goal(x, y, W)'
<1>1. x \in {x, y} /\ x.n = x.n
  OBVIOUS
<1>2. ReaderTypes' /\ sent' = sent /\ entered' = entered /\ stream' = stream
  BY DEF Kindly, IInv
<1>3. TakenSince(e, x)'
  BY DEF TakenSince
<1> QED BY <1>1, <1>2, <1>3, Stays

\* How an object stands.
LEMMA StandsObjectIs ==
  ASSUME NEW f, NEW T, NEW R, NEW wr, f.what = "object"
  PROVE  Stands(f, T, R, wr) <=> StandsObject(f, T, R, wr)
BY DEF Stands

\* Nothing has been taken, or the header that has been is still there.
LEMMA SameHeader ==
  ASSUME NEW x, NEW y, NEW W, NEW g, IsAt(x, y, W, g), frames[1].what \in {"object", "skip"},
         pos' = pos, stream' = stream,
         NEW e, e.what \in {"object", "skip"},
         HeaderSeen(e)' <=> HeaderSeen(frames[1]),
         HeaderSeen(e)' => SeenHeader(e)' = SeenHeader(frames[1])
  PROVE  /\ Reached(x.at + OneIf(HeaderSeen(e)))'
         /\ HeaderSeen(e)' => x.at + 1 <= Len(stream) /\ W[x.at + 1] = SeenHeader(e)'
<1>1. /\ TakenSince(frames[1], x)
      /\ HeaderSeen(frames[1]) => x.at + 1 <= Len(stream) /\ W[x.at + 1] = SeenHeader(frames[1])
  BY Innermost
<1>2. Reached(x.at + OneIf(HeaderSeen(frames[1])))
  BY <1>1 DEF TakenSince
<1>3. OneIf(HeaderSeen(frames[1])) = OneIf(HeaderSeen(e)')
  BY DEF OneIf
<1>4. Reached(x.at + OneIf(HeaderSeen(e)))'
  BY <1>2, <1>3 DEF Reached
<1> QED BY <1>1, <1>4

\* StoreEntryPoint: the array of the object is pushed.
LEMMA StoreEntryPointOn ==
  ASSUME NEW x, NEW y, NEW W, NEW g, IsAt(x, y, W, g), Kindly, Reader!StoreEntryPoint
  PROVE  Goal(x, y, W)'
<1>1. /\ frames[1] = Reader!Top /\ frames[1] \in Reader!Frame /\ frames # <<>>
      /\ Stands(frames[1], g[1], g[2], PairNow)
  BY Innermost
<1>2. frames[1].what \in {"object", "skip"} /\ frames[1].at = "enter"
  BY <1>1 DEF Reader!StoreEntryPoint, Reader!AtPoint
<1>3. frames[1].what = "object" /\ frames[1] \in Reader!ObjectFrames
  <2>1. frames[1].what = "skip" => frames[1] \in Reader!SkipFrames
    BY <1>1, Kinds
  <2>2. frames[1].what # "skip"
    BY <1>2, <2>1 DEF Reader!SkipFrames
  <2>3. frames[1].what = "object"
    BY <1>2, <2>2
  <2> QED BY <1>1, <2>3, Kinds
<1>4. StandsObject(frames[1], g[1], g[2], PairNow)
  BY <1>1, <1>3, StandsObjectIs
<1>e. PICK e : e = [frames[1] EXCEPT !.at = "store"]
  OBVIOUS
<1>u. PICK U : U = [g[1] EXCEPT !.arrays = <<{}>> \o @]
  OBVIOUS
<1>5. /\ e.what = "object" /\ e.path = frames[1].path /\ e.todo = frames[1].todo /\ e.at = "store"
      /\ e \in Reader!Frame
  <2>1. /\ e.what = "object" /\ e.path = frames[1].path /\ e.todo = frames[1].todo /\ e.at = "store"
    BY <1>3, <1>e DEF Reader!ObjectFrames
  <2>0. frames[1].index \in 0 .. 27 /\ frames[1].type \in Reader!HeaderTypes
    BY <1>3 DEF Reader!ObjectFrames
  <2>2. "store" \in Reader!Locations \ {"enter"}
    BY DEF Reader!Locations
  <2>3. e \in Reader!Frame
    BY <1>3, <1>e, <2>0, <2>2, Changed, Zenon
  <2> QED BY <2>1, <2>3
<1>6. frames' = <<e>> \o Tail(frames)
  BY <1>1, <1>e DEF Reader!StoreEntryPoint, Reader!Move, Reader!Become
<1>7. /\ U \in Context /\ StandsObject(e, U, g[2], PairNow)
      /\ U.calls = g[1].calls /\ U.arrays = <<{}>> \o g[1].arrays
      /\ U.skipping = g[1].skipping /\ U.got = g[1].got /\ U.clean = g[1].clean
  <2>1. g[1] \in Context /\ g[2] \in Context /\ PairNow \in ClassPairs
    BY PresentIs
  <2>2. frames[1].at = "enter" /\ e.path = frames[1].path /\ e.todo = frames[1].todo /\ e.at = "store"
    BY <1>2, <1>5
  <2> DEFINE f == frames[1]
             T == g[1]
             R == g[2]
             wr == PairNow
  <2>3. /\ wr \in ClassPairs /\ T \in Context /\ R \in Context /\ StandsObject(f, T, R, wr)
        /\ f.at = "enter" /\ e.path = f.path /\ e.todo = f.todo /\ e.at = "store"
        /\ U = [T EXCEPT !.arrays = <<{}>> \o @]
    BY <1>4, <1>u, <2>1, <2>2
  <2> HIDE DEF f, T, R, wr
  <2>4. /\ U \in Context /\ StandsObject(e, U, R, wr)
        /\ U.calls = T.calls /\ U.arrays = <<{}>> \o T.arrays
        /\ U.skipping = T.skipping /\ U.got = T.got /\ U.clean = T.clean
    BY <2>3, ObjectStarts
  <2> QED BY <2>4 DEF f, T, R, wr
<1>8. /\ mCurrentPendingVariables' = {} /\ mVariableHistory' = <<mCurrentPendingVariables>> \o mVariableHistory
      /\ pos' = pos /\ mObjectSkipping' = mObjectSkipping /\ result' = result /\ stream' = stream
      /\ mCurrentIndexPending' = mCurrentIndexPending
  BY DEF Reader!StoreEntryPoint, Reader!streamFlags
<1>9. Present(U, x)'
  BY <1>7, <1>8, PresentIs DEF Present
<1>10. ~mCurrentIndexPending
  <2>1. mCurrentIndexPending => Stores(frames[1])
    BY DEF IsAt, IInv, KeptInv
  <2> QED BY <1>2, <2>1 DEF Stores
<1>11. ~HeaderSeen(frames[1]) /\ ~HeaderSeen(e)'
  BY <1>2, <1>5, <1>8, <1>10 DEF HeaderSeen
<1>12. /\ Reached(x.at + OneIf(HeaderSeen(e)))'
       /\ HeaderSeen(e)' => x.at + 1 <= Len(stream) /\ W[x.at + 1] = SeenHeader(e)'
  BY <1>2, <1>5, <1>8, <1>11, SameHeader
<1>13. Stands(e, U, g[2], PairNow)
  BY <1>5, <1>7, StandsObjectIs
<1> QED BY <1>5, <1>6, <1>7, <1>9, <1>12, <1>13, PointStep

\* Facts of a call on an object that has been entered.
LEMMA ObjectAt ==
  ASSUME NEW x, NEW y, NEW W, NEW g, IsAt(x, y, W, g), NEW loc, Reader!AtPoint(loc),
         frames[1].what = "object"
  PROVE  /\ frames[1] = Reader!Top /\ frames[1] \in Reader!ObjectFrames /\ frames[1].at = loc
         /\ StandsObject(frames[1], g[1], g[2], PairNow)
         /\ x.calls # <<>> /\ Head(x.calls).as = "object" /\ Head(x.calls).path = frames[1].path
         /\ loc # "enter" => mCurrentPendingVariables \in SUBSET Reader!PendingMember
         /\ Head(g[1].arrays) = mCurrentPendingVariables
         /\ g[1].arrays # <<>> /\ Tail(g[1].arrays) = mVariableHistory
<1>1. frames[1] = Reader!Top /\ frames # <<>>
  BY Innermost
<1>2. frames[1].at = loc
  BY <1>1 DEF Reader!AtPoint
<1>3. loc # "enter" => g[1].arrays # <<>> /\ Head(g[1].arrays) \in SUBSET Reader!PendingMember
  <2>1. StandsObject(frames[1], g[1], g[2], PairNow)
    BY ObjectNow
  <2> QED BY <1>2, <2>1 DEF StandsObject
<1>4. g[1].arrays # <<>>
  <2>1. ReaderTypes /\ g[1].arrays = <<mCurrentPendingVariables>> \o mVariableHistory
    BY PresentIs
  <2>2. mVariableHistory \in Seq({Null} \cup SUBSET Reader!PendingMember)
    BY <2>1 DEF ReaderTypes
  <2> QED BY <2>1, <2>2
<1> QED BY <1>1, <1>2, <1>3, <1>4, ObjectNow

\* Only the point of a call changes, or the header it has taken.
Alters(f, e) ==
  /\ e.what = f.what
  /\ f.what = "object" => e.path = f.path /\ e.todo = f.todo
  /\ f.what = "skip" => e.clears = f.clears /\ e.todo = f.todo

\* A frame at another point of its loop.
LEMMA PointMoved ==
  ASSUME NEW f \in Reader!ObjectFrames \cup Reader!SkipFrames,
         NEW at \in {"store", "header", "found", "returned"}, NEW e, e = [f EXCEPT !.at = at]
  PROVE  /\ e \in Reader!Frame /\ Alters(f, e) /\ e.at = at /\ e.what = f.what /\ e.todo = f.todo
         /\ e.index = f.index /\ e.type = f.type
<1>1. at \in Reader!Locations \ {"enter"}
  BY DEF Reader!Locations
<1>2. f.index \in 0 .. 27 /\ f.type \in Reader!HeaderTypes
  BY DEF Reader!ObjectFrames, Reader!SkipFrames
<1>3. e \in Reader!Frame
  BY <1>1, <1>2, Changed, Zenon
<1>4. CASE f \in Reader!ObjectFrames
  BY <1>3, <1>4 DEF Reader!ObjectFrames, Alters
<1>5. CASE f \in Reader!SkipFrames
  BY <1>3, <1>5 DEF Reader!SkipFrames, Alters
<1> QED BY <1>4, <1>5

\* A header has been found.
Found(f, index, type) == [f EXCEPT !.at = "found", !.index = index, !.type = type]

\* A frame that has found a header.
LEMMA PointFound ==
  ASSUME NEW f \in Reader!ObjectFrames \cup Reader!SkipFrames,
         NEW index \in 0 .. 27, NEW type \in Reader!HeaderTypes
  PROVE  LET e == Found(f, index, type)
         IN  /\ e \in Reader!Frame /\ Alters(f, e) /\ e.at = "found" /\ e.what = f.what /\ e.todo = f.todo
             /\ e.index = index /\ e.type = type
<1> DEFINE e == Found(f, index, type)
<1>1. "found" \in Reader!Locations \ {"enter"}
  BY DEF Reader!Locations
<1>2. e \in Reader!Frame
  BY <1>1, Changed, Zenon DEF Found
<1>3. CASE f \in Reader!ObjectFrames
  BY <1>2, <1>3 DEF Reader!ObjectFrames, Alters, Found
<1>4. CASE f \in Reader!SkipFrames
  BY <1>2, <1>4 DEF Reader!SkipFrames, Alters, Found
<1> QED BY <1>3, <1>4

\* What is known of the innermost call at a point of its loop.
LEMMA PointAt ==
  ASSUME NEW x, NEW y, NEW W, NEW g, IsAt(x, y, W, g), NEW loc, Reader!AtPoint(loc)
  PROVE  /\ frames # <<>> /\ frames[1] = Reader!Top /\ frames[1].at = loc
         /\ frames[1].what \in {"object", "skip"}
         /\ frames[1] \in Reader!ObjectFrames \cup Reader!SkipFrames
         /\ frames[1].index \in 0 .. 27 /\ frames[1].type \in Reader!HeaderTypes
         /\ frames[1].what = "object" => StandsObject(frames[1], g[1], g[2], PairNow)
         /\ frames[1].what = "skip" => StandsSkip(frames[1], g[1], g[2])
         /\ Reached(x.at + OneIf(HeaderSeen(frames[1])))
         /\ HeaderSeen(frames[1]) => x.at + 1 <= Len(stream) /\ W[x.at + 1] = SeenHeader(frames[1])
         /\ mCurrentIndexPending => loc = "store"
         /\ HeaderSeen(frames[1]) <=> (loc = "found" \/ mCurrentIndexPending)
         /\ x.calls # <<>> /\ Head(x.calls).as = "object"
<1>1. ReaderTypes /\ KeptInv
  BY DEF IsAt, IInv
<1>2. /\ frames # <<>> /\ Reader!Top = frames[1] /\ frames[1].at = loc
      /\ frames[1] \in Reader!ObjectFrames \cup Reader!SkipFrames
      /\ frames[1].what \in {"object", "skip"}
      /\ frames[1].index \in 0 .. 27 /\ frames[1].type \in Reader!HeaderTypes
  BY <1>1, ObjectPoint
<1>3. /\ Stands(frames[1], g[1], g[2], PairNow) /\ TakenSince(frames[1], x)
      /\ HeaderSeen(frames[1]) => x.at + 1 <= Len(stream) /\ W[x.at + 1] = SeenHeader(frames[1])
  BY Innermost
<1>4. Reached(x.at + OneIf(HeaderSeen(frames[1])))
  BY <1>2, <1>3 DEF TakenSince
<1>5. mCurrentIndexPending => loc = "store"
  BY <1>1, <1>2 DEF KeptInv, Stores
<1>6. HeaderSeen(frames[1]) <=> (loc = "found" \/ mCurrentIndexPending)
  BY <1>2 DEF HeaderSeen
<1>7. /\ frames[1].what = "object" => StandsObject(frames[1], g[1], g[2], PairNow)
      /\ frames[1].what = "skip" => StandsSkip(frames[1], g[1], g[2])
  BY <1>3 DEF Stands
<1>8. x.calls # <<>> /\ Head(x.calls).as = "object"
  BY <1>2, <1>7, PresentIs DEF StandsObject, StandsSkip
<1> QED BY <1>2, <1>3, <1>4, <1>5, <1>6, <1>7, <1>8

\* A step that only moves the innermost call to another point.
LEMMA PointMoves ==
  ASSUME NEW x, NEW y, NEW W, NEW g, IsAt(x, y, W, g), Kindly,
         NEW loc \in {"store", "header", "found"}, Reader!AtPoint(loc),
         NEW e \in Reader!Frame, frames' = <<e>> \o Tail(frames),
         Alters(frames[1], e), e.at \in {"store", "header", "found"},
         mCurrentPendingVariables' = mCurrentPendingVariables, mVariableHistory' = mVariableHistory,
         mObjectSkipping' = mObjectSkipping, result' = result,
         Reached(x.at + OneIf(HeaderSeen(e)))',
         HeaderSeen(e)' => x.at + 1 <= Len(stream) /\ W[x.at + 1] = SeenHeader(e)'
  PROVE  Goal(x, y, W)'
<1>1. Stands(e, g[1], g[2], PairNow)
  <2>1. CASE frames[1].what = "object"
    <3>1. StandsObject(frames[1], g[1], g[2], PairNow) /\ frames[1].at = loc /\ PairNow \in ClassPairs
      BY <2>1, PointAt, PresentIs
    <3>2. e.what = "object" /\ e.path = frames[1].path /\ e.todo = frames[1].todo
      BY <2>1 DEF Alters
    <3>3. StandsObject(e, g[1], g[2], PairNow)
      BY <3>1, <3>2, ObjectGoesOn
    <3> QED BY <3>2, <3>3 DEF Stands
  <2>2. CASE frames[1].what = "skip"
    <3>1. StandsSkip(frames[1], g[1], g[2])
      BY <2>2, PointAt
    <3>2. e.what = "skip" /\ e.clears = frames[1].clears
      BY <2>2 DEF Alters
    <3>3. StandsSkip(e, g[1], g[2])
      BY <3>1, <3>2 DEF StandsSkip
    <3> QED BY <3>2, <3>3 DEF Stands
  <2> QED BY <2>1, <2>2, PointAt
<1>2. Present(g[1], x)'
  BY PresentIs DEF Present, Kindly
<1>3. e.what \in {"object", "skip"}
  BY PointAt DEF Alters
<1> QED BY <1>1, <1>2, <1>3, PresentIs, PointStep

\* No header is kept: the next one is to be read.
LEMMA NoHeaderKeptOn ==
  ASSUME NEW x, NEW y, NEW W, NEW g, IsAt(x, y, W, g), Kindly, Reader!NoHeaderKept
  PROVE  Goal(x, y, W)'
<1>1. Reader!AtPoint("store") /\ ~mCurrentIndexPending
  BY DEF Reader!NoHeaderKept
<1>f. PICK f : f = frames[1]
  OBVIOUS
<1>2. PICK e : e = [f EXCEPT !.at = "header"]
  OBVIOUS
<1>3. e \in Reader!Frame /\ Alters(frames[1], e) /\ e.at = "header" /\ e.what = frames[1].what
  <2>1. f \in Reader!ObjectFrames \cup Reader!SkipFrames
    BY <1>1, <1>f, PointAt
  <2>2. e \in Reader!Frame /\ Alters(f, e) /\ e.at = "header" /\ e.what = f.what
    BY <1>2, <2>1, PointMoved
  <2> QED BY <1>f, <2>2
<1>4. frames' = <<e>> \o Tail(frames)
  BY <1>1, <1>2, <1>f, PointAt DEF Reader!NoHeaderKept, Reader!Move, Reader!Become
<1>5. /\ mCurrentPendingVariables' = mCurrentPendingVariables /\ mVariableHistory' = mVariableHistory
      /\ mObjectSkipping' = mObjectSkipping /\ result' = result /\ pos' = pos /\ stream' = stream
      /\ mCurrentIndexPending' = mCurrentIndexPending
  BY DEF Reader!NoHeaderKept, Reader!messageVars
<1>6. ~HeaderSeen(frames[1]) /\ ~HeaderSeen(e)'
  <2>1. ~HeaderSeen(e)'
    BY <1>1, <1>3, <1>5 DEF HeaderSeen
  <2> QED BY <1>1, <2>1, PointAt
<1>7. frames[1].what \in {"object", "skip"}
  BY <1>1, PointAt
<1>8. /\ Reached(x.at + OneIf(HeaderSeen(e)))'
      /\ HeaderSeen(e)' => x.at + 1 <= Len(stream) /\ W[x.at + 1] = SeenHeader(e)'
  <2>1. e.what \in {"object", "skip"} /\ (HeaderSeen(e)' <=> HeaderSeen(frames[1]))
    BY <1>3, <1>6, <1>7
  <2> QED BY <1>5, <1>6, <1>7, <2>1, SameHeader
<1> QED BY <1>1, <1>3, <1>4, <1>5, <1>8, PointMoves

\* The next header of the stream.
LEMMA NextTaken ==
  ASSUME ReaderTypes, NEW b \in Nat, Reached(b), pos <= Len(stream)
  PROVE  pos = b + 1 /\ b + 1 <= Len(stream) /\ Len(stream) \in Nat
<1>1. Len(stream) \in Nat
  BY LenProperties DEF ReaderTypes
<1> QED BY <1>1 DEF Reached

\* The header of the next member, or the Terminator, is read.
LEMMA ReadHeaderOn ==
  ASSUME NEW x, NEW y, NEW W, NEW g, IsAt(x, y, W, g), Kindly, Reader!ReadHeader
  PROVE  Goal(x, y, W)'
<1>1. Reader!AtPoint("header") /\ Reader!Got /\ ReaderTypes
  BY PresentIs DEF Reader!ReadHeader
<1>2. /\ stream[pos] \in Reader!HeaderToken /\ pos' = pos + 1 /\ pos <= Len(stream)
      /\ stream[pos].index \in 0 .. 27 /\ stream[pos].type \in Reader!HeaderTypes
  <2>1. Reader!Wanted = <<"header">>
    BY <1>1 DEF Reader!Wanted, Reader!AtPoint, Reader!Running
  <2>2. Len(Reader!Wanted) = 1 /\ Reader!Wanted[1] = "header"
    BY <2>1
  <2>3. 1 \in 1 .. 1 /\ pos + 1 - 1 = pos /\ pos \in Nat /\ pos >= 1
    BY <1>1 DEF ReaderTypes
  <2>4. pos <= Len(stream) /\ stream[pos].token = "header"
    BY <1>1, <2>2, <2>3 DEF Reader!Got, Reader!Fits
  <2>5. stream[pos] \in Reader!Token
    <3>1. stream \in Seq(Reader!Token) /\ Len(stream) \in Nat
      BY <1>1, LenProperties DEF ReaderTypes
    <3>2. pos \in 1 .. Len(stream)
      BY <2>3, <2>4, <3>1
    <3> QED BY <3>1, <3>2, ElementOfSeq
  <2>6. stream[pos] \in Reader!HeaderToken
    BY <2>4, <2>5, TokenKinds
  <2>7. pos' = pos + 1
    BY <2>2 DEF Reader!ReadHeader, Reader!Take
  <2> QED BY <2>4, <2>6, <2>7 DEF Reader!HeaderToken
<1>f. PICK f, i, t : f = frames[1] /\ i = stream[pos].index /\ t = stream[pos].type
  OBVIOUS
<1>3. PICK e : e = Found(f, i, t)
  OBVIOUS
<1>4. /\ e \in Reader!Frame /\ Alters(frames[1], e) /\ e.at = "found" /\ e.what = frames[1].what
      /\ e.index = stream[pos].index /\ e.type = stream[pos].type
  <2>1. f \in Reader!ObjectFrames \cup Reader!SkipFrames /\ i \in 0 .. 27 /\ t \in Reader!HeaderTypes
    BY <1>1, <1>2, <1>f, PointAt
  <2>2. e \in Reader!Frame /\ Alters(f, e) /\ e.at = "found" /\ e.what = f.what /\ e.index = i /\ e.type = t
    BY <1>3, <2>1, PointFound
  <2> QED BY <1>f, <2>2
<1>5. frames' = <<e>> \o Tail(frames)
  BY <1>1, <1>3, <1>f, PointAt DEF Found, Reader!ReadHeader, Reader!Become
<1>6. /\ mCurrentPendingVariables' = mCurrentPendingVariables /\ mVariableHistory' = mVariableHistory
      /\ mObjectSkipping' = mObjectSkipping /\ result' = result /\ stream' = stream
  BY DEF Reader!ReadHeader, Reader!messageVars
<1>7. ~HeaderSeen(frames[1])
  BY <1>1, PointAt
<1>8. x.at \in Nat /\ x.at + OneIf(HeaderSeen(frames[1])) = x.at
  <2>1. x.at \in Nat
    BY DEF IsAt, Moment
  <2> QED BY <1>7, <2>1 DEF OneIf
<1>9. pos = x.at + 1 /\ x.at + 1 <= Len(stream) /\ Len(stream) \in Nat
  BY <1>1, <1>2, <1>8, PointAt, NextTaken
<1>10. HeaderSeen(e)'
  <2>1. e.what \in {"object", "skip"}
    BY <1>1, <1>4, PointAt
  <2> QED BY <1>4, <2>1 DEF HeaderSeen
<1>11. Reached(x.at + OneIf(HeaderSeen(e)))'
  <2>1. pos' = x.at + 1 + 1 /\ x.at + 1 <= Len(stream')
    BY <1>2, <1>6, <1>8, <1>9
  <2> QED BY <1>10, <2>1 DEF Reached, OneIf
<1>12. W[x.at + 1] = SeenHeader(e)'
  <2>1. SeenHeader(e)' = Header(e.index, e.type)
    BY <1>4 DEF SeenHeader
  <2>2. stream[pos] = Header(e.index, e.type)
    BY <1>2, <1>4 DEF Reader!HeaderToken, Header
  <2>3. W[pos] = stream[pos]
    <3>1. Prefix(stream, W)
      BY DEF IsAt
    <3>2. pos \in 1 .. Len(stream)
      BY <1>8, <1>9
    <3> QED BY <3>1, <3>2 DEF Prefix
  <2> QED BY <1>9, <2>1, <2>2, <2>3
<1> QED BY <1>1, <1>4, <1>5, <1>6, <1>9, <1>11, <1>12, PointMoves

\* ReadRemaining goes on with the header that is kept.
LEMMA RemainingKeptOn ==
  ASSUME NEW x, NEW y, NEW W, NEW g, IsAt(x, y, W, g), Kindly, Reader!RemainingKept
  PROVE  Goal(x, y, W)'
<1>1. Reader!AtPoint("store") /\ mCurrentIndexPending /\ ReaderTypes
  BY PresentIs DEF Reader!RemainingKept, Reader!Remaining
<1>f. PICK f, i, t : f = frames[1] /\ i = mCurrentIndex /\ t = mCurrentType
  OBVIOUS
<1>2. PICK e : e = Found(f, i, t)
  OBVIOUS
<1>3. mCurrentIndex \in 0 .. 27 /\ mCurrentType \in Reader!HeaderTypes
  BY <1>1 DEF ReaderTypes
<1>4. /\ e \in Reader!Frame /\ Alters(frames[1], e) /\ e.at = "found" /\ e.what = frames[1].what
      /\ e.index = mCurrentIndex /\ e.type = mCurrentType
  <2>1. f \in Reader!ObjectFrames \cup Reader!SkipFrames /\ i \in 0 .. 27 /\ t \in Reader!HeaderTypes
    BY <1>1, <1>3, <1>f, PointAt
  <2>2. e \in Reader!Frame /\ Alters(f, e) /\ e.at = "found" /\ e.what = f.what /\ e.index = i /\ e.type = t
    BY <1>2, <2>1, PointFound
  <2> QED BY <1>f, <2>2
<1>5. frames' = <<e>> \o Tail(frames)
  BY <1>1, <1>2, <1>f, PointAt DEF Found, Reader!RemainingKept, Reader!Become
<1>6. /\ mCurrentPendingVariables' = mCurrentPendingVariables /\ mVariableHistory' = mVariableHistory
      /\ mObjectSkipping' = mObjectSkipping /\ result' = result /\ pos' = pos /\ stream' = stream
  BY DEF Reader!RemainingKept, Reader!streamFlags, Reader!arrays
<1>7. frames[1].what \in {"object", "skip"} /\ frames[1].at = "store"
  BY <1>1, PointAt
<1>8. HeaderSeen(e)' /\ HeaderSeen(frames[1])
  <2>1. HeaderSeen(e)'
    BY <1>4, <1>7 DEF HeaderSeen
  <2>2. HeaderSeen(frames[1])
    BY <1>1, PointAt
  <2> QED BY <2>1, <2>2
<1>9. SeenHeader(e)' = SeenHeader(frames[1])
  <2>1. SeenHeader(e)' = Header(e.index, e.type)
    BY <1>4 DEF SeenHeader
  <2>2. SeenHeader(frames[1]) = Header(mCurrentIndex, mCurrentType)
    BY <1>7 DEF SeenHeader
  <2> QED BY <1>4, <2>1, <2>2
<1>10. /\ Reached(x.at + OneIf(HeaderSeen(e)))'
       /\ HeaderSeen(e)' => x.at + 1 <= Len(stream) /\ W[x.at + 1] = SeenHeader(e)'
  <2>1. e.what \in {"object", "skip"} /\ (HeaderSeen(e)' <=> HeaderSeen(frames[1]))
    BY <1>4, <1>7, <1>8
  <2> QED BY <1>6, <1>7, <1>9, <2>1, SameHeader
<1> QED BY <1>1, <1>4, <1>5, <1>6, <1>10, PointMoves

\* The members pending change.
LEMMA ArrayStep ==
  ASSUME NEW x, NEW y, NEW W, NEW g, IsAt(x, y, W, g), Kindly, NEW loc, Reader!AtPoint(loc),
         frames[1].what = "object",
         NEW e \in Reader!Frame, e.what = "object", frames' = <<e>> \o Tail(frames),
         NEW A \in SUBSET Reader!PendingMember, NEW U \in Context, U = WithArray(g[1], A),
         StandsObject(e, U, g[2], PairNow),
         mCurrentPendingVariables' = A, mVariableHistory' = mVariableHistory,
         mObjectSkipping' = mObjectSkipping, result' = result,
         Reached(x.at + OneIf(HeaderSeen(e)))',
         HeaderSeen(e)' => x.at + 1 <= Len(stream) /\ W[x.at + 1] = SeenHeader(e)'
  PROVE  Goal(x, y, W)'
<1>1. g[1].arrays # <<>> /\ Tail(g[1].arrays) = mVariableHistory
  BY ObjectAt
<1>2. g[1] \in Context
  BY PresentIs
<1>3. /\ U.arrays = <<A>> \o Tail(g[1].arrays)
      /\ U.calls = g[1].calls /\ U.skipping = g[1].skipping
      /\ U.got = g[1].got /\ U.clean = g[1].clean
  BY <1>1, <1>2, OtherArray
<1>4. Present(U, x)'
  BY <1>1, <1>3, PresentIs DEF Present, Kindly
<1>5. Stands(e, U, g[2], PairNow)
  BY StandsObjectIs
<1> QED BY <1>4, <1>5, PointStep

\* A call that is storing is one on an object.
LEMMA StoringAt ==
  ASSUME NEW x, NEW y, NEW W, NEW g, IsAt(x, y, W, g), NEW loc, Reader!Storing(loc)
  PROVE  /\ Reader!AtPoint(loc) /\ frames[1] \in Reader!ObjectFrames /\ frames[1].what = "object"
         /\ frames[1].todo # <<>> /\ Reader!Now = Head(frames[1].todo)
         /\ Reader!Now \in Reader!Member
         /\ Reader!Place(Reader!Now) = Append(frames[1].path, Reader!Now.index)
         /\ Reader!Place(Reader!Now) \in Seq(Nat)
<1>1. ReaderTypes /\ Reader!AtPoint(loc) /\ Reader!Top.todo # <<>> /\ Reader!Top = frames[1]
  BY PresentIs, PointAt DEF Reader!Storing
<1>2. /\ frames[1] \in Reader!ObjectFrames
      /\ Reader!Now \in Reader!Member
      /\ Reader!Place(Reader!Now) \in Seq(Nat)
      /\ Reader!Place(Reader!Now) = Append(frames[1].path, Reader!Now.index)
  BY <1>1, ObjectPoint
<1>3. frames[1].what = "object"
  BY <1>2 DEF Reader!ObjectFrames
<1> QED BY <1>1, <1>2, <1>3 DEF Reader!Now

\* The Store call is done with, whether its member has been read or not.
Done(f) == [f EXCEPT !.at = "store", !.todo = Tail(@)]

\* A frame after one Store call.
LEMMA DoneTypes ==
  ASSUME NEW f \in Reader!ObjectFrames, f.todo # <<>>
  PROVE  /\ Done(f) \in Reader!Frame /\ Done(f).what = "object" /\ Done(f).at = "store"
         /\ Done(f).path = f.path /\ Done(f).todo = Tail(f.todo)
         /\ f.at = "store" => Done(f) = [f EXCEPT !.todo = Tail(@)]
<1>1. "store" \in Reader!Locations
  BY DEF Reader!Locations
<1>2. Done(f) \in Reader!Frame
  BY <1>1, Stored DEF Done
<1>3. /\ Done(f).what = "object" /\ Done(f).at = "store"
      /\ Done(f).path = f.path /\ Done(f).todo = Tail(f.todo)
      /\ f.at = "store" => Done(f) = [f EXCEPT !.todo = Tail(@)]
  BY DEF Done, Reader!ObjectFrames
<1> QED BY <1>2, <1>3

\* A member is kept for later, and so is the header that is not its own.
LEMMA PendsOn ==
  ASSUME NEW x, NEW y, NEW W, NEW g, IsAt(x, y, W, g), Kindly,
         NEW loc \in {"store", "found"}, Reader!Storing(loc),
         Reader!AddPending(Reader!Now), frames' = <<Done(frames[1])>> \o Tail(frames),
         mVariableHistory' = mVariableHistory, pos' = pos,
         mObjectSkipping' = mObjectSkipping, result' = result,
         mCurrentIndexPending',
         HeaderSeen(frames[1]), SeenHeader(frames[1]) = Header(mCurrentIndex', mCurrentType')
  PROVE  Goal(x, y, W)'
<1>f. PICK f, e : f = frames[1] /\ e = Done(f)
  OBVIOUS
<1>1. /\ Reader!AtPoint(loc) /\ f \in Reader!ObjectFrames /\ f.what = "object" /\ f.todo # <<>>
      /\ Reader!Now = Head(f.todo) /\ Reader!Now \in Reader!Member
      /\ Reader!Place(Reader!Now) = Append(f.path, Reader!Now.index)
      /\ Reader!Place(Reader!Now) \in Seq(Nat)
  BY <1>f, StoringAt
<1>2. /\ f.at = loc /\ StandsObject(f, g[1], g[2], PairNow)
      /\ mCurrentPendingVariables \in SUBSET Reader!PendingMember
      /\ Head(g[1].arrays) = mCurrentPendingVariables
  BY <1>1, <1>f, ObjectAt
<1>3. /\ e \in Reader!Frame /\ e.what = "object" /\ e.at = "store"
      /\ e.path = f.path /\ e.todo = Tail(f.todo)
  BY <1>1, <1>f, DoneTypes
<1>p. PICK A : A = mCurrentPendingVariables \cup {Reader!Pending(Head(f.todo), Append(f.path, Head(f.todo).index))}
  OBVIOUS
<1>4. A = Head(g[1].arrays) \cup {Reader!Pending(Head(f.todo), Append(f.path, Head(f.todo).index))}
  BY <1>2, <1>p
<1>5. A \in SUBSET Reader!PendingMember
  <2>1. Reader!Pending(Head(f.todo), Append(f.path, Head(f.todo).index)) \in Reader!PendingMember
    BY <1>1 DEF Reader!Pending, Reader!PendingMember
  <2> QED BY <1>2, <1>p, <2>1
<1>6. mCurrentPendingVariables' = A
  BY <1>1, <1>p DEF Reader!AddPending
<1>t. PICK T : T = g[1]
  OBVIOUS
<1>u. PICK U : U = WithArray(T, A)
  OBVIOUS
<1>7. U \in Context /\ StandsObject(e, U, g[2], PairNow)
  <2>1. T \in Context /\ g[2] \in Context /\ PairNow \in ClassPairs
    BY <1>t, PresentIs
  <2>2. A = Head(T.arrays) \cup {Reader!Pending(Head(f.todo), Append(f.path, Head(f.todo).index))}
        /\ StandsObject(f, T, g[2], PairNow)
    BY <1>2, <1>4, <1>t
  <2>3. WithArray(T, A) \in Context /\ StandsObject(e, WithArray(T, A), g[2], PairNow)
    BY <1>1, <1>2, <1>3, <1>5, <2>1, <2>2, ObjectPends
  <2> QED BY <1>u, <2>3
<1>8. frames[1].what \in {"object", "skip"} /\ HeaderSeen(e)' /\ SeenHeader(e)' = SeenHeader(frames[1])
  BY <1>1, <1>3, <1>f DEF HeaderSeen, SeenHeader
<1>9. /\ Reached(x.at + OneIf(HeaderSeen(e)))'
      /\ HeaderSeen(e)' => x.at + 1 <= Len(stream) /\ W[x.at + 1] = SeenHeader(e)'
  <2>1. e.what \in {"object", "skip"} /\ (HeaderSeen(e)' <=> HeaderSeen(frames[1])) /\ stream' = stream
    BY <1>3, <1>8 DEF Kindly
  <2>2. (HeaderSeen(e)' => SeenHeader(e)' = SeenHeader(frames[1])) /\ pos' = pos
    BY <1>8
  <2>3. frames[1].what \in {"object", "skip"}
    BY <1>8
  <2>4. Reached(x.at + OneIf(HeaderSeen(e)))'
    <3>1. Reached(x.at + OneIf(HeaderSeen(frames[1])))
      BY <1>1, PointAt
    <3>2. Reached(x.at + 1)
      BY <3>1 DEF OneIf
    <3>3. Reached(x.at + 1)'
      BY <2>1, <2>2, <3>2 DEF Reached
    <3> QED BY <1>8, <3>3 DEF OneIf
  <2>5. HeaderSeen(e)' => x.at + 1 <= Len(stream) /\ W[x.at + 1] = SeenHeader(e)'
    BY <2>1, <2>2, <2>3, SameHeader
  <2> QED BY <2>4, <2>5
<1>10. frames' = <<e>> \o Tail(frames)
  BY <1>f
<1>11. U = WithArray(g[1], A) /\ frames[1].what = "object"
  BY <1>1, <1>f, <1>t, <1>u
<1> QED BY <1>1, <1>3, <1>5, <1>6, <1>7, <1>9, <1>10, <1>11, ArrayStep

\* The header kept is that of another member: this one becomes pending.
LEMMA StoreLaterOn ==
  ASSUME NEW x, NEW y, NEW W, NEW g, IsAt(x, y, W, g), Kindly, Reader!StoreLater
  PROVE  Goal(x, y, W)'
<1>1. Reader!Storing("store") /\ mCurrentIndexPending
  BY DEF Reader!StoreLater
<1>2. Reader!AtPoint("store") /\ frames[1] \in Reader!ObjectFrames /\ frames[1].todo # <<>>
  BY <1>1, StoringAt
<1>3. frames[1].at = "store" /\ HeaderSeen(frames[1]) /\ Reader!Top = frames[1]
  BY <1>1, <1>2, PointAt
<1>4. Done(frames[1]) = [frames[1] EXCEPT !.todo = Tail(@)]
  BY <1>2, <1>3, DoneTypes
<1>5. frames' = <<Done(frames[1])>> \o Tail(frames)
  BY <1>3, <1>4 DEF Reader!StoreLater, Reader!Become
<1>6. /\ Reader!AddPending(Reader!Now) /\ mVariableHistory' = mVariableHistory /\ pos' = pos
      /\ mObjectSkipping' = mObjectSkipping /\ result' = result /\ mCurrentIndexPending' = mCurrentIndexPending
      /\ mCurrentIndex' = mCurrentIndex /\ mCurrentType' = mCurrentType
  BY DEF Reader!StoreLater, Reader!streamFlags
<1>7. SeenHeader(frames[1]) = Header(mCurrentIndex', mCurrentType')
  BY <1>3, <1>6 DEF SeenHeader
<1> QED BY <1>1, <1>3, <1>5, <1>6, <1>7, PendsOn

\* The header read is that of another member: this one becomes pending.
LEMMA StoreOtherOn ==
  ASSUME NEW x, NEW y, NEW W, NEW g, IsAt(x, y, W, g), Kindly, Reader!StoreOther
  PROVE  Goal(x, y, W)'
<1>1. Reader!Storing("found")
  BY DEF Reader!StoreOther
<1>2. Reader!AtPoint("found") /\ frames[1] \in Reader!ObjectFrames /\ frames[1].todo # <<>>
  BY <1>1, StoringAt
<1>3. frames[1].at = "found" /\ HeaderSeen(frames[1]) /\ Reader!Top = frames[1]
  BY <1>1, <1>2, PointAt
<1>5. frames' = <<Done(frames[1])>> \o Tail(frames)
  BY <1>3 DEF Reader!StoreOther, Reader!Become, Done
<1>6. /\ Reader!AddPending(Reader!Now) /\ mVariableHistory' = mVariableHistory /\ pos' = pos
      /\ mObjectSkipping' = mObjectSkipping /\ result' = result /\ mCurrentIndexPending'
      /\ mCurrentIndex' = frames[1].index /\ mCurrentType' = frames[1].type
  BY <1>3 DEF Reader!StoreOther, Reader!KeepHeader
<1>7. SeenHeader(frames[1]) = Header(mCurrentIndex', mCurrentType')
  BY <1>3, <1>6 DEF SeenHeader
<1> QED BY <1>1, <1>3, <1>5, <1>6, <1>7, PendsOn

\* The closure of a pending member returns and is cleared.
LEMMA ReadNowReturnsOn ==
  ASSUME NEW x, NEW y, NEW W, NEW g, IsAt(x, y, W, g), Kindly, Reader!ReadNowReturns
  PROVE  Goal(x, y, W)'
<1>0. Reader!AtPoint("returned")
  BY DEF Reader!ReadNowReturns
<1>f. PICK f, e : f = frames[1] /\ e = [f EXCEPT !.at = "header"]
  OBVIOUS
<1>1. /\ f \in Reader!ObjectFrames \cup Reader!SkipFrames /\ f.what \in {"object", "skip"} /\ Reader!Top = f
      /\ f.what = "skip" => StandsSkip(f, g[1], g[2])
      /\ f.at = "returned" /\ ~HeaderSeen(f) /\ ~mCurrentIndexPending
  BY <1>0, <1>f, PointAt
<1>2. f.what = "object"
  BY <1>1 DEF StandsSkip
<1>3. /\ StandsObject(f, g[1], g[2], PairNow)
      /\ mCurrentPendingVariables \in SUBSET Reader!PendingMember
      /\ Head(g[1].arrays) = mCurrentPendingVariables
  BY <1>0, <1>2, <1>f, ObjectAt
<1>4. /\ e \in Reader!Frame /\ e.what = "object" /\ e.at = "header" /\ e.path = f.path /\ e.todo = f.todo
  <2>1. e \in Reader!Frame /\ Alters(f, e) /\ e.at = "header" /\ e.what = f.what
    BY <1>1, <1>f, PointMoved
  <2> QED BY <1>2, <2>1 DEF Alters
<1>p. PICK A : A = {p \in mCurrentPendingVariables : p.member.index # f.index}
  OBVIOUS
<1>5. A \in SUBSET Reader!PendingMember
  BY <1>3, <1>p
<1>6. /\ mCurrentPendingVariables' = A /\ frames' = <<e>> \o Tail(frames)
      /\ mVariableHistory' = mVariableHistory /\ pos' = pos
      /\ mObjectSkipping' = mObjectSkipping /\ result' = result
      /\ mCurrentIndexPending' = mCurrentIndexPending
  BY <1>1, <1>f, <1>p DEF Reader!ReadNowReturns, Reader!ClearPending, Reader!Move, Reader!Become, Reader!streamFlags
<1>t. PICK T : T = g[1]
  OBVIOUS
<1>u. PICK U : U = WithArray(T, A)
  OBVIOUS
<1>7. U \in Context /\ StandsObject(e, U, g[2], PairNow)
  <2>1. T \in Context /\ g[2] \in Context /\ PairNow \in ClassPairs
    BY <1>t, PresentIs
  <2>2. A = {p \in Head(T.arrays) : p.member.index # f.index} /\ StandsObject(f, T, g[2], PairNow)
    BY <1>3, <1>p, <1>t
  <2>3. WithArray(T, A) \in Context /\ StandsObject(e, WithArray(T, A), g[2], PairNow)
    BY <1>1, <1>4, <1>5, <2>1, <2>2, ObjectReturned
  <2> QED BY <1>u, <2>3
<1>8. frames[1].what \in {"object", "skip"} /\ ~HeaderSeen(e)' /\ ~HeaderSeen(frames[1])
  BY <1>1, <1>4, <1>6, <1>f DEF HeaderSeen
<1>9. /\ Reached(x.at + OneIf(HeaderSeen(e)))'
      /\ HeaderSeen(e)' => x.at + 1 <= Len(stream) /\ W[x.at + 1] = SeenHeader(e)'
  <2>1. e.what \in {"object", "skip"} /\ (HeaderSeen(e)' <=> HeaderSeen(frames[1])) /\ stream' = stream
    BY <1>4, <1>8 DEF Kindly
  <2> QED BY <1>6, <1>8, <2>1, SameHeader
<1>11. U = WithArray(g[1], A) /\ frames[1].what = "object"
  BY <1>2, <1>f, <1>t, <1>u
<1> QED BY <1>0, <1>4, <1>5, <1>6, <1>7, <1>9, <1>11, ArrayStep

\* The header that has been taken is that of n, which is read.
ReadsNow(n, f, e) ==
  \/ /\ f.todo # <<>> /\ n = Head(f.todo)
     /\ e.at = "store" /\ e.todo = Tail(f.todo)
  \/ /\ \E p \in mCurrentPendingVariables : p.member = n
     /\ e.at = "returned" /\ e.todo = f.todo /\ e.index = n.index

\* A step within a message does not change which classes it is about.
LEMMA PairStays ==
  ASSUME sent' = sent, entered' = entered
  PROVE  Round' = Round /\ PairNow' = PairNow
BY DEF Round, PairNow, Classes

\* The member of which the header has been seen is about to be read.
LEMMA ReadsOn ==
  ASSUME NEW x, NEW y, NEW W, NEW g, IsAt(x, y, W, g), Kindly,
         NEW loc \in {"store", "found"}, Reader!AtPoint(loc), frames[1].what = "object",
         HeaderSeen(frames[1]), NEW n \in Reader!Member, n.index = SeenHeader(frames[1]).index,
         NEW e \in Reader!Frame, e.what = "object", e.path = frames[1].path, ReadsNow(n, frames[1], e),
         SeenHeader(frames[1]).type \in Reader!HeaderTypes,
         frames' = <<Reader!ReadFrame(n, Append(frames[1].path, n.index), SeenHeader(frames[1]).type), e>>
                     \o Tail(frames),
         mCurrentPendingVariables' = mCurrentPendingVariables, mVariableHistory' = mVariableHistory,
         mObjectSkipping' = mObjectSkipping, result' = result, pos' = pos
  PROVE  Onwards(x, y, W)'
<1>f. PICK f, s, T, R : f = frames[1] /\ s = SeenHeader(frames[1]) /\ T = g[1] /\ R = g[2]
  OBVIOUS
<1>1. /\ f.at = loc /\ f \in Reader!ObjectFrames /\ StandsObject(f, T, R, PairNow)
      /\ x.calls # <<>> /\ Head(x.calls).as = "object" /\ Head(x.calls).path = f.path
      /\ mCurrentPendingVariables \in SUBSET Reader!PendingMember
      /\ Head(T.arrays) = mCurrentPendingVariables
  BY <1>f, ObjectAt
<1>2. T \in Context /\ R \in Context /\ PairNow \in ClassPairs /\ T.calls = x.calls /\ ReaderTypes
  BY <1>f, PresentIs
<1>3. /\ y.n = x.n /\ x.at + 1 <= Len(stream)
      /\ s.type = "Terminator" => Head(x.calls).todo = <<>> /\ s.index = 0
      /\ s.type # "Terminator" =>
           /\ Head(x.calls).todo # <<>>
           /\ s.index = Item(x.calls).index /\ s.type = GetHeaderEnum(Item(x.calls).type)
  <2>1. HeaderSeen(frames[1]) /\ x.calls # <<>> /\ Head(x.calls).as = "object"
    BY <1>1
  <2> QED BY <1>f, <2>1, SeenItem
<1>p. PICK path : path = Append(f.path, n.index)
  OBVIOUS
<1>r. PICK fr : fr = Reader!ReadFrame(n, path, s.type)
  OBVIOUS
<1>4. frames' = <<fr, e>> \o Tail(frames) /\ n.index = s.index /\ s.type \in Reader!HeaderTypes
      /\ ReadsNow(n, f, e) /\ e.path = f.path
  BY <1>f, <1>p, <1>r
<1>5. path \in Seq(Nat) /\ f.path \in Seq(Nat)
  <2>1. f.path \in Seq(Nat)
    BY <1>1 DEF Reader!ObjectFrames
  <2>2. n.index \in 0 .. 27
    BY DEF Reader!Member
  <2>3. \A i \in 0 .. 27 : i \in Nat
    OBVIOUS
  <2>4. n.index \in Nat
    BY <2>2, <2>3, Zenon
  <2> QED BY <1>p, <2>1, <2>4
<1>6. fr \in Reader!Frame /\ fr.what = "read"
  BY <1>4, <1>5, <1>r, ReadFrameType
<1>7. fr.member = n /\ fr.path = path /\ fr.type = s.type
  BY <1>r DEF Reader!ReadFrame
<1>8. CASE s.type = "Terminator"
  <2>1. Head(T.calls).todo = <<>> /\ n.index = 0
    BY <1>2, <1>3, <1>4, <1>8
  <2>2. n \in Items(f.todo) \/ (\E p \in Head(T.arrays) : p.member = n)
    <3>1. CASE f.todo # <<>> /\ n = Head(f.todo)
      <4>1. f.todo \in Seq(Reader!Member)
        BY <1>1 DEF Reader!ObjectFrames
      <4>2. 1 \in 1 .. Len(f.todo) /\ f.todo[1] = Head(f.todo)
        BY <3>1, <4>1, EmptySeq, LenProperties
      <4> QED BY <3>1, <4>2 DEF Items
    <3>2. CASE \E p \in mCurrentPendingVariables : p.member = n
      BY <1>1, <3>2
    <3> QED BY <1>4, <3>1, <3>2 DEF ReadsNow
  <2>3. LacksZero[PairNow]
    BY <1>1, <1>2, <2>1, <2>2, ObjectLacks
  <2>4. Round <= Len(sent)
    BY DEF IsAt, Following
  <2>5. frames'[1] = fr /\ frames' # <<>>
    <3>1. Tail(frames) \in Seq(Reader!Frame)
      <4>1. frames \in Seq(Reader!Frame) /\ frames # <<>>
        BY <1>2, Innermost DEF ReaderTypes
      <4> QED BY <4>1, HeadTailProperties
    <3>2. <<fr, e>> \in Seq(Reader!Frame) /\ Len(<<fr, e>>) = 2 /\ <<fr, e>>[1] = fr
      BY <1>6
    <3> QED BY <1>4, <3>1, <3>2
  <2>6. sent' = sent /\ entered' = entered
    BY DEF Kindly
  <2>7. Doomed'
    BY <1>6, <1>7, <1>8, <2>3, <2>4, <2>5, <2>6, PairStays DEF Doomed
  <2> QED BY <2>7 DEF Onwards
<1>9. CASE s.type # "Terminator"
  <2>u. PICK U : U = AfterRead(T, n)
    OBVIOUS
  <2>1. Head(T.calls).todo # <<>> /\ n.index = Item(T.calls).index
    BY <1>2, <1>3, <1>4, <1>9
  <2>2. \/ /\ f.todo # <<>> /\ n = Head(f.todo)
           /\ e.at = "store" /\ e.todo = Tail(f.todo)
        \/ /\ \E p \in Head(T.arrays) : p.member = n
           /\ e.at = "returned" /\ e.todo = f.todo /\ e.index = n.index
    BY <1>1, <1>4 DEF ReadsNow
  <2>3. f.at \in {"store", "found"}
    BY <1>1
  <2>4. /\ AfterRead(T, n) \in Context
        /\ Reads(n, Append(f.path, n.index), T, AfterRead(T, n), PairNow)
        /\ StandsObject(e, AfterRead(T, n), R, PairNow)
    BY <1>1, <1>2, <1>4, <2>1, <2>2, <2>3, ObjectReads
  <2>5. U \in Context /\ Reads(n, path, T, U, PairNow) /\ StandsObject(e, U, R, PairNow)
    BY <1>p, <2>u, <2>4
  <2>6. Stands(fr, T, U, PairNow)
    <3>1. fr.type = GetHeaderEnum(Item(T.calls).type)
      BY <1>2, <1>3, <1>7, <1>9
    <3>2. StandsRead(fr, T, U, PairNow)
      BY <1>7, <2>5, <3>1 DEF StandsRead
    <3> QED BY <1>6, <3>2 DEF Stands
  <2>7. Stands(e, U, R, PairNow)
    BY <2>5, StandsObjectIs
  <2>8. Present(T, x)'
    BY <1>f, PresentIs DEF Present, Kindly
  <2>9. TakenSince(fr, x)'
    <3>1. Reached(x.at + 1)
      <4>1. Reached(x.at + OneIf(HeaderSeen(frames[1])))
        BY PointAt
      <4> QED BY <4>1 DEF OneIf
    <3>2. Reached(x.at + 1)'
      BY <3>1 DEF Reached, Kindly
    <3>3. Own(x.calls) = 1
      BY <1>1 DEF Own, OneIf
    <3> QED BY <1>6, <3>2, <3>3 DEF TakenSince
  <2>10. Waits(e)
    <3>1. e.at # "found"
      BY <2>2
    <3> QED BY <3>1 DEF Waits
  <2>11. ReaderTypes' /\ sent' = sent /\ entered' = entered /\ stream' = stream
    BY DEF Kindly, IInv
  <2>12. Stands(e, U, g[2], PairNow) /\ fr.what \notin {"object", "skip"}
    BY <1>6, <1>f, <2>7
  <2>13. Goal(x, y, W)'
    BY <1>2, <1>4, <1>6, <2>5, <2>6, <2>8, <2>9, <2>10, <2>11, <2>12, Invokes
  <2> QED BY <2>13 DEF Onwards
<1> QED BY <1>8, <1>9

\* The header kept is that of the member stored.
LEMMA StoreKeptOn ==
  ASSUME NEW x, NEW y, NEW W, NEW g, IsAt(x, y, W, g), Kindly, Reader!StoreKept
  PROVE  Onwards(x, y, W)'
<1>1. Reader!Storing("store") /\ mCurrentIndexPending /\ Reader!Now.index = mCurrentIndex /\ ReaderTypes
  BY PresentIs DEF Reader!StoreKept
<1>f. PICK f, e, n : f = frames[1] /\ e = Done(f) /\ n = Reader!Now
  OBVIOUS
<1>2. /\ Reader!AtPoint("store") /\ f \in Reader!ObjectFrames /\ f.what = "object" /\ f.todo # <<>>
      /\ n = Head(f.todo) /\ n \in Reader!Member /\ Reader!Place(Reader!Now) = Append(f.path, n.index)
  BY <1>1, <1>f, StoringAt
<1>3. f.at = "store" /\ HeaderSeen(f) /\ Reader!Top = f
  BY <1>1, <1>2, <1>f, PointAt
<1>4. /\ e \in Reader!Frame /\ e.what = "object" /\ e.at = "store" /\ e.path = f.path /\ e.todo = Tail(f.todo)
      /\ e = [f EXCEPT !.todo = Tail(@)]
  BY <1>2, <1>3, <1>f, DoneTypes
<1>5. SeenHeader(f).index = mCurrentIndex /\ SeenHeader(f).type = mCurrentType
  BY <1>3 DEF SeenHeader, Header
<1>6. frames' = <<Reader!ReadFrame(n, Append(f.path, n.index), SeenHeader(f).type), e>> \o Tail(frames)
  BY <1>2, <1>3, <1>4, <1>5, <1>f DEF Reader!StoreKept
<1>7. /\ mCurrentPendingVariables' = mCurrentPendingVariables /\ mVariableHistory' = mVariableHistory
      /\ mObjectSkipping' = mObjectSkipping /\ result' = result /\ pos' = pos
  BY DEF Reader!StoreKept, Reader!streamFlags, Reader!arrays
<1>8. ReadsNow(n, frames[1], e)
  BY <1>2, <1>4, <1>f DEF ReadsNow
<1>9. SeenHeader(f).type \in Reader!HeaderTypes /\ n.index = SeenHeader(f).index
  <2>1. mCurrentType \in Reader!HeaderTypes
    BY <1>1, Zenon DEF ReaderTypes
  <2> QED BY <1>1, <1>5, <1>f, <2>1, Zenon
<1> QED BY <1>2, <1>3, <1>4, <1>6, <1>7, <1>8, <1>9, <1>f, ReadsOn

\* The header read is that of the member stored.
LEMMA StoreFoundOn ==
  ASSUME NEW x, NEW y, NEW W, NEW g, IsAt(x, y, W, g), Kindly, Reader!StoreFound
  PROVE  Onwards(x, y, W)'
<1>1. Reader!Storing("found") /\ Reader!Now.index = Reader!Top.index /\ ReaderTypes
  BY PresentIs DEF Reader!StoreFound
<1>f. PICK f, e, n : f = frames[1] /\ e = Done(f) /\ n = Reader!Now
  OBVIOUS
<1>2. /\ Reader!AtPoint("found") /\ f \in Reader!ObjectFrames /\ f.what = "object" /\ f.todo # <<>>
      /\ n = Head(f.todo) /\ n \in Reader!Member /\ Reader!Place(Reader!Now) = Append(f.path, n.index)
  BY <1>1, <1>f, StoringAt
<1>3. f.at = "found" /\ HeaderSeen(f) /\ Reader!Top = f
  BY <1>1, <1>2, <1>f, PointAt
<1>4. /\ e \in Reader!Frame /\ e.what = "object" /\ e.at = "store" /\ e.path = f.path /\ e.todo = Tail(f.todo)
  BY <1>2, <1>3, <1>f, DoneTypes
<1>5. SeenHeader(f).index = f.index /\ SeenHeader(f).type = f.type
  BY <1>3 DEF SeenHeader, Header
<1>6. frames' = <<Reader!ReadFrame(n, Append(f.path, n.index), SeenHeader(f).type), e>> \o Tail(frames)
  BY <1>2, <1>3, <1>5, <1>f DEF Reader!StoreFound, Done
<1>7. /\ mCurrentPendingVariables' = mCurrentPendingVariables /\ mVariableHistory' = mVariableHistory
      /\ mObjectSkipping' = mObjectSkipping /\ result' = result /\ pos' = pos
  BY DEF Reader!StoreFound, Reader!messageVars
<1>8. ReadsNow(n, frames[1], e)
  BY <1>2, <1>4, <1>f DEF ReadsNow
<1>9. SeenHeader(f).type \in Reader!HeaderTypes /\ n.index = SeenHeader(f).index
  BY <1>1, <1>2, <1>3, <1>5, <1>f DEF Reader!ObjectFrames
<1> QED BY <1>2, <1>3, <1>4, <1>6, <1>7, <1>8, <1>9, <1>f, ReadsOn

\* The header read is that of a pending member.
LEMMA ReadNowOn ==
  ASSUME NEW x, NEW y, NEW W, NEW g, IsAt(x, y, W, g), Kindly, Reader!ReadNow
  PROVE  Onwards(x, y, W)'
<1>1. Reader!AtPoint("found") /\ Reader!MayReadNow /\ ReaderTypes
  BY PresentIs DEF Reader!ReadNow
<1>f. PICK f, e : f = frames[1] /\ e = [f EXCEPT !.at = "returned"]
  OBVIOUS
<1>2. /\ f.at = "found" /\ HeaderSeen(f) /\ Reader!Top = f
      /\ f \in Reader!ObjectFrames \cup Reader!SkipFrames /\ f.what \in {"object", "skip"}
      /\ f.what = "skip" => StandsSkip(f, g[1], g[2])
      /\ f.index \in 0 .. 27 /\ f.type \in Reader!HeaderTypes
  BY <1>1, <1>f, PointAt
<1>3. f.what = "object"
  <2>1. CASE f.what = "skip"
    <3>1. mObjectSkipping
      BY <1>2, <2>1, PresentIs DEF StandsSkip
    <3>2. f.todo = <<>>
      <4>1. f \in Reader!Frame
        BY <1>f, Innermost
      <4> QED BY <2>1, <4>1, Kinds DEF Reader!SkipFrames
    <3> QED BY <1>1, <1>2, <3>1, <3>2 DEF Reader!MayReadNow
  <2> QED BY <1>2, <2>1
<1>4. f \in Reader!ObjectFrames /\ StandsObject(f, g[1], g[2], PairNow) /\ Head(g[1].arrays) = mCurrentPendingVariables
      /\ mCurrentPendingVariables \in SUBSET Reader!PendingMember
  BY <1>1, <1>3, <1>f, ObjectAt
<1>5. PICK p \in mCurrentPendingVariables :
        /\ p.member.index = f.index
        /\ frames' = <<Reader!ReadFrame(p.member, p.path, f.type), e>> \o Tail(frames)
  BY <1>2, <1>f DEF Reader!ReadNow
<1>6. p.member \in Reader!Member /\ p.path = Append(f.path, p.member.index)
  <2>1. p \in Reader!PendingMember
    BY <1>4
  <2>2. p.path = Append(f.path, p.member.index)
    <3>1. PICK pr \in Pairs[PairNow] : IsBetween(f, g[1], g[2], pr)
      BY <1>4, PresentIs, Between
    <3> QED BY <1>2, <1>4, <3>1 DEF IsBetween, Meets
  <2> QED BY <2>1, <2>2 DEF Reader!PendingMember
<1>7. /\ e \in Reader!Frame /\ e.what = "object" /\ e.at = "returned" /\ e.path = f.path /\ e.todo = f.todo
      /\ e.index = f.index
  <2>1. e \in Reader!Frame /\ Alters(f, e) /\ e.at = "returned" /\ e.what = f.what /\ e.index = f.index
    BY <1>2, <1>f, PointMoved
  <2> QED BY <1>3, <2>1 DEF Alters
<1>8. SeenHeader(f).index = f.index /\ SeenHeader(f).type = f.type
  BY <1>2 DEF SeenHeader, Header
<1>n. PICK n : n = p.member
  OBVIOUS
<1>9. frames' = <<Reader!ReadFrame(n, Append(f.path, n.index), SeenHeader(f).type), e>> \o Tail(frames)
  BY <1>5, <1>6, <1>8, <1>n
<1>10. /\ mCurrentPendingVariables' = mCurrentPendingVariables /\ mVariableHistory' = mVariableHistory
      /\ mObjectSkipping' = mObjectSkipping /\ result' = result /\ pos' = pos
  BY DEF Reader!ReadNow, Reader!messageVars
<1>11. ReadsNow(n, frames[1], e)
  BY <1>5, <1>7, <1>n, <1>f DEF ReadsNow
<1>12. SeenHeader(f).type \in Reader!HeaderTypes /\ n.index = SeenHeader(f).index /\ n \in Reader!Member
  BY <1>2, <1>5, <1>6, <1>8, <1>n
<1> QED BY <1>1, <1>2, <1>3, <1>7, <1>9, <1>10, <1>11, <1>12, <1>f, ReadsOn

\* A header that has been taken is no longer there when its member is dealt with.
LEMMA PointTaken ==
  ASSUME NEW x, NEW y, NEW W, NEW g, IsAt(x, y, W, g), Reader!AtPoint("found")
  PROVE  /\ HeaderSeen(frames[1]) /\ Reached(x.at + 1) /\ x.at \in Nat /\ x.at + 1 <= Len(stream)
         /\ SeenHeader(frames[1]).index = frames[1].index
         /\ SeenHeader(frames[1]).type = frames[1].type
         /\ ~mCurrentIndexPending /\ frames[1].at = "found" /\ Reader!Top = frames[1]
         /\ x.calls # <<>> /\ Head(x.calls).as = "object"
<1>1. /\ HeaderSeen(frames[1]) /\ frames[1].at = "found" /\ x.at + 1 <= Len(stream)
      /\ ~mCurrentIndexPending /\ Reader!Top = frames[1]
      /\ Reached(x.at + OneIf(HeaderSeen(frames[1])))
      /\ x.calls # <<>> /\ Head(x.calls).as = "object"
  BY PointAt
<1>2. Reached(x.at + 1)
  BY <1>1 DEF OneIf
<1>3. x.at \in Nat
  BY DEF IsAt, Moment
<1>4. SeenHeader(frames[1]) = Header(frames[1].index, frames[1].type)
  BY <1>1 DEF SeenHeader
<1> QED BY <1>1, <1>2, <1>3, <1>4 DEF Header

\* Inside an object that is skipped nothing is read.
LEMMA SkipSkips ==
  ASSUME NEW f, NEW T \in Context, NEW R \in Context,
         StandsSkip(f, T, R), Head(T.calls).todo # <<>>,
         NEW e, e.clears = f.clears, e.at = "header"
  PROVE  /\ AfterSkip(T) \in Context /\ StandsSkip(e, AfterSkip(T), R)
         /\ PlainMember(Item(T.calls)) /\ Head(T.calls).as = "object" /\ T.calls # <<>>
<1>1. /\ T.skipping /\ R.skipping = ~f.clears
      /\ T.calls # <<>> /\ Head(T.calls).as = "object" /\ R.calls = Tail(T.calls)
      /\ R.arrays = T.arrays /\ Passes(T, R)
  BY DEF StandsSkip
<1>2. PICK c \in Class : PlainClass(c) /\ LeftOf(Head(T.calls).todo, c)
  BY DEF StandsSkip
<1>3. /\ LeftOf(Tail(Head(T.calls).todo), c) /\ Item(T.calls) \in MembersOf(c)
  BY <1>2, SomeLeft DEF Item
<1>4. PlainMember(Item(T.calls))
  BY <1>2, <1>3, PlainInside
<1>u. PICK U : U = AfterSkip(T)
  OBVIOUS
<1>5. /\ U \in Context /\ U.calls = AfterStore(T.calls) /\ U.arrays = T.arrays
      /\ U.skipping = T.skipping /\ U.got = T.got /\ U.clean = T.clean
  BY <1>1, <1>u, AfterItem
<1>6. /\ AfterStore(T.calls) # <<>> /\ Tail(AfterStore(T.calls)) = Tail(T.calls)
      /\ Head(AfterStore(T.calls)).todo = Tail(Head(T.calls).todo)
      /\ Head(AfterStore(T.calls)).as = "object"
  BY <1>1, CallTypes, ContextTypes
<1>7. Passes(U, R)
  BY <1>1, <1>5 DEF Passes
<1>8. StandsSkip(e, U, R)
  BY <1>1, <1>2, <1>3, <1>5, <1>6, <1>7 DEF StandsSkip
<1> QED BY <1>1, <1>4, <1>5, <1>8, <1>u

\* The call of SkipVariable.
LEMMA UnknownFrameType ==
  ASSUME NEW type \in Reader!HeaderTypes
  PROVE  /\ Reader!UnknownFrame(type) \in Reader!Frame
         /\ Reader!UnknownFrame(type).what = "unknown"
         /\ Reader!UnknownFrame(type).type = type
BY DEF Reader!UnknownFrame, Reader!Frame, Reader!UnknownFrames

\* The header is that of a member that the reader does not have.
LEMMA SkipUnknownOn ==
  ASSUME NEW x, NEW y, NEW W, NEW g, IsAt(x, y, W, g), Kindly, Reader!SkipUnknown
  PROVE  Onwards(x, y, W)'
<1>1. /\ Reader!AtPoint("found") /\ Reader!Top.todo = <<>> /\ Reader!Top.type # "Terminator"
      /\ ~(Reader!MayReadNow /\ Reader!IsPending(Reader!Top.index))
  BY DEF Reader!SkipUnknown, Reader!Remaining
<1>f. PICK f, e, T, R : f = frames[1] /\ e = [f EXCEPT !.at = "header"] /\ T = g[1] /\ R = g[2]
  OBVIOUS
<1>2. /\ Reader!Top = f /\ f.at = "found" /\ HeaderSeen(f)
      /\ f \in Reader!ObjectFrames \cup Reader!SkipFrames /\ f.what \in {"object", "skip"}
      /\ f.what = "object" => StandsObject(f, T, R, PairNow)
      /\ f.what = "skip" => StandsSkip(f, T, R)
      /\ f.type \in Reader!HeaderTypes
  BY <1>1, <1>f, PointAt
<1>3. /\ Reached(x.at + 1) /\ SeenHeader(f).index = f.index /\ SeenHeader(f).type = f.type
      /\ x.calls # <<>> /\ Head(x.calls).as = "object"
  BY <1>1, <1>f, PointTaken
<1>4. T \in Context /\ R \in Context /\ PairNow \in ClassPairs /\ T.calls = x.calls /\ ~Unsupported[PairNow]
      /\ T.skipping = mObjectSkipping
  BY <1>f, PresentIs
<1>5. /\ Head(x.calls).todo # <<>> /\ f.index = Item(x.calls).index
      /\ f.type = GetHeaderEnum(Item(x.calls).type)
  <2>1. HeaderSeen(frames[1]) /\ SeenHeader(frames[1]).type # "Terminator"
    BY <1>1, <1>2, <1>3, <1>f
  <2> QED BY <1>3, <1>f, <2>1, SeenItem
<1>6. /\ e \in Reader!Frame /\ Alters(f, e) /\ e.at = "header" /\ e.what = f.what /\ e.todo = f.todo
  BY <1>2, <1>f, PointMoved
<1>7. /\ AfterSkip(T) \in Context /\ Stands(e, AfterSkip(T), R, PairNow)
      /\ PlainMember(Item(T.calls))
  <2>1. CASE f.what = "object"
    <3>1. ~\E p \in Head(T.arrays) : p.member.index = Item(T.calls).index
      <4>1. ~T.skipping
        BY <1>2, <1>4, <2>1, Between
      <4>2. ~Reader!IsPending(f.index)
        BY <1>1, <1>2, <1>4, <4>1 DEF Reader!MayReadNow
      <4>3. Head(T.arrays) = mCurrentPendingVariables
        BY <1>1, <1>f, <2>1, ObjectAt
      <4> QED BY <1>4, <1>5, <4>2, <4>3 DEF Reader!IsPending
    <3>2. e.path = f.path /\ e.todo = <<>>
      BY <1>1, <1>2, <1>6, <2>1 DEF Alters
    <3>3. StandsObject(f, T, R, PairNow) /\ f.at = "found" /\ f.todo = <<>> /\ Head(T.calls).todo # <<>>
      BY <1>1, <1>2, <1>4, <1>5, <2>1
    <3>4. /\ AfterSkip(T) \in Context /\ StandsObject(e, AfterSkip(T), R, PairNow)
          /\ PlainMember(Item(T.calls))
      BY <1>4, <1>6, <3>1, <3>2, <3>3, ObjectSkips
    <3> QED BY <1>6, <2>1, <3>4, StandsObjectIs
  <2>2. CASE f.what = "skip"
    <3>1. e.clears = f.clears
      BY <1>6, <2>2 DEF Alters
    <3>2. StandsSkip(f, T, R) /\ Head(T.calls).todo # <<>>
      BY <1>2, <1>4, <1>5, <2>2
    <3>3. /\ AfterSkip(T) \in Context /\ StandsSkip(e, AfterSkip(T), R)
          /\ PlainMember(Item(T.calls))
      BY <1>4, <1>6, <3>1, <3>2, SkipSkips
    <3> QED BY <1>6, <2>2, <3>3 DEF Stands
  <2> QED BY <1>2, <2>1, <2>2
<1>u. PICK U, fr : U = AfterSkip(T) /\ fr = Reader!UnknownFrame(f.type)
  OBVIOUS
<1>8. fr \in Reader!Frame /\ fr.what = "unknown" /\ fr.type = f.type
  BY <1>2, <1>u, UnknownFrameType
<1>9. frames' = <<fr, e>> \o Tail(frames)
  BY <1>2, <1>f, <1>u DEF Reader!SkipUnknown
<1>10. Stands(fr, T, U, PairNow)
  <2>1. /\ U.calls = AfterStore(T.calls) /\ U.arrays = T.arrays
        /\ U.skipping = T.skipping /\ U.got = T.got /\ U.clean = T.clean
    BY <1>3, <1>4, <1>5, <1>u, AfterItem
  <2>2. TakesItem(T, U) /\ Passes(T, U)
    BY <1>3, <1>4, <1>5, <2>1 DEF TakesItem, Passes
  <2>3. StandsUnknown(fr, T, U)
    BY <1>3, <1>4, <1>5, <1>7, <1>8, <2>2 DEF StandsUnknown
  <2> QED BY <1>8, <2>3 DEF Stands
<1>11. Present(T, x)'
  <2>1. /\ mCurrentPendingVariables' = mCurrentPendingVariables /\ mVariableHistory' = mVariableHistory
        /\ mObjectSkipping' = mObjectSkipping /\ result' = result
    BY DEF Reader!SkipUnknown, Reader!messageVars
  <2> QED BY <1>f, <2>1, PresentIs DEF Present, Kindly
<1>12. TakenSince(fr, x)'
  <2>1. Reached(x.at + 1)'
    BY <1>3 DEF Reached, Kindly, Reader!SkipUnknown
  <2>2. Own(x.calls) = 1
    BY <1>3 DEF Own, OneIf
  <2> QED BY <1>8, <2>1, <2>2 DEF TakenSince
<1>13. Waits(e) /\ fr.what \notin {"object", "skip"}
  BY <1>2, <1>6, <1>8 DEF Waits
<1>14. ReaderTypes' /\ sent' = sent /\ entered' = entered /\ stream' = stream
  BY DEF Kindly, IInv
<1>15. U \in Context /\ Stands(e, U, g[2], PairNow)
  BY <1>7, <1>f, <1>u
<1>16. Goal(x, y, W)'
  BY <1>4, <1>6, <1>8, <1>9, <1>10, <1>11, <1>12, <1>13, <1>14, <1>15, Invokes
<1> QED BY <1>16 DEF Onwards

\* The call goes back to the one below it.
LEMMA BackTo ==
  ASSUME NEW x, NEW y, NEW W, NEW g, IsAt(x, y, W, g), Kindly,
         frames' = Tail(frames), Present(g[2], y)', y.n = x.n, Reached(y.at)', ~mCurrentIndexPending',
         frames[1].what = "object" => y.at <= Len(stream)
  PROVE  Onwards(x, y, W)'
<1>1. ReaderTypes' /\ sent' = sent /\ entered' = entered /\ stream' = stream
  BY DEF Kindly, IInv
<1>2. y \in {x, y}
  OBVIOUS
<1>3. Goal(x, y, W)'
  BY <1>1, <1>2, ReturnsTo
<1> QED BY <1>3 DEF Onwards

\* The object is read to its Terminator.
LEMMA LeaveObjectOn ==
  ASSUME NEW x, NEW y, NEW W, NEW g, IsAt(x, y, W, g), Kindly, Reader!LeaveObject
  PROVE  Onwards(x, y, W)'
<1>1. /\ Reader!AtPoint("found") /\ Reader!Top.type = "Terminator" /\ Reader!Top.what = "object"
  BY DEF Reader!LeaveObject, Reader!Remaining, Reader!Running
<1>f. PICK f, T, R : f = frames[1] /\ T = g[1] /\ R = g[2]
  OBVIOUS
<1>2. /\ Reader!Top = f /\ f.at = "found" /\ HeaderSeen(f) /\ Reached(x.at + 1)
      /\ SeenHeader(f).type = f.type /\ x.at \in Nat /\ x.at + 1 <= Len(stream)
      /\ x.calls # <<>> /\ Head(x.calls).as = "object" /\ ~mCurrentIndexPending
  BY <1>1, <1>f, PointTaken
<1>3. f.what = "object" /\ StandsObject(f, T, R, PairNow) /\ Tail(T.arrays) = mVariableHistory
  BY <1>1, <1>2, <1>f, ObjectAt
<1>4. T \in Context /\ R \in Context /\ PairNow \in ClassPairs /\ T.calls = x.calls
      /\ T.skipping = mObjectSkipping /\ T.clean /\ (x.at <= Len(stream) => T.got = result) /\ ReaderTypes
  BY <1>f, PresentIs
<1>5. /\ Head(x.calls).todo = <<>> /\ y.n = x.n /\ y.calls = Tail(x.calls) /\ y.at = x.at + 1
  <2>1. HeaderSeen(frames[1]) /\ SeenHeader(frames[1]).type = "Terminator"
    BY <1>1, <1>2, <1>f
  <2> QED BY <1>2, <2>1, SeenItem
<1>6. R.got = T.got /\ R.clean = T.clean
  BY <1>2, <1>3, <1>4, <1>5, ObjectEnds, ZenonT(40)
<1>7. R.calls = y.calls /\ R.arrays = mVariableHistory /\ R.skipping = mObjectSkipping
  <2>1. /\ ~T.skipping /\ ~R.skipping /\ R.calls = Tail(T.calls) /\ R.arrays = Tail(T.arrays)
    BY <1>2, <1>3, <1>4, Between
  <2>2. R.skipping \in BOOLEAN /\ T.skipping \in BOOLEAN
    BY <1>4, ContextTypes
  <2> QED BY <1>3, <1>4, <1>5, <2>1, <2>2
<1>8. /\ mCurrentPendingVariables' = Head(mVariableHistory) /\ mVariableHistory' = Tail(mVariableHistory)
      /\ mObjectSkipping' = mObjectSkipping /\ result' = result /\ pos' = pos /\ stream' = stream
      /\ mCurrentIndexPending' = mCurrentIndexPending /\ frames' = Tail(frames)
  BY DEF Reader!LeaveObject, Reader!PopHistory, Reader!Leave, Reader!streamFlags
<1>9. mVariableHistory = <<mCurrentPendingVariables'>> \o mVariableHistory'
  <2>1. mVariableHistory # <<>>
    <3>1. BottomInv /\ frames # <<>>
      <4>1. frames # <<>>
        BY Innermost
      <4> QED BY <4>1 DEF IsAt, IInv
    <3> QED BY <1>2, <1>f, <3>1 DEF BottomInv, Entering
  <2>2. mVariableHistory \in Seq({Null} \cup SUBSET Reader!PendingMember)
    BY <1>4 DEF ReaderTypes
  <2> HIDE DEF Reader!PendingMember
  <2> QED BY <1>8, <2>1, <2>2
<1>10. Present(R, y)'
  <2>1. y.at <= Len(stream)' => R.got = result'
    BY <1>2, <1>4, <1>5, <1>6, <1>8
  <2> QED BY <1>4, <1>6, <1>7, <1>8, <1>9, <2>1 DEF Present
<1>11. Reached(y.at)'
  BY <1>2, <1>5, <1>8 DEF Reached
<1> QED BY <1>2, <1>5, <1>8, <1>10, <1>11, <1>f, BackTo

\* So is one that is skipped.
LEMMA LeaveSkippedOn ==
  ASSUME NEW x, NEW y, NEW W, NEW g, IsAt(x, y, W, g), Kindly, Reader!LeaveSkipped
  PROVE  Onwards(x, y, W)'
<1>1. /\ Reader!AtPoint("found") /\ Reader!Top.type = "Terminator" /\ Reader!Top.what = "skip"
  BY DEF Reader!LeaveSkipped, Reader!Remaining, Reader!Running
<1>f. PICK f, T, R : f = frames[1] /\ T = g[1] /\ R = g[2]
  OBVIOUS
<1>2. /\ Reader!Top = f /\ f.at = "found" /\ HeaderSeen(f) /\ Reached(x.at + 1)
      /\ SeenHeader(f).type = f.type /\ x.at \in Nat /\ x.at + 1 <= Len(stream)
      /\ x.calls # <<>> /\ Head(x.calls).as = "object" /\ ~mCurrentIndexPending
  BY <1>1, <1>f, PointTaken
<1>3. f.what = "skip" /\ StandsSkip(f, T, R)
  BY <1>1, <1>2, <1>f, PointAt
<1>4. T \in Context /\ R \in Context /\ T.calls = x.calls
      /\ T.arrays = <<mCurrentPendingVariables>> \o mVariableHistory
      /\ T.skipping = mObjectSkipping /\ T.clean /\ (x.at <= Len(stream) => T.got = result)
  BY <1>f, PresentIs
<1>5. /\ y.n = x.n /\ y.calls = Tail(x.calls) /\ y.at = x.at + 1
  <2>1. HeaderSeen(frames[1]) /\ SeenHeader(frames[1]).type = "Terminator"
    BY <1>1, <1>2, <1>f
  <2> QED BY <1>2, <2>1, SeenItem
<1>6. /\ mObjectSkipping /\ R.skipping = ~f.clears /\ R.calls = y.calls /\ R.arrays = T.arrays
      /\ R.got = T.got /\ R.clean = T.clean
  BY <1>3, <1>4, <1>5 DEF StandsSkip, Passes
<1>8. /\ mCurrentPendingVariables' = mCurrentPendingVariables /\ mVariableHistory' = mVariableHistory
      /\ mObjectSkipping' = (mObjectSkipping /\ ~f.clears) /\ result' = result /\ pos' = pos /\ stream' = stream
      /\ mCurrentIndexPending' = mCurrentIndexPending /\ frames' = Tail(frames)
  BY <1>2 DEF Reader!LeaveSkipped, Reader!Leave, Reader!arrays
<1>10. Present(R, y)'
  <2>1. y.at <= Len(stream)' => R.got = result'
    BY <1>2, <1>4, <1>5, <1>6, <1>8
  <2>2. R.skipping = mObjectSkipping'
    BY <1>6, <1>8
  <2> QED BY <1>4, <1>6, <1>8, <2>1, <2>2 DEF Present
<1>11. Reached(y.at)'
  BY <1>2, <1>5, <1>8 DEF Reached
<1> QED BY <1>2, <1>3, <1>5, <1>8, <1>10, <1>11, <1>f, BackTo

-----------------------------------------------------------------------------
(*****************************************************************************)
(* The values of a member.                                                 *)
(*****************************************************************************)
\* What a step gets of the stream when the reader has taken the first b tokens.
LEMMA Taking ==
  ASSUME ReaderTypes, frames # <<>>, Reader!Got, NEW b \in Nat, Reached(b)
  PROVE  /\ Len(Reader!Wanted) \in Nat /\ Len(stream) \in Nat
         /\ Len(Reader!Wanted) >= 1 => pos = b + 1 /\ b + Len(Reader!Wanted) <= Len(stream)
         /\ \A j \in 1 .. Len(Reader!Wanted) :
              /\ b + j \in 1 .. Len(stream) /\ pos + j - 1 = b + j
              /\ stream[b + j].token = Reader!Wanted[j] /\ stream[b + j] \in Reader!Token
<1>1. /\ Len(Reader!Wanted) \in Nat
      /\ \A j \in 1 .. Len(Reader!Wanted) :
           /\ stream[pos + j - 1] \in Reader!Token
           /\ stream[pos + j - 1].token = Reader!Wanted[j]
  BY Taken
<1>2. Len(stream) \in Nat /\ pos \in Nat
  BY LenProperties DEF ReaderTypes
<1>3. \A j \in 1 .. Len(Reader!Wanted) : pos + j - 1 <= Len(stream)
  BY DEF Reader!Got, Reader!Fits
<1>4. Len(Reader!Wanted) >= 1 => pos = b + 1 /\ b + Len(Reader!Wanted) <= Len(stream)
  <2>1. ASSUME Len(Reader!Wanted) >= 1 PROVE pos = b + 1 /\ b + Len(Reader!Wanted) <= Len(stream)
    <3>1. 1 \in 1 .. Len(Reader!Wanted) /\ Len(Reader!Wanted) \in 1 .. Len(Reader!Wanted)
      BY <1>1, <2>1
    <3>2. pos <= Len(stream) /\ pos + Len(Reader!Wanted) - 1 <= Len(stream)
      BY <1>2, <1>3, <3>1
    <3> QED BY <1>1, <1>2, <3>2 DEF Reached
  <2> QED BY <2>1
<1>5. ASSUME NEW j \in 1 .. Len(Reader!Wanted)
      PROVE  /\ b + j \in 1 .. Len(stream) /\ pos + j - 1 = b + j
             /\ stream[b + j].token = Reader!Wanted[j] /\ stream[b + j] \in Reader!Token
  <2>1. Len(Reader!Wanted) >= 1 /\ j \in Nat /\ j >= 1 /\ j <= Len(Reader!Wanted)
    BY <1>1
  <2>2. pos + j - 1 = b + j /\ b + j \in 1 .. Len(stream)
    BY <1>1, <1>2, <1>4, <2>1
  <2> QED BY <1>1, <2>2
<1> QED BY <1>1, <1>2, <1>4, <1>5

\* A block is all that is wanted or all that there is.
LEMMA TakingValues ==
  ASSUME ReaderTypes, frames # <<>>, Reader!Got, NEW b \in Nat, Reached(b), NEW n \in Nat,
         Reader!Wanted = Reader!Values(n) \/ Reader!Wanted = Reader!Block(n),
         stream' = stream, Reader!Take
  PROVE  /\ Reached(b + n)' /\ Len(Reader!Wanted) <= n
         /\ b + n <= Len(stream) => Len(Reader!Wanted) = n
<1>1. /\ Len(Reader!Wanted) \in Nat /\ Len(stream) \in Nat
      /\ Len(Reader!Wanted) >= 1 => pos = b + 1 /\ b + Len(Reader!Wanted) <= Len(stream)
  BY Taking
<1>2. pos \in Nat /\ Reader!Left \in Nat
  BY <1>1 DEF ReaderTypes, Reader!Left
<1>3. \A k \in Nat : Len(Reader!Values(k)) = k
  BY DEF Reader!Values
<1>4. pos' = pos + Len(Reader!Wanted)
  BY DEF Reader!Take
<1>5. CASE Len(Reader!Wanted) = n
  BY <1>1, <1>2, <1>4, <1>5 DEF Reached
<1>6. CASE Len(Reader!Wanted) # n
  <2>1. Reader!Wanted = Reader!Block(n)
    BY <1>3, <1>6
  <2>2. Len(Reader!Wanted) = Reader!Left /\ Reader!Left < n
    BY <1>2, <1>3, <1>6, <2>1 DEF Reader!Block
  <2>3. CASE pos > Len(stream)
    <3>1. Reader!Left = 0 /\ pos' = pos
      BY <1>1, <1>2, <1>4, <2>2, <2>3 DEF Reader!Left
    <3>2. pos = Len(stream) + 1 /\ b >= Len(stream)
      BY <1>1, <1>2, <2>3 DEF Reached
    <3>3. b + n > Len(stream)
      BY <1>1, <2>2, <3>1, <3>2
    <3> QED BY <1>1, <2>2, <3>1, <3>2, <3>3 DEF Reached
  <2>4. CASE pos <= Len(stream)
    <3>1. Reader!Left = Len(stream) - pos + 1
      BY <1>1, <1>2, <2>4 DEF Reader!Left
    <3>2. pos = b + 1
      BY <1>1, <1>2, <2>4 DEF Reached
    <3>3. pos' = Len(stream) + 1 /\ b + n > Len(stream)
      BY <1>1, <1>2, <1>4, <2>2, <3>1, <3>2
    <3> QED BY <1>1, <2>2, <3>3 DEF Reached
  <2> QED BY <1>1, <1>2, <2>3, <2>4
<1> QED BY <1>5, <1>6

\* The header of an array, and its size.
LEMMA TakingArray ==
  ASSUME ReaderTypes, frames # <<>>, Reader!Got, NEW b \in Nat, Reached(b),
         Reader!Wanted = <<"header", "size">>,
         stream' = stream, Reader!Take
  PROVE  /\ Reached(b + 2)' /\ b + 2 <= Len(stream)
         /\ stream[pos] = stream[b + 1] /\ stream[pos + 1] = stream[b + 2]
         /\ b + 1 \in 1 .. Len(stream) /\ b + 2 \in 1 .. Len(stream)
<1>1. Len(Reader!Wanted) = 2
  OBVIOUS
<1>2. /\ Len(stream) \in Nat
      /\ pos = b + 1 /\ b + Len(Reader!Wanted) <= Len(stream)
  BY <1>1, Taking
<1>3. pos' = pos + 2
  BY <1>1 DEF Reader!Take
<1>4. pos + 1 = b + 2 /\ b + 2 <= Len(stream) /\ b + 1 \in 1 .. Len(stream) /\ b + 2 \in 1 .. Len(stream)
  BY <1>1, <1>2
<1>5. Reached(b + 2)'
  BY <1>2, <1>3, <1>4 DEF Reached
<1> QED BY <1>2, <1>4, <1>5

\* What can be read from what.
LEMMA AcceptedFits ==
  ASSUME NEW m \in Member, NEW n \in Member, GetHeaderEnum(m.type) \in Accepted(n.type)
  PROVE  /\ n.type # "Array" => Fitting(m, n)
         /\ n.type = "Array" => m.type = "Array"
         /\ n.type = "Array" /\ GetHeaderEnum(m.sub) = GetHeaderEnum(n.sub) => Fitting(m, n)
<1>1. /\ m.type \in PrimitiveTypes \cup {"Array", "Object"}
      /\ n.type \in PrimitiveTypes \cup {"Array", "Object"}
      /\ m.sub \in PrimitiveTypes \cup {"Object", "None"}
      /\ n.sub \in PrimitiveTypes \cup {"Object", "None"}
  BY DEF Member
<1>2. n.type # "Array" => Fitting(m, n)
  <2>1. CASE n.type \in IntegerTypes
    <3>1. GetHeaderEnum(m.type) \in IntegerTypes
      <4>1. PICK t : t = n.type
        OBVIOUS
      <4>2. t \in IntegerTypes => Accepted(t) = IntegerTypes
        BY DEF Accepted, IntegerTypes
      <4>3. Accepted(n.type) = IntegerTypes
        BY <2>1, <4>1, <4>2
      <4> QED BY <4>3
    <3>2. m.type \in Numbers
      BY <1>1, <3>1 DEF GetHeaderEnum, Numbers, PrimitiveTypes, IntegerTypes
    <3> QED BY <2>1, <3>2 DEF Fitting, Numbers, IntegerTypes
  <2>2. CASE n.type \in {"Float", "Double"}
    <3>1. GetHeaderEnum(m.type) \in {"UInt32", "UInt64"}
      <4>1. Accepted(n.type) = {"UInt32", "UInt64"}
        BY <2>2 DEF Accepted, IntegerTypes
      <4> QED BY <4>1
    <3>2. m.type \in {"UInt32", "UInt64", "Float", "Double"}
      BY <1>1, <3>1 DEF GetHeaderEnum, PrimitiveTypes, IntegerTypes
    <3> QED BY <2>2, <3>2 DEF Fitting, Numbers
  <2>3. CASE n.type \in {"String", "Object"}
    <3>1. GetHeaderEnum(m.type) = n.type
      <4>1. Accepted(n.type) = {n.type}
        BY <2>3 DEF Accepted, IntegerTypes
      <4> QED BY <4>1
    <3>2. m.type = n.type
      BY <1>1, <2>3, <3>1 DEF GetHeaderEnum, PrimitiveTypes, IntegerTypes
    <3> QED BY <2>3, <3>2 DEF Fitting, Numbers
  <2> QED BY <1>1, <2>1, <2>2, <2>3 DEF PrimitiveTypes
<1>3. n.type = "Array" => m.type = "Array"
  <2>1. n.type = "Array" => Accepted(n.type) = {n.type}
    BY DEF Accepted, IntegerTypes
  <2>2. n.type = "Array" => GetHeaderEnum(m.type) = "Array"
    BY <2>1
  <2> QED BY <1>1, <2>2 DEF GetHeaderEnum
<1>4. ASSUME n.type = "Array", GetHeaderEnum(m.sub) = GetHeaderEnum(n.sub) PROVE Fitting(m, n)
  <2>1. m.sub = n.sub \/ {m.sub, n.sub} \in SameOnTheWire
    <3>1. m.sub = n.sub \/ (m.sub = "Float" /\ n.sub = "UInt32") \/ (m.sub = "UInt32" /\ n.sub = "Float")
          \/ (m.sub = "Double" /\ n.sub = "UInt64") \/ (m.sub = "UInt64" /\ n.sub = "Double")
      BY <1>1, <1>4 DEF GetHeaderEnum, PrimitiveTypes, IntegerTypes
    <3>2. {"UInt32", "Float"} = {"Float", "UInt32"} /\ {"UInt64", "Double"} = {"Double", "UInt64"}
      OBVIOUS
    <3> QED BY <3>1, <3>2 DEF SameOnTheWire
  <2> QED BY <1>3, <1>4, <2>1 DEF Fitting, Numbers
<1> QED BY <1>2, <1>3, <1>4

\* The next item of the writer.
LEMMA ItemNow ==
  ASSUME NEW x, NEW y, NEW W, NEW g, IsAt(x, y, W, g), NEW R, TakesItem(g[1], R)
  PROVE  /\ x.calls \in Seq(CallRecord) /\ x.calls # <<>> /\ Head(x.calls).todo # <<>>
         /\ Item(x.calls) \in Member /\ ItemPath(x.calls) \in Seq(Nat)
         /\ Head(x.calls).path \in Seq(Nat)
         /\ StoresNext(x, y, W) /\ y.n = x.n /\ x.at \in Nat /\ y.at \in Nat /\ x.at <= y.at
         /\ Own(x.calls) \in {0, 1} /\ x.at + Own(x.calls) \in Nat
         /\ R.calls = AfterStore(x.calls) /\ R.skipping = mObjectSkipping
         /\ R.arrays = <<mCurrentPendingVariables>> \o mVariableHistory
<1>1. /\ g[1].calls = x.calls /\ g[1].arrays = <<mCurrentPendingVariables>> \o mVariableHistory
      /\ g[1].skipping = mObjectSkipping
  BY PresentIs
<1>2. /\ x.calls # <<>> /\ Head(x.calls).todo # <<>> /\ R.calls = AfterStore(x.calls)
      /\ R.arrays = g[1].arrays /\ R.skipping = g[1].skipping
  BY <1>1 DEF TakesItem
<1>3. x.calls \in Seq(CallRecord) /\ x.at \in Nat /\ y.at \in Nat /\ x.at <= y.at
      /\ (Returns(x, y, W) \/ StoresNext(x, y, W))
  BY <1>2 DEF IsAt, Moment
<1>4. StoresNext(x, y, W) /\ y.n = x.n
  <2>1. ~Returns(x, y, W)
    BY <1>2 DEF Returns
  <2> QED BY <1>3, <2>1 DEF StoresNext
<1>5. Item(x.calls) \in Member /\ ItemPath(x.calls) \in Seq(Nat) /\ Head(x.calls).path \in Seq(Nat)
  BY <1>2, <1>3, CallTypes
<1>6. Own(x.calls) \in {0, 1} /\ x.at + Own(x.calls) \in Nat
  BY <1>3 DEF Own, OneIf
<1> QED BY <1>1, <1>2, <1>3, <1>4, <1>5, <1>6

\* The item has been dealt with.
LEMMA ItemDone ==
  ASSUME NEW x, NEW y, NEW W, NEW g, IsAt(x, y, W, g), Kindly, TakesItem(g[1], g[2]),
         y.calls = AfterStore(x.calls), g[2].clean,
         frames[1].what \in {"read", "body", "unknown", "skipArray"},
         frames' = Tail(frames), UNCHANGED Reader!messageVars,
         y.at <= Len(stream) => g[2].got = result', Reached(y.at)'
  PROVE  Onwards(x, y, W)'
<1>1. /\ g[2].calls = y.calls /\ g[2].skipping = mObjectSkipping /\ y.n = x.n
      /\ g[2].arrays = <<mCurrentPendingVariables>> \o mVariableHistory
  <2>1. PICK R : R = g[2]
    OBVIOUS
  <2>2. TakesItem(g[1], R)
    BY <2>1
  <2>3. /\ R.calls = y.calls /\ R.skipping = mObjectSkipping /\ y.n = x.n
        /\ R.arrays = <<mCurrentPendingVariables>> \o mVariableHistory
    BY <2>2, ItemNow
  <2> QED BY <2>1, <2>3
<1>2. ~mCurrentIndexPending'
  <2>1. ~mCurrentIndexPending
    BY DEF IsAt, IInv, KeptInv, Stores
  <2> QED BY <2>1 DEF Reader!messageVars
<1>3. Present(g[2], y)'
  BY <1>1 DEF Present, Kindly, Reader!messageVars
<1> QED BY <1>1, <1>2, <1>3, BackTo

\* The reader knows the format as the writer does.
LEMMA ReaderKinds ==
  /\ \A m : /\ Reader!IsPrimitive(m) <=> IsPrimitive(m)
            /\ Reader!IsVector(m) <=> IsVector(m)
            /\ Reader!IsObject(m) <=> IsObject(m)
            /\ Reader!IsObjects(m) <=> IsObjects(m)
  /\ \A t : Reader!GetHeaderEnum(t) = GetHeaderEnum(t)
  /\ \A t : Reader!Accepted(t) = Accepted(t)
  /\ Reader!IntegerTypes = IntegerTypes /\ Reader!HeaderTypes = HeaderTypes
  /\ Reader!Member = Member /\ Reader!Token = Token
<1>1. Reader!IntegerTypes = IntegerTypes
  BY DEF Reader!IntegerTypes, IntegerTypes
<1>2. Reader!PrimitiveTypes = PrimitiveTypes /\ Reader!HeaderTypes = HeaderTypes
  BY <1>1 DEF Reader!PrimitiveTypes, PrimitiveTypes, Reader!HeaderTypes, HeaderTypes
<1>3. Reader!HeaderToken = HeaderToken
  BY <1>2 DEF Reader!HeaderToken, HeaderToken
<1>4. Reader!Member = Member
  BY <1>2 DEF Reader!Member, Member
<1>5. Reader!Token = Token
  BY <1>3 DEF Reader!Token, Token
<1>6. \A t : Reader!GetHeaderEnum(t) = GetHeaderEnum(t)
  BY DEF Reader!GetHeaderEnum, GetHeaderEnum
<1>7. \A t : Reader!Accepted(t) = Accepted(t)
  BY <1>1 DEF Reader!Accepted, Accepted, IntegerTypes
<1>8. \A m : /\ Reader!IsPrimitive(m) <=> IsPrimitive(m)
             /\ Reader!IsVector(m) <=> IsVector(m)
             /\ Reader!IsObject(m) <=> IsObject(m)
             /\ Reader!IsObjects(m) <=> IsObjects(m)
  BY <1>2 DEF Reader!IsPrimitive, IsPrimitive, Reader!IsVector, IsVector,
       Reader!IsObject, IsObject, Reader!IsObjects, IsObjects
<1> QED BY <1>1, <1>2, <1>4, <1>5, <1>6, <1>7, <1>8

\* A value that is to be read.
ItemRead(cs, T, R, n, path, wr) ==
  /\ TakesItem(T, R) /\ n \in Member
  /\ n.index = Item(cs).index /\ path = ItemPath(cs)
  /\ path = Append(Head(cs).path, n.index)
  /\ R.got = T.got \cup Owed(Head(cs).path, Yield(Item(cs), n))
  /\ R.clean <=> ~Bad(Item(cs), n)
  /\ \E pr \in Pairs[wr] :
       /\ pr \in ClassPairs /\ Item(cs) \in MembersOf(pr[1]) /\ n \in MembersOf(pr[2])
       /\ Head(cs).as # "inner"
       /\ Head(cs).as = "value" => pr \in PackedPairs[wr]

\* What a call that reads a member knows of it.
LEMMA ReadsItem ==
  ASSUME NEW x, NEW y, NEW W, NEW g, IsAt(x, y, W, g), NEW R, NEW n, NEW path,
         Reads(n, path, g[1], R, PairNow)
  PROVE  ~mObjectSkipping /\ ItemRead(x.calls, g[1], R, n, path, PairNow)
<1>1. g[1].calls = x.calls /\ g[1].skipping = mObjectSkipping /\ g[1].clean /\ PairNow \in ClassPairs
  BY PresentIs
<1>2. /\ TakesItem(g[1], R) /\ ~mObjectSkipping
      /\ n.index = Item(x.calls).index /\ path = ItemPath(x.calls)
      /\ R.got = g[1].got \cup Owed(Head(x.calls).path, Yield(Item(x.calls), n))
      /\ R.clean = (g[1].clean /\ ~Bad(Item(x.calls), n))
  BY <1>1 DEF Reads
<1>3. PICK pr \in Pairs[PairNow] :
         /\ Item(x.calls) \in MembersOf(pr[1]) /\ n \in MembersOf(pr[2])
         /\ Head(x.calls).as # "inner"
         /\ Head(x.calls).as = "value" => pr \in PackedPairs[PairNow]
  BY <1>1 DEF Reads
<1>4. pr \in ClassPairs
  BY <1>1, PairsClosed
<1>5. n \in Member
  <2>1. pr[2] \in Class
    BY <1>4 DEF ClassPairs
  <2> QED BY <1>3, <2>1, MemberTypes
<1>6. path = Append(Head(x.calls).path, n.index)
  BY <1>2 DEF ItemPath
<1>7. R.clean = ~Bad(Item(x.calls), n)
  BY <1>1, <1>2
<1>8. ItemRead(x.calls, g[1], R, n, path, PairNow)
  BY <1>2, <1>3, <1>4, <1>5, <1>6, <1>7 DEF ItemRead
<1> QED BY <1>2, <1>8

\* What it adds to the result.
Adds(cs, T, R, n, P) ==
  LET m == Item(cs)
  IN  /\ IsPrimitive(n) => R.got = T.got \cup {Kept(P)}
      /\ IsVector(n) => R.got = T.got \cup {Kept(Append(P, k)) : k \in 1 .. m.size}
      /\ IsObject(n) => R.got = T.got \cup Owed(P, Common[<<m.class, n.class>>])
      /\ IsObjects(n) => R.got = T.got \cup ElementsOwed(P, 1 .. m.size, Common[<<m.class, n.class>>])

\* Reading an item of fitting type adds what is common.
LEMMA ItemAdds ==
  ASSUME NEW cs, NEW T, NEW R, NEW n, NEW P, NEW wr \in ClassPairs,
         ItemRead(cs, T, R, n, P, wr), Head(cs).path \in Seq(Nat), Fitting(Item(cs), n)
  PROVE  Adds(cs, T, R, n, P)
<1>1. PICK pr \in ClassPairs : Item(cs) \in MembersOf(pr[1]) /\ n \in MembersOf(pr[2])
  BY DEF ItemRead
<1>2. PICK w, r, path, m : w = pr[1] /\ r = pr[2] /\ path = Head(cs).path /\ m = Item(cs)
  OBVIOUS
<1>3. w \in Class /\ r \in Class /\ m \in MembersOf(w) /\ n \in MembersOf(r)
      /\ path \in Seq(Nat) /\ P = Append(path, n.index) /\ Fitting(m, n)
  BY <1>1, <1>2 DEF ClassPairs, ItemRead
<1>4. IsYield(path, P, m, n)
  BY <1>3, YieldKinds
<1>5. R.got = T.got \cup Owed(path, Yield(m, n))
  BY <1>2 DEF ItemRead
<1> QED BY <1>2, <1>4, <1>5 DEF IsYield, Adds

\* What the reader takes of the stream is what the writer has written.
LEMMA TakenWritten ==
  ASSUME NEW x, NEW y, NEW W, NEW g, IsAt(x, y, W, g), NEW i \in 1 .. Len(stream)
  PROVE  stream[i] = W[i] /\ i \in 1 .. Len(W) /\ W[i] \in Token
<1>1. Prefix(stream, W) /\ W \in Seq(Token)
  BY DEF IsAt
<1>2. Len(W) \in Nat /\ Len(stream) \in Nat
  BY <1>1, LenProperties DEF IsAt, IInv, ReaderTypes
<1>3. Len(stream) <= Len(W) /\ stream[i] = W[i]
  BY <1>1 DEF Prefix
<1>4. i \in 1 .. Len(W)
  BY <1>2, <1>3
<1> QED BY <1>1, <1>3, <1>4, ElementOfSeq

\* The Wanted of a call that reads or skips.
LEMMA WantedOf ==
  ASSUME ReaderTypes, frames # <<>>
  PROVE  LET f == frames[1]
         IN  /\ f.what = "read" /\ IsPrimitive(f.member) /\ f.type # "Array" =>
                  Reader!Wanted = Reader!Values(1)
             /\ f.what \in {"read", "unknown"} /\ f.type = "Array"
                /\ (f.what = "read" => ~IsPrimitive(f.member)) =>
                  Reader!Wanted = <<"header", "size">>
             /\ f.what = "body" /\ IsVector(f.member) =>
                  Reader!Wanted = Reader!Values(f.n) \/ Reader!Wanted = Reader!Block(f.n)
             /\ f.what = "unknown" /\ f.type \in IntegerTypes \cup {"String"} =>
                  Reader!Wanted = Reader!Values(1) \/ Reader!Wanted = Reader!Block(1)
             /\ f.what = "skipArray" /\ f.type \in IntegerTypes \cup {"String"} =>
                  Reader!Wanted = Reader!Values(f.n) \/ Reader!Wanted = Reader!Block(f.n)
<1>f. PICK f : f = frames[1]
  OBVIOUS
<1>1. Reader!Top = f
  BY <1>f, TopType
<1>2. \A what : Reader!Running(what) <=> f.what = what
  BY <1>1 DEF Reader!Running
<1>3. \A loc : Reader!AtPoint(loc) => f.what \in {"object", "skip"}
  BY <1>1 DEF Reader!AtPoint
<1>4. Reader!IntegerTypes = {"UInt8", "UInt16", "UInt32", "UInt64"} /\ IntegerTypes = Reader!IntegerTypes
  BY DEF Reader!IntegerTypes, IntegerTypes
<1>5. f.what = "read" /\ IsPrimitive(f.member) /\ f.type # "Array" => Reader!Wanted = Reader!Values(1)
  BY <1>1, <1>2, <1>3, ReaderKinds DEF Reader!Wanted
<1>6. f.what \in {"read", "unknown"} /\ f.type = "Array" /\ (f.what = "read" => ~IsPrimitive(f.member)) =>
         Reader!Wanted = <<"header", "size">>
  BY <1>1, <1>2, <1>3, <1>4, ReaderKinds DEF Reader!Wanted
<1>7. f.what = "body" /\ IsVector(f.member) =>
         Reader!Wanted = Reader!Values(f.n) \/ Reader!Wanted = Reader!Block(f.n)
  BY <1>1, <1>2, <1>3, ReaderKinds DEF Reader!Wanted
<1>8. f.what = "unknown" /\ f.type \in IntegerTypes \cup {"String"} =>
         Reader!Wanted = Reader!Values(1) \/ Reader!Wanted = Reader!Block(1)
  BY <1>1, <1>2, <1>3, <1>4 DEF Reader!Wanted
<1>9. f.what = "skipArray" /\ f.type \in IntegerTypes \cup {"String"} =>
         Reader!Wanted = Reader!Values(f.n) \/ Reader!Wanted = Reader!Block(f.n)
  BY <1>1, <1>2, <1>3, <1>4 DEF Reader!Wanted
<1> QED BY <1>5, <1>6, <1>7, <1>8, <1>9, <1>f

\* The innermost call reads or skips a value.
LEMMA ValueFrame ==
  ASSUME NEW x, NEW y, NEW W, NEW g, IsAt(x, y, W, g),
         NEW what \in {"read", "body", "unknown", "skipArray"}, Reader!Running(what)
  PROVE  LET f == frames[1]
         IN  /\ frames # <<>> /\ Reader!Top = f /\ f.what = what /\ f \in Reader!Frame
             /\ what = "read" =>
                  /\ f \in Reader!ReadFrames /\ Reads(f.member, f.path, g[1], g[2], PairNow)
                  /\ f.type = GetHeaderEnum(Item(x.calls).type)
                  /\ Reached(x.at + Own(x.calls))
             /\ what = "body" =>
                  /\ f \in Reader!BodyFrames /\ Reads(f.member, f.path, g[1], g[2], PairNow)
                  /\ Item(x.calls).type = "Array" /\ f.member.type = "Array"
                  /\ f.flags = FlagsOf(Item(x.calls)) /\ f.type = GetHeaderEnum(Item(x.calls).sub)
                  /\ f.n = Item(x.calls).size
                  /\ Reached(x.at + Own(x.calls) + 2)
             /\ what \in {"unknown", "skipArray"} =>
                  /\ TakesItem(g[1], g[2]) /\ g[2].got = g[1].got /\ g[2].clean
                  /\ Head(x.calls).as = "object" /\ PlainMember(Item(x.calls))
             /\ what = "unknown" =>
                  /\ f \in Reader!UnknownFrames
                  /\ f.type = GetHeaderEnum(Item(x.calls).type)
                  /\ Reached(x.at + Own(x.calls))
             /\ what = "skipArray" =>
                  /\ f \in Reader!SkipArrayFrames /\ Item(x.calls).type = "Array"
                  /\ f.type = GetHeaderEnum(Item(x.calls).sub) /\ f.n = Item(x.calls).size
                  /\ Reached(x.at + Own(x.calls) + 2)
<1>f. PICK f, T, R : f = frames[1] /\ T = g[1] /\ R = g[2]
  OBVIOUS
<1>1. frames # <<>> /\ Reader!Top = f /\ f \in Reader!Frame /\ Stands(f, T, R, PairNow)
      /\ TakenSince(f, x)
  BY <1>f, Innermost
<1>2. f.what = what
  BY <1>1 DEF Reader!Running
<1>3. T.calls = x.calls /\ T.clean
  BY <1>f, PresentIs
<1>4. what = "read" =>
        /\ f \in Reader!ReadFrames /\ Reads(f.member, f.path, T, R, PairNow)
        /\ f.type = GetHeaderEnum(Item(x.calls).type)
        /\ Reached(x.at + Own(x.calls))
  BY <1>1, <1>2, <1>3, Kinds DEF Stands, StandsRead, TakenSince
<1>5. what = "body" =>
        /\ f \in Reader!BodyFrames /\ Reads(f.member, f.path, T, R, PairNow)
        /\ Item(x.calls).type = "Array" /\ f.member.type = "Array"
        /\ f.flags = FlagsOf(Item(x.calls)) /\ f.type = GetHeaderEnum(Item(x.calls).sub)
        /\ f.n = Item(x.calls).size
        /\ Reached(x.at + Own(x.calls) + 2)
  BY <1>1, <1>2, <1>3, Kinds DEF Stands, StandsBody, TakenSince
<1>6. what = "unknown" =>
        /\ TakesItem(T, R) /\ R.got = T.got /\ R.clean
        /\ Head(x.calls).as = "object" /\ PlainMember(Item(x.calls))
        /\ f \in Reader!UnknownFrames
        /\ f.type = GetHeaderEnum(Item(x.calls).type)
        /\ Reached(x.at + Own(x.calls))
  BY <1>1, <1>2, <1>3, Kinds DEF Stands, StandsUnknown, TakenSince, Passes
<1>7. what = "skipArray" =>
        /\ TakesItem(T, R) /\ R.got = T.got /\ R.clean
        /\ Head(x.calls).as = "object" /\ PlainMember(Item(x.calls))
        /\ f \in Reader!SkipArrayFrames /\ Item(x.calls).type = "Array"
        /\ f.type = GetHeaderEnum(Item(x.calls).sub) /\ f.n = Item(x.calls).size
        /\ Reached(x.at + Own(x.calls) + 2)
  BY <1>1, <1>2, <1>3, Kinds DEF Stands, StandsSkipArray, TakenSince, Passes
<1> QED BY <1>1, <1>2, <1>4, <1>5, <1>6, <1>7, <1>f

\* Values that fit are never bad.
LEMMA ValuesGood ==
  ASSUME NEW m \in Member, NEW n \in Member, Fitting(m, n), IsPrimitive(n) \/ IsVector(n)
  PROVE  ~Bad(m, n)
  BY MemberKinds DEF Bad, Goes

\* The values that are read are kept where they belong.
LEMMA ValuesGot ==
  ASSUME NEW x, NEW y, NEW W, NEW g, IsAt(x, y, W, g), Reader!Got,
         NEW b \in Nat, Reached(b), NEW N \in Nat, Len(Reader!Wanted) = N,
         NEW places, \A k \in 1 .. N : W[b + k] = Value(places[k]),
         Reader!ReadValues(places)
  PROVE  result' = result \cup {Kept(places[k]) : k \in 1 .. N}
<1>1. ReaderTypes /\ frames # <<>>
  BY Innermost DEF IsAt, IInv
<1>2. \A j \in 1 .. N : b + j \in 1 .. Len(stream) /\ pos + j - 1 = b + j
  BY <1>1, Taking
<1>3. \A j \in 1 .. N : stream[pos + j - 1].of = places[j]
  <2>1. TAKE j \in 1 .. N
  <2>2. PICK i : i = b + j
    OBVIOUS
  <2>3. i \in 1 .. Len(stream) /\ pos + j - 1 = i
    BY <1>2, <2>2
  <2>4. stream[i] = W[i]
    BY <2>3, TakenWritten
  <2>5. W[i] = Value(places[j])
    BY <2>2
  <2> QED BY <2>3, <2>4, <2>5 DEF Value
<1>4. {<<places[k], stream[pos + k - 1].of>> : k \in 1 .. N} = {Kept(places[k]) : k \in 1 .. N}
  BY <1>3 DEF Kept
<1> QED BY <1>4 DEF Reader!ReadValues

\* What a call reads, and where.
ReadsAt(x, y, W, n, m, path, T, R, wr) ==
  /\ TakesItem(T, R) /\ ItemRead(x.calls, T, R, n, path, wr)
  /\ n \in Member /\ n.index = m.index /\ path = ItemPath(x.calls)
  /\ R.clean <=> ~Bad(m, n)
  /\ m \in Member /\ m = Item(x.calls) /\ StoresNext(x, y, W) /\ x.at \in Nat /\ y.at \in Nat
  /\ x.at <= y.at
  /\ Head(x.calls).path \in Seq(Nat) /\ path \in Seq(Nat)
  /\ x.at + Own(x.calls) \in Nat /\ x.calls # <<>> /\ y.n = x.n
  /\ Fitting(m, n) => Adds(x.calls, T, R, n, path)

\* The reader is at the value of the item.
LEMMA ReadsThere ==
  ASSUME NEW x, NEW y, NEW W, NEW g, IsAt(x, y, W, g), NEW R, NEW n, NEW path,
         Reads(n, path, g[1], R, PairNow)
  PROVE  ReadsAt(x, y, W, n, Item(x.calls), path, g[1], R, PairNow) /\ ~mObjectSkipping
<1>1. ItemRead(x.calls, g[1], R, n, path, PairNow) /\ ~mObjectSkipping
  BY ReadsItem
<1>2. TakesItem(g[1], R) /\ n \in Member /\ n.index = Item(x.calls).index /\ path = ItemPath(x.calls)
      /\ (R.clean <=> ~Bad(Item(x.calls), n))
  BY <1>1 DEF ItemRead
<1>3. /\ Item(x.calls) \in Member /\ x.at + Own(x.calls) \in Nat /\ StoresNext(x, y, W)
      /\ y.at \in Nat /\ x.at \in Nat /\ x.at <= y.at /\ x.calls # <<>> /\ y.n = x.n
      /\ Head(x.calls).path \in Seq(Nat) /\ ItemPath(x.calls) \in Seq(Nat)
  BY <1>2, ItemNow
<1>4. PairNow \in ClassPairs
  BY PresentIs
<1>5. Fitting(Item(x.calls), n) => Adds(x.calls, g[1], R, n, path)
  BY <1>1, <1>3, <1>4, ItemAdds
<1> QED BY <1>1, <1>2, <1>3, <1>5 DEF ReadsAt

\* A primitive is read.
LEMMA ReadPrimitiveOn ==
  ASSUME NEW x, NEW y, NEW W, NEW g, IsAt(x, y, W, g), Kindly, Reader!ReadPrimitive
  PROVE  Onwards(x, y, W)'
<1>f. PICK f, T, R, n, m, wr : /\ f = frames[1] /\ T = g[1] /\ R = g[2] /\ n = f.member
                              /\ m = Item(x.calls) /\ wr = PairNow
  OBVIOUS
<1>1. /\ Reader!Running("read") /\ Reader!Got /\ Reader!IsPrimitive(Reader!Top.member)
      /\ Reader!ReadValues(<<Reader!Top.path>>) /\ Reader!Take
      /\ frames' = Tail(frames) /\ UNCHANGED Reader!messageVars /\ stream' = stream
  BY DEF Reader!ReadPrimitive, Reader!Leave
<1>2. /\ frames # <<>> /\ Reader!Top = f /\ f.what = "read"
      /\ Reads(f.member, f.path, g[1], g[2], PairNow) /\ f.type = GetHeaderEnum(m.type)
      /\ Reached(x.at + Own(x.calls)) /\ ReaderTypes
  BY <1>1, <1>f, ValueFrame, PresentIs
<1>3. ReadsAt(x, y, W, n, m, f.path, T, R, wr)
  <2>1. PICK path : path = f.path
    OBVIOUS
  <2>2. Reads(n, path, g[1], R, PairNow)
    BY <1>2, <1>f, <2>1
  <2>3. ReadsAt(x, y, W, n, Item(x.calls), path, g[1], R, PairNow)
    BY <2>2, ReadsThere
  <2> QED BY <1>f, <2>1, <2>3
<1>4. /\ m \in Member /\ n \in Member /\ m = Item(x.calls) /\ StoresNext(x, y, W) /\ f.path = ItemPath(x.calls)
      /\ x.at + Own(x.calls) \in Nat /\ TakesItem(T, R) /\ (R.clean <=> ~Bad(m, n))
      /\ x.at \in Nat /\ y.at \in Nat /\ x.at <= y.at
  BY <1>3 DEF ReadsAt
<1>5. IsPrimitive(n) /\ f.type \in Accepted(n.type)
  BY <1>1, <1>2, <1>f, ReaderKinds DEF Reader!Got, Reader!WrongType
<1>6. n.type # "Array" /\ Fitting(m, n) /\ ~Bad(m, n) /\ IsPrimitive(m)
  <2>1. n.type # "Array"
    BY <1>5 DEF IsPrimitive, PrimitiveTypes, IntegerTypes
  <2>2. Fitting(m, n)
    BY <1>2, <1>4, <1>5, <2>1, AcceptedFits
  <2> QED BY <1>4, <1>5, <2>1, <2>2, FittingKinds, ValuesGood
<1>7. f.type # "Array"
  <2>1. m.type # "Array"
    BY <1>6 DEF IsPrimitive, PrimitiveTypes, IntegerTypes
  <2> QED BY <1>2, <2>1 DEF GetHeaderEnum
<1>8. Reader!Wanted = Reader!Values(1)
  BY <1>2, <1>5, <1>7, <1>f, WantedOf
<1>9. PICK a \in Nat : a = x.at + Own(x.calls)
  BY <1>4
<1>10. y.at = a + 1 /\ W[y.at] = Value(f.path) /\ y.calls = AfterStore(x.calls)
  BY <1>4, <1>6, <1>9 DEF StoresNext, ValueStored
<1>11. Reached(a + 1)' /\ Len(Reader!Wanted) = 1
  <2>1. Reached(a)
    BY <1>2, <1>9
  <2>2. Reached(a + 1)'
    BY <1>1, <1>2, <1>8, <2>1, TakingValues
  <2> QED BY <1>8, <2>2 DEF Reader!Values
<1>12. result' = result \cup {Kept(f.path)}
  <2>1. PICK places : places = <<f.path>>
    OBVIOUS
  <2>2. Reader!ReadValues(places) /\ Reached(a)
    BY <1>1, <1>2, <1>9, <2>1
  <2>3. \A k \in 1 .. 1 : W[a + k] = Value(places[k])
    BY <1>10, <2>1
  <2>4. result' = result \cup {Kept(places[k]) : k \in 1 .. 1}
    BY <1>1, <1>11, <2>2, <2>3, ValuesGot
  <2> QED BY <2>1, <2>4
<1>13. R.got = T.got \cup {Kept(f.path)}
  BY <1>3, <1>5, <1>6 DEF ReadsAt, Adds
<1>14. y.at <= Len(stream) => R.got = result'
  <2>1. Len(stream) \in Nat
    BY <1>2, LenProperties DEF ReaderTypes
  <2>2. x.at <= Len(stream) => T.got = result
    BY <1>f, PresentIs
  <2> QED BY <1>4, <1>12, <1>13, <2>1, <2>2
<1>15. Reached(y.at)'
  BY <1>10, <1>11
<1>16. /\ TakesItem(g[1], g[2]) /\ g[2].clean /\ (y.at <= Len(stream) => g[2].got = result')
       /\ frames[1].what = "read"
  BY <1>2, <1>4, <1>6, <1>14, <1>f
<1> QED BY <1>1, <1>10, <1>15, <1>16, ItemDone

\* The body of a vector, that the reader has just reached.
LEMMA VectorDone ==
  ASSUME NEW x, NEW y, NEW W, StoresNext(x, y, W), x.calls # <<>>, IsVector(Item(x.calls)),
         NEW b, b = x.at + Own(x.calls) + 2
  PROVE  /\ y.at = b + Item(x.calls).size /\ y.calls = AfterStore(x.calls)
         /\ \A k \in 1 .. Item(x.calls).size : W[b + k] = Value(Append(ItemPath(x.calls), k))
  BY DEF StoresNext, VectorStored

\* A vector of primitives is read.
LEMMA ReadPrimitiveVectorOn ==
  ASSUME NEW x, NEW y, NEW W, NEW g, IsAt(x, y, W, g), Kindly, Reader!ReadPrimitiveVector
  PROVE  Onwards(x, y, W)'
<1>f. PICK f, T, R, n, m, wr : /\ f = frames[1] /\ T = g[1] /\ R = g[2] /\ n = f.member
                              /\ m = Item(x.calls) /\ wr = PairNow
  OBVIOUS
<1>1. /\ Reader!Running("body") /\ Reader!Got /\ Reader!IsVector(Reader!Top.member)
      /\ Reader!ReadValues([k \in 1 .. Reader!Top.n |-> Append(Reader!Top.path, k)]) /\ Reader!Take
      /\ frames' = Tail(frames) /\ UNCHANGED Reader!messageVars /\ stream' = stream
  BY DEF Reader!ReadPrimitiveVector, Reader!Leave
<1>2. /\ frames # <<>> /\ Reader!Top = f /\ f.what = "body"
      /\ Reads(f.member, f.path, g[1], g[2], PairNow)
      /\ m.type = "Array" /\ n.type = "Array" /\ f.type = GetHeaderEnum(m.sub) /\ f.n = m.size
      /\ Reached(x.at + Own(x.calls) + 2) /\ ReaderTypes
  BY <1>1, <1>f, ValueFrame, PresentIs
<1>3. ReadsAt(x, y, W, n, m, f.path, T, R, wr)
  <2>1. PICK path : path = f.path
    OBVIOUS
  <2>2. Reads(n, path, g[1], R, PairNow)
    BY <1>2, <1>f, <2>1
  <2>3. ReadsAt(x, y, W, n, Item(x.calls), path, g[1], R, PairNow)
    BY <2>2, ReadsThere
  <2> QED BY <1>f, <2>1, <2>3
<1>4. /\ m \in Member /\ n \in Member /\ m = Item(x.calls) /\ StoresNext(x, y, W) /\ f.path = ItemPath(x.calls)
      /\ x.at + Own(x.calls) \in Nat /\ TakesItem(T, R) /\ (R.clean <=> ~Bad(m, n))
      /\ x.at \in Nat /\ y.at \in Nat /\ x.at <= y.at /\ m.size \in Nat /\ x.calls # <<>>
  BY <1>3 DEF ReadsAt, Member
<1>5. IsVector(n) /\ f.type = GetHeaderEnum(n.sub)
  BY <1>1, <1>2, <1>f, ReaderKinds DEF Reader!Got, Reader!WrongType
<1>6. Fitting(m, n) /\ ~Bad(m, n) /\ IsVector(m)
  <2>1. GetHeaderEnum(m.type) \in Accepted(n.type)
    BY <1>2 DEF GetHeaderEnum, Accepted, IntegerTypes
  <2>2. Fitting(m, n)
    BY <1>2, <1>4, <1>5, <2>1, AcceptedFits
  <2> QED BY <1>4, <1>5, <2>2, FittingKinds, ValuesGood
<1>8. Reader!Wanted = Reader!Values(m.size) \/ Reader!Wanted = Reader!Block(m.size)
  BY <1>2, <1>5, <1>f, WantedOf
<1>9. PICK b \in Nat : b = x.at + Own(x.calls) + 2
  BY <1>4
<1>10. /\ y.at = b + m.size /\ y.calls = AfterStore(x.calls)
       /\ \A k \in 1 .. m.size : W[b + k] = Value(Append(f.path, k))
  BY <1>4, <1>6, <1>9, VectorDone
<1>11. Reached(y.at)' /\ (y.at <= Len(stream) => Len(Reader!Wanted) = m.size)
  <2>1. Reached(b)
    BY <1>2, <1>9
  <2>2. Reached(b + m.size)' /\ (b + m.size <= Len(stream) => Len(Reader!Wanted) = m.size)
    BY <1>1, <1>2, <1>4, <1>8, <2>1, TakingValues
  <2> QED BY <1>10, <2>2
<1>12. y.at <= Len(stream) => result' = result \cup {Kept(Append(f.path, k)) : k \in 1 .. m.size}
  <2> SUFFICES ASSUME y.at <= Len(stream) PROVE result' = result \cup {Kept(Append(f.path, k)) : k \in 1 .. m.size}
    OBVIOUS
  <2>1. PICK places : places = [k \in 1 .. m.size |-> Append(f.path, k)]
    OBVIOUS
  <2>2. Reader!ReadValues(places) /\ Reached(b)
    BY <1>1, <1>2, <1>9, <2>1
  <2>3. \A k \in 1 .. m.size : W[b + k] = Value(places[k])
    BY <1>10, <2>1
  <2>4. result' = result \cup {Kept(places[k]) : k \in 1 .. m.size}
    <3>1. /\ IsAt(x, y, W, g) /\ Reader!Got /\ b \in Nat /\ Reached(b) /\ m.size \in Nat
          /\ Len(Reader!Wanted) = m.size
      BY <1>1, <1>4, <1>11, <2>2
    <3> QED BY <2>2, <2>3, <3>1, ValuesGot
  <2> QED BY <2>1, <2>4
<1>13. R.got = T.got \cup {Kept(Append(f.path, k)) : k \in 1 .. m.size}
  BY <1>3, <1>5, <1>6 DEF ReadsAt, Adds
<1>14. y.at <= Len(stream) => R.got = result'
  <2>1. Len(stream) \in Nat
    BY <1>2, LenProperties DEF ReaderTypes
  <2>2. x.at <= Len(stream) => T.got = result
    BY <1>f, PresentIs
  <2> QED BY <1>4, <1>12, <1>13, <2>1, <2>2
<1>16. /\ TakesItem(g[1], g[2]) /\ g[2].clean /\ (y.at <= Len(stream) => g[2].got = result')
       /\ frames[1].what = "body"
  BY <1>2, <1>4, <1>6, <1>14, <1>f
<1> QED BY <1>1, <1>10, <1>11, <1>16, ItemDone

\* What a call skips.
LEMMA SkipsThere ==
  ASSUME NEW x, NEW y, NEW W, NEW g, IsAt(x, y, W, g), NEW R, TakesItem(g[1], R)
  PROVE  /\ Item(x.calls) \in Member /\ StoresNext(x, y, W) /\ x.calls # <<>>
         /\ x.at + Own(x.calls) \in Nat /\ x.at \in Nat /\ y.at \in Nat /\ x.at <= y.at /\ y.n = x.n
         /\ Item(x.calls).size \in Nat
<1>1. /\ Item(x.calls) \in Member /\ StoresNext(x, y, W) /\ x.calls # <<>>
      /\ x.at + Own(x.calls) \in Nat /\ x.at \in Nat /\ y.at \in Nat /\ x.at <= y.at /\ y.n = x.n
  BY ItemNow
<1> QED BY <1>1 DEF Member

\* A primitive is skipped.
LEMMA SkipPrimitiveOn ==
  ASSUME NEW x, NEW y, NEW W, NEW g, IsAt(x, y, W, g), Kindly, Reader!SkipPrimitive
  PROVE  Onwards(x, y, W)'
<1>f. PICK f, T, R, m : f = frames[1] /\ T = g[1] /\ R = g[2] /\ m = Item(x.calls)
  OBVIOUS
<1>1. /\ Reader!Running("unknown") /\ Reader!Got /\ Reader!Top.type \in IntegerTypes \cup {"String"}
      /\ Reader!Take /\ result' = result
      /\ frames' = Tail(frames) /\ UNCHANGED Reader!messageVars /\ stream' = stream
  BY ReaderKinds DEF Reader!SkipPrimitive, Reader!Leave
<1>2. /\ frames # <<>> /\ Reader!Top = f /\ f.what = "unknown"
      /\ TakesItem(g[1], g[2]) /\ g[2].got = g[1].got /\ g[2].clean
      /\ f.type = GetHeaderEnum(m.type)
      /\ Reached(x.at + Own(x.calls)) /\ ReaderTypes
  BY <1>1, <1>f, ValueFrame, PresentIs
<1>3. /\ m \in Member /\ StoresNext(x, y, W) /\ x.calls # <<>> /\ x.at + Own(x.calls) \in Nat
      /\ x.at \in Nat /\ y.at \in Nat /\ x.at <= y.at
  BY <1>2, <1>f, SkipsThere
<1>4. IsPrimitive(m)
  <2>1. m.type \in PrimitiveTypes \cup {"Array", "Object"}
    BY <1>3 DEF Member
  <2>2. GetHeaderEnum(m.type) \in IntegerTypes \cup {"String"}
    BY <1>1, <1>2
  <2> QED BY <2>1, <2>2 DEF IsPrimitive, PrimitiveTypes, IntegerTypes, GetHeaderEnum
<1>5. PICK a \in Nat : a = x.at + Own(x.calls)
  BY <1>3
<1>6. y.at = a + 1 /\ y.calls = AfterStore(x.calls)
  BY <1>3, <1>4, <1>5, <1>f DEF StoresNext, ValueStored
<1>7. Reader!Wanted = Reader!Values(1) \/ Reader!Wanted = Reader!Block(1)
  BY <1>1, <1>2, <1>f, WantedOf
<1>8. Reached(y.at)'
  <2>1. Reached(a)
    BY <1>2, <1>5
  <2>2. Reached(a + 1)'
    BY <1>1, <1>2, <1>7, <2>1, TakingValues
  <2> QED BY <1>6, <2>2
<1>9. y.at <= Len(stream) => g[2].got = result'
  <2>1. Len(stream) \in Nat
    BY <1>2, LenProperties DEF ReaderTypes
  <2>2. x.at <= Len(stream) => g[1].got = result
    BY PresentIs
  <2> QED BY <1>1, <1>2, <1>3, <2>1, <2>2
<1>10. frames[1].what = "unknown"
  BY <1>2, <1>f
<1> QED BY <1>1, <1>2, <1>6, <1>8, <1>9, <1>10, ItemDone

\* A vector of primitives is skipped.
LEMMA SkipElementsOn ==
  ASSUME NEW x, NEW y, NEW W, NEW g, IsAt(x, y, W, g), Kindly, Reader!SkipElements
  PROVE  Onwards(x, y, W)'
<1>f. PICK f, T, R, m : f = frames[1] /\ T = g[1] /\ R = g[2] /\ m = Item(x.calls)
  OBVIOUS
<1>1. /\ Reader!Running("skipArray") /\ Reader!Got /\ Reader!Top.type \in IntegerTypes \cup {"String"}
      /\ Reader!Take /\ result' = result
      /\ frames' = Tail(frames) /\ UNCHANGED Reader!messageVars /\ stream' = stream
  BY ReaderKinds DEF Reader!SkipElements, Reader!Leave
<1>2. /\ frames # <<>> /\ Reader!Top = f /\ f.what = "skipArray"
      /\ TakesItem(g[1], g[2]) /\ g[2].got = g[1].got /\ g[2].clean
      /\ m.type = "Array" /\ f.type = GetHeaderEnum(m.sub) /\ f.n = m.size
      /\ Reached(x.at + Own(x.calls) + 2) /\ ReaderTypes
  BY <1>1, <1>f, ValueFrame, PresentIs
<1>3. /\ m \in Member /\ StoresNext(x, y, W) /\ x.calls # <<>> /\ x.at + Own(x.calls) \in Nat
      /\ x.at \in Nat /\ y.at \in Nat /\ x.at <= y.at /\ m.size \in Nat
  BY <1>2, <1>f, SkipsThere
<1>4. IsVector(m)
  <2>1. GetHeaderEnum(m.sub) \in IntegerTypes \cup {"String"}
    BY <1>1, <1>2
  <2>2. m.sub # "Object"
    BY <2>1 DEF IntegerTypes, GetHeaderEnum
  <2> QED BY <1>2, <2>2 DEF IsVector
<1>5. PICK b \in Nat : b = x.at + Own(x.calls) + 2
  BY <1>3
<1>6. y.at = b + m.size /\ y.calls = AfterStore(x.calls)
  BY <1>3, <1>4, <1>5, <1>f, VectorDone
<1>7. Reader!Wanted = Reader!Values(m.size) \/ Reader!Wanted = Reader!Block(m.size)
  BY <1>1, <1>2, <1>f, WantedOf
<1>8. Reached(y.at)'
  <2>1. Reached(b)
    BY <1>2, <1>5
  <2>2. Reached(b + m.size)'
    BY <1>1, <1>2, <1>3, <1>7, <2>1, TakingValues
  <2> QED BY <1>6, <2>2
<1>9. y.at <= Len(stream) => g[2].got = result'
  <2>1. Len(stream) \in Nat
    BY <1>2, LenProperties DEF ReaderTypes
  <2>2. x.at <= Len(stream) => g[1].got = result
    BY PresentIs
  <2> QED BY <1>1, <1>2, <1>3, <2>1, <2>2
<1>10. frames[1].what = "skipArray"
  BY <1>2, <1>f
<1> QED BY <1>1, <1>2, <1>6, <1>8, <1>9, <1>10, ItemDone

\* The header of an array, that the reader takes.
LEMMA ArrayHeaderTaken ==
  ASSUME NEW x, NEW y, NEW W, NEW g, IsAt(x, y, W, g), Reader!Got, Reader!Take, stream' = stream,
         Reader!Wanted = <<"header", "size">>, NEW a \in Nat, a = x.at + Own(x.calls), Reached(a),
         StoresNext(x, y, W), Item(x.calls).type = "Array"
  PROVE  /\ stream[pos].index = FlagsOf(Item(x.calls))
         /\ stream[pos].type = GetHeaderEnum(Item(x.calls).sub)
         /\ stream[pos + 1].n = Item(x.calls).size
         /\ Reached(a + 2)'
<1>1. ReaderTypes /\ frames # <<>>
  BY Innermost, PresentIs
<1>2. /\ Reached(a + 2)' /\ stream[pos] = stream[a + 1] /\ stream[pos + 1] = stream[a + 2]
      /\ a + 1 \in 1 .. Len(stream) /\ a + 2 \in 1 .. Len(stream)
  BY <1>1, TakingArray
<1>3. PICK i, j : i = a + 1 /\ j = a + 2
  OBVIOUS
<1>4. stream[i] = W[i] /\ stream[j] = W[j]
  <2>1. i \in 1 .. Len(stream) /\ j \in 1 .. Len(stream)
    BY <1>2, <1>3
  <2>2. stream[i] = W[i]
    BY <2>1, TakenWritten
  <2>3. stream[j] = W[j]
    BY <2>1, TakenWritten
  <2> QED BY <2>2, <2>3
<1>5. /\ W[i] = Header(FlagsOf(Item(x.calls)), GetHeaderEnum(Item(x.calls).sub))
      /\ W[j] = Size(Item(x.calls).size)
  BY <1>3 DEF StoresNext
<1> QED BY <1>2, <1>3, <1>4, <1>5 DEF Header, Size

\* The header and the size of an array are read.
LEMMA ReadArrayHeaderOn ==
  ASSUME NEW x, NEW y, NEW W, NEW g, IsAt(x, y, W, g), Kindly, Reader!ReadArrayHeader
  PROVE  Onwards(x, y, W)'
<1>f. PICK f, T, R, n, m, wr : /\ f = frames[1] /\ T = g[1] /\ R = g[2] /\ n = f.member
                              /\ m = Item(x.calls) /\ wr = PairNow
  OBVIOUS
<1>1. /\ Reader!Running("read") /\ Reader!Got /\ Reader!Top.type = "Array" /\ Reader!Take
      /\ frames' = <<Reader!BodyFrame(Reader!Top.member, Reader!Top.path, stream[pos].index,
                                      stream[pos].type, stream[pos + 1].n)>> \o Tail(frames)
      /\ UNCHANGED Reader!messageVars /\ stream' = stream /\ result' = result
  BY DEF Reader!ReadArrayHeader, Reader!Become
<1>2. /\ frames # <<>> /\ Reader!Top = f /\ f.what = "read"
      /\ Reads(f.member, f.path, g[1], g[2], PairNow) /\ f.type = GetHeaderEnum(m.type)
      /\ Reached(x.at + Own(x.calls)) /\ ReaderTypes
  BY <1>1, <1>f, ValueFrame, PresentIs
<1>3. ReadsAt(x, y, W, n, m, f.path, T, R, wr)
  <2>1. PICK path : path = f.path
    OBVIOUS
  <2>2. Reads(n, path, g[1], R, PairNow)
    BY <1>2, <1>f, <2>1
  <2>3. ReadsAt(x, y, W, n, Item(x.calls), path, g[1], R, PairNow)
    BY <2>2, ReadsThere
  <2> QED BY <1>f, <2>1, <2>3
<1>4. /\ m \in Member /\ n \in Member /\ m = Item(x.calls) /\ StoresNext(x, y, W)
      /\ x.at + Own(x.calls) \in Nat /\ f.path \in Seq(Nat) /\ m.size \in Nat
  BY <1>3 DEF ReadsAt, Member
<1>5. m.type = "Array" /\ n.type = "Array"
  <2>1. m.type = "Array"
    BY <1>1, <1>2, <1>4 DEF GetHeaderEnum, Member, PrimitiveTypes, IntegerTypes
  <2>2. "Array" \in Accepted(n.type)
    BY <1>1, <1>2, <1>f, ReaderKinds DEF Reader!Got, Reader!WrongType
  <2>3. n.type \in PrimitiveTypes \cup {"Array", "Object"}
    BY <1>4 DEF Member
  <2>4. n.type \in IntegerTypes => Accepted(n.type) = IntegerTypes
    BY DEF Accepted, IntegerTypes
  <2>5. n.type \in {"Float", "Double"} => Accepted(n.type) = {"UInt32", "UInt64"}
    BY DEF Accepted, IntegerTypes
  <2>6. n.type \notin IntegerTypes /\ n.type \notin {"Float", "Double"} => Accepted(n.type) = {n.type}
    BY DEF Accepted
  <2> QED BY <2>1, <2>2, <2>4, <2>5, <2>6 DEF IntegerTypes
<1>6. PICK a \in Nat : a = x.at + Own(x.calls)
  BY <1>4
<1>7. /\ stream[pos].index = FlagsOf(m) /\ stream[pos].type = GetHeaderEnum(m.sub)
      /\ stream[pos + 1].n = m.size /\ Reached(a + 2)'
  <2>1. ~IsPrimitive(n)
    BY <1>5 DEF IsPrimitive, PrimitiveTypes, IntegerTypes
  <2>2. Reader!Wanted = <<"header", "size">>
    BY <1>1, <1>2, <1>f, <2>1, WantedOf
  <2>3. Reached(a) /\ Item(x.calls).type = "Array"
    BY <1>2, <1>4, <1>5, <1>6
  <2> QED BY <1>1, <1>4, <1>6, <2>2, <2>3, ArrayHeaderTaken
<1>8. PICK e : e = Reader!BodyFrame(n, f.path, FlagsOf(m), GetHeaderEnum(m.sub), m.size)
  OBVIOUS
<1>9. frames' = <<e>> \o Tail(frames)
  BY <1>1, <1>2, <1>7, <1>8, <1>f
<1>10. e \in Reader!Frame /\ e.what = "body"
  <2>1. FlagsOf(m) \in 0 .. 27
    BY DEF FlagsOf
  <2>2. stream[pos].type \in Reader!HeaderTypes
    BY <1>1, <1>2, TakenArray
  <2> QED BY <1>4, <1>7, <1>8, <2>1, <2>2, ReaderKinds
        DEF Reader!BodyFrame, Reader!Frame, Reader!BodyFrames
<1>11. Stands(e, T, g[2], PairNow)
  <2>1. Reads(n, f.path, T, R, wr) /\ T.calls = x.calls
    BY <1>2, <1>f, PresentIs
  <2>2. e.member = n /\ e.path = f.path /\ e.flags = FlagsOf(m) /\ e.type = GetHeaderEnum(m.sub) /\ e.n = m.size
    BY <1>8 DEF Reader!BodyFrame
  <2>3. StandsBody(e, T, R, wr)
    BY <1>4, <1>5, <2>1, <2>2 DEF StandsBody
  <2> QED BY <1>10, <1>f, <2>3 DEF Stands
<1>12. Present(T, x)'
  BY <1>1, <1>f, PresentIs DEF Present, Reader!messageVars
<1>13. TakenSince(e, x)' /\ ~HeaderSeen(e)'
  BY <1>6, <1>7, <1>10 DEF TakenSince, HeaderSeen
<1>14. T \in Context
  BY <1>f, PresentIs
<1>15. Goal(x, y, W)'
  BY <1>1, <1>9, <1>10, <1>11, <1>12, <1>13, <1>14, Stays DEF Kindly, IInv
<1> QED BY <1>15 DEF Onwards

\* They are read by SkipArray.
LEMMA SkipArrayHeaderOn ==
  ASSUME NEW x, NEW y, NEW W, NEW g, IsAt(x, y, W, g), Kindly, Reader!SkipArrayHeader
  PROVE  Onwards(x, y, W)'
<1>f. PICK f, T, R, m : /\ f = frames[1] /\ T = g[1] /\ R = g[2] /\ m = Item(x.calls)
  OBVIOUS
<1>1. /\ Reader!Running("unknown") /\ Reader!Got /\ Reader!Top.type = "Array" /\ Reader!Take
      /\ frames' = <<Reader!SkipArrayFrame(stream[pos].type, stream[pos + 1].n)>> \o Tail(frames)
      /\ UNCHANGED Reader!messageVars /\ stream' = stream /\ result' = result
  BY DEF Reader!SkipArrayHeader, Reader!Become
<1>2. /\ frames # <<>> /\ Reader!Top = f /\ f.what = "unknown"
      /\ TakesItem(g[1], g[2]) /\ g[2].got = g[1].got /\ g[2].clean
      /\ Head(x.calls).as = "object" /\ PlainMember(m)
      /\ f.type = GetHeaderEnum(m.type)
      /\ Reached(x.at + Own(x.calls)) /\ ReaderTypes
  BY <1>1, <1>f, ValueFrame, PresentIs
<1>4. /\ m \in Member /\ m = Item(x.calls) /\ StoresNext(x, y, W)
      /\ x.at + Own(x.calls) \in Nat /\ m.size \in Nat
  BY <1>2, <1>f, SkipsThere
<1>5. m.type = "Array"
  BY <1>1, <1>2, <1>4 DEF GetHeaderEnum, Member, PrimitiveTypes, IntegerTypes
<1>6. PICK a \in Nat : a = x.at + Own(x.calls)
  BY <1>4
<1>7. /\ stream[pos].index = FlagsOf(m) /\ stream[pos].type = GetHeaderEnum(m.sub)
      /\ stream[pos + 1].n = m.size /\ Reached(a + 2)'
  <2>2. Reader!Wanted = <<"header", "size">>
    BY <1>1, <1>2, <1>f, WantedOf
  <2>3. Reached(a) /\ Item(x.calls).type = "Array"
    BY <1>2, <1>4, <1>5, <1>6
  <2> QED BY <1>1, <1>4, <1>6, <2>2, <2>3, ArrayHeaderTaken
<1>8. PICK e : e = Reader!SkipArrayFrame(GetHeaderEnum(m.sub), m.size)
  OBVIOUS
<1>9. frames' = <<e>> \o Tail(frames)
  BY <1>1, <1>7, <1>8
<1>10. e \in Reader!Frame /\ e.what = "skipArray"
  <2>2. stream[pos].type \in Reader!HeaderTypes
    BY <1>1, <1>2, TakenArray
  <2> QED BY <1>4, <1>7, <1>8, <2>2
        DEF Reader!SkipArrayFrame, Reader!Frame, Reader!SkipArrayFrames
<1>11. Stands(e, T, g[2], PairNow)
  <2>1. TakesItem(T, R) /\ R.got = T.got /\ R.clean /\ T.clean /\ T.calls = x.calls
    BY <1>2, <1>f, PresentIs
  <2>2. e.type = GetHeaderEnum(m.sub) /\ e.n = m.size
    BY <1>8 DEF Reader!SkipArrayFrame
  <2>3. R.clean \in BOOLEAN /\ T.clean \in BOOLEAN
    BY <1>f, PresentIs, ContextTypes
  <2>4. StandsSkipArray(e, T, R)
    BY <1>2, <1>4, <1>5, <2>1, <2>2, <2>3 DEF StandsSkipArray, Passes
  <2> QED BY <1>10, <1>f, <2>4 DEF Stands
<1>12. Present(T, x)'
  BY <1>1, <1>f, PresentIs DEF Present, Reader!messageVars
<1>13. TakenSince(e, x)' /\ ~HeaderSeen(e)'
  BY <1>6, <1>7, <1>10 DEF TakenSince, HeaderSeen
<1>14. T \in Context
  BY <1>f, PresentIs
<1>15. Goal(x, y, W)'
  BY <1>1, <1>9, <1>10, <1>11, <1>12, <1>13, <1>14, Stays DEF Kindly, IInv
<1> QED BY <1>15 DEF Onwards

-----------------------------------------------------------------------------
(*****************************************************************************)
(* Vectors of objects.                                                     *)
(*****************************************************************************)
\* The calls of a writer from the k-th on.
Later(cs, k) == SubSeq(cs, k, Len(cs))

FollowsIn(hs, rest, cs, k) ==
  /\ Later(cs, k) \in Seq(CallRecord) /\ Later(cs, k) # <<>>
  /\ Head(Later(cs, k)) = hs[k]
  /\ Tail(Later(cs, k)) = IF k = Len(hs) THEN rest ELSE Later(cs, k + 1)

\* The calls from the k-th on: it, and those behind it.
LEMMA LaterCalls ==
  ASSUME NEW heads \in Seq(CallRecord), NEW rest \in Seq(CallRecord), NEW cs, cs = heads \o rest,
         NEW k \in 1 .. Len(heads)
  PROVE  FollowsIn(heads, rest, cs, k)
<1>1. /\ cs \in Seq(CallRecord) /\ Len(cs) = Len(heads) + Len(rest)
      /\ \A i \in 1 .. Len(heads) + Len(rest) : cs[i] = IF i <= Len(heads) THEN heads[i] ELSE rest[i - Len(heads)]
  BY ConcatProperties
<1>2. Len(heads) \in Nat /\ Len(rest) \in Nat /\ Len(cs) \in Nat /\ k \in Nat /\ k >= 1 /\ k <= Len(heads)
  BY <1>1, LenProperties
<1>3. k \in 1 .. Len(cs) /\ Len(cs) \in k .. Len(cs) /\ k \in Int /\ Len(cs) \in Int
  BY <1>1, <1>2
<1>4. Head(Later(cs, k)) = cs[k] /\ Tail(Later(cs, k)) = Later(cs, k + 1)
  BY <1>1, <1>3, HeadTailOfSubSeq DEF Later
<1>5. Later(cs, k) \in Seq(CallRecord) /\ Len(Later(cs, k)) = Len(cs) - k + 1
  <2>1. \A i \in k .. Len(cs) : cs[i] \in CallRecord
    BY <1>1, <1>2, ElementOfSeq
  <2>2. /\ SubSeq(cs, k, Len(cs)) \in Seq(CallRecord)
        /\ Len(SubSeq(cs, k, Len(cs))) = IF k <= Len(cs) THEN Len(cs) - k + 1 ELSE 0
    BY <1>3, <2>1, SubSeqProperties
  <2> QED BY <1>2, <1>3, <2>2 DEF Later
<1>6. Later(cs, k) # <<>>
  BY <1>1, <1>2, <1>5
<1>7. cs[k] = heads[k]
  BY <1>1, <1>2
<1>8. k = Len(heads) => Later(cs, k + 1) = rest
  <2>1. SUFFICES ASSUME k = Len(heads) PROVE SubSeq(cs, k + 1, Len(cs)) = rest
    BY DEF Later
  <2>2. k + 1 \in Int /\ \A i \in k + 1 .. Len(cs) : cs[i] \in CallRecord
    BY <1>1, <1>2, ElementOfSeq
  <2>3. /\ SubSeq(cs, k + 1, Len(cs)) \in Seq(CallRecord)
        /\ Len(SubSeq(cs, k + 1, Len(cs))) = IF k + 1 <= Len(cs) THEN Len(cs) - (k + 1) + 1 ELSE 0
        /\ \A i \in 1 .. Len(cs) - (k + 1) + 1 : SubSeq(cs, k + 1, Len(cs))[i] = cs[k + 1 + i - 1]
    BY <1>3, <2>2, SubSeqProperties, SMTT(30)
  <2>4. PICK t : t = SubSeq(cs, k + 1, Len(cs))
    OBVIOUS
  <2>5. t \in Seq(CallRecord) /\ Len(t) = Len(rest)
    BY <1>1, <1>2, <2>1, <2>3, <2>4
  <2>6. \A i \in 1 .. Len(t) : t[i] = rest[i]
    <3> TAKE i \in 1 .. Len(t)
    <3>1. i \in Nat /\ i >= 1 /\ i <= Len(rest)
      BY <1>2, <2>5
    <3>2. t[i] = cs[k + 1 + i - 1] /\ k + 1 + i - 1 = Len(heads) + i
      BY <1>1, <1>2, <2>1, <2>3, <2>4, <3>1
    <3>3. Len(heads) + i \in 1 .. Len(heads) + Len(rest) /\ ~(Len(heads) + i <= Len(heads))
          /\ Len(heads) + i - Len(heads) = i
      BY <1>2, <3>1
    <3> QED BY <1>1, <3>2, <3>3
  <2>7. t = rest
    BY <2>5, <2>6, SeqEqual
  <2> QED BY <2>4, <2>7
<1> QED BY <1>4, <1>5, <1>6, <1>7, <1>8 DEF FollowsIn

\* All of them, from the first on.
LEMMA AllCalls ==
  ASSUME NEW cs \in Seq(CallRecord)
  PROVE  Later(cs, 1) = cs
  BY SubSeqFull DEF Later

\* What a class is stored as.
LEMMA CallOfType ==
  ASSUME NEW c \in Class, NEW path \in Seq(Nat), NEW as \in {"object", "value", "inner"}
  PROVE  /\ CallOf(c, path, as) \in CallRecord
         /\ CallOf(c, path, as).path = path /\ CallOf(c, path, as).todo = Members[c]
         /\ CallOf(c, path, as).as = as
  BY ClassMembers DEF CallOf, CallRecord

\* The calls for N objects of class c.
Heads(c, N, places, as) == [k \in 1 .. N |-> CallOf(c, places[k], as)]

\* The calls for N objects are calls.
LEMMA HeadsType ==
  ASSUME NEW c \in Class, NEW N \in Nat, NEW places \in [1 .. N -> Seq(Nat)],
         NEW as \in {"object", "value", "inner"}
  PROVE  /\ Heads(c, N, places, as) \in Seq(CallRecord) /\ Len(Heads(c, N, places, as)) = N
         /\ \A k \in 1 .. N : Heads(c, N, places, as)[k] = CallOf(c, places[k], as)
         /\ \A k \in 1 .. N : places[k] \in Seq(Nat)
<1>1. \A k \in 1 .. N : CallOf(c, places[k], as) \in CallRecord
  BY CallOfType
<1>2. Heads(c, N, places, as) \in [1 .. N -> CallRecord]
  BY <1>1 DEF Heads
<1>3. Heads(c, N, places, as) \in Seq(CallRecord)
  BY <1>2, FunctionIsSeq
<1>4. Len(Heads(c, N, places, as)) = N
  BY <1>2, <1>3, LenProperties
<1> QED BY <1>2, <1>3, <1>4 DEF Heads

\* A context with other calls, values and faults.
Being(T, cs, skipping, got, clean) ==
  [calls |-> cs, arrays |-> T.arrays, skipping |-> skipping, got |-> got, clean |-> clean]

IsBeing(U, T, cs, skipping, got, clean) ==
  /\ U \in Context /\ U.calls = cs /\ U.arrays = T.arrays /\ U.skipping = skipping
  /\ U.got = got /\ U.clean = clean

\* A context in which something else is the case is one.
LEMMA BeingTypes ==
  ASSUME NEW T \in Context, NEW cs \in Seq(CallRecord), NEW skipping \in BOOLEAN,
         NEW got \in SUBSET (Seq(Nat) \X Seq(Nat)), NEW clean \in BOOLEAN
  PROVE  IsBeing(Being(T, cs, skipping, got, clean), T, cs, skipping, got, clean)
  BY ContextTypes DEF Being, Context, IsBeing

\* The call that skips an object.
LEMMA SkipFrameType ==
  ASSUME NEW clears \in BOOLEAN
  PROVE  /\ Reader!SkipFrame(clears) \in Reader!Frame
         /\ Reader!SkipFrame(clears).what = "skip" /\ Reader!SkipFrame(clears).at = "store"
         /\ (Reader!SkipFrame(clears).clears <=> clears)
<1>1. "store" \in Reader!Locations \ {"enter"} /\ 0 \in 0 .. 27 /\ "Terminator" \in Reader!HeaderTypes
  BY DEF Reader!Locations, Reader!HeaderTypes
<1> QED BY <1>1 DEF Reader!SkipFrame, Reader!Frame, Reader!SkipFrames

\* Some calls, one after the other, lead from U to R.
LinkedFrom(new, N, U, R, wr) ==
  /\ new \in Seq(Reader!Frame) /\ Len(new) = N
  /\ \E ctx : Linked(new, ctx, R, wr) /\ FirstOf(ctx, R) = U

\* Several objects, one after the other, are skipped.
SkippedFrames(N, T) == [k \in 1 .. N |-> Reader!SkipFrame(~T.skipping /\ k = N)]

\* N calls in a row that each skip an object of the writer.
LEMMA SkipsLinked ==
  ASSUME NEW wr, NEW T \in Context, NEW R \in Context, NEW N \in Nat, N > 0,
         NEW c \in Class, PlainClass(c), NEW places \in [1 .. N -> Seq(Nat)],
         NEW cs, cs = Heads(c, N, places, "object") \o R.calls,
         R.arrays = T.arrays, R.skipping = T.skipping, Passes(T, R)
  PROVE  /\ LinkedFrom(SkippedFrames(N, T), N, Being(T, cs, TRUE, T.got, T.clean), R, wr)
         /\ \A k \in 1 .. N : SkippedFrames(N, T)[k].what = "skip" /\ SkippedFrames(N, T)[k].at = "store"
<1> DEFINE new == SkippedFrames(N, T)
           U(k) == Being(T, Later(cs, k), TRUE, T.got, T.clean)
           ctx == [k \in 1 .. N |-> U(k)]
<1>1. /\ Heads(c, N, places, "object") \in Seq(CallRecord) /\ Len(Heads(c, N, places, "object")) = N
      /\ \A k \in 1 .. N : Heads(c, N, places, "object")[k] = CallOf(c, places[k], "object")
      /\ \A k \in 1 .. N : places[k] \in Seq(Nat)
  BY HeadsType
<1>2. R.calls \in Seq(CallRecord) /\ T.skipping \in BOOLEAN /\ T.clean \in BOOLEAN
      /\ T.got \in SUBSET (Seq(Nat) \X Seq(Nat)) /\ R.skipping \in BOOLEAN
  BY ContextTypes
<1>3. \A k \in 1 .. N : /\ Later(cs, k) \in Seq(CallRecord) /\ Later(cs, k) # <<>>
                        /\ Head(Later(cs, k)) = CallOf(c, places[k], "object")
                        /\ Tail(Later(cs, k)) = IF k = N THEN R.calls ELSE Later(cs, k + 1)
  <2> TAKE k \in 1 .. N
  <2>1. PICK hs, rest : hs = Heads(c, N, places, "object") /\ rest = R.calls
    OBVIOUS
  <2>2. hs \in Seq(CallRecord) /\ rest \in Seq(CallRecord) /\ cs = hs \o rest /\ k \in 1 .. Len(hs)
        /\ Len(hs) = N
    BY <1>1, <1>2, <2>1
  <2>3. FollowsIn(hs, rest, cs, k)
    BY <2>2, LaterCalls
  <2> QED BY <1>1, <2>1, <2>2, <2>3 DEF FollowsIn
<1>4. \A k \in 1 .. N : /\ U(k) \in Context /\ U(k).calls = Later(cs, k) /\ U(k).arrays = T.arrays
                        /\ U(k).skipping = TRUE /\ U(k).got = T.got /\ U(k).clean = T.clean
  <2> TAKE k \in 1 .. N
  <2>1. PICK ls : ls = Later(cs, k)
    OBVIOUS
  <2>2. ls \in Seq(CallRecord) /\ T.got \in SUBSET (Seq(Nat) \X Seq(Nat)) /\ T.clean \in BOOLEAN
    BY <1>2, <1>3, <2>1
  <2>3. IsBeing(Being(T, ls, TRUE, T.got, T.clean), T, ls, TRUE, T.got, T.clean)
    BY <2>2, BeingTypes
  <2> QED BY <2>1, <2>3 DEF IsBeing
<1>5. \A k \in 1 .. N : /\ new[k] \in Reader!Frame /\ new[k].what = "skip" /\ new[k].at = "store"
                        /\ (new[k].clears <=> (~T.skipping /\ k = N))
  BY <1>2, SkipFrameType DEF SkippedFrames
<1>6. new \in Seq(Reader!Frame) /\ Len(new) = N
  <2>1. new \in [1 .. N -> Reader!Frame]
    BY <1>5 DEF SkippedFrames
  <2>2. new \in Seq(Reader!Frame)
    BY <2>1, FunctionIsSeq
  <2> QED BY <2>1, <2>2, LenProperties
<1>7. ctx \in Seq(Context) /\ Len(ctx) = N
  <2>1. ctx \in [1 .. N -> Context]
    BY <1>4
  <2> HIDE DEF ctx
  <2>2. ctx \in Seq(Context)
    BY <2>1, FunctionIsSeq
  <2> QED BY <2>1, <2>2, LenProperties
<1>8. \A k \in 1 .. N : ctx[k] = U(k)
  OBVIOUS
<1>9. PICK cx : cx = ctx
  OBVIOUS
<1>a. PICK nw : nw = new
  OBVIOUS
<1>10. ASSUME NEW k \in 1 .. N
       PROVE  Stands(nw[k], cx[k], IF k = N THEN R ELSE cx[k + 1], wr)
  <2>1. PICK f, A, B : f = new[k] /\ A = cx[k] /\ B = (IF k = N THEN R ELSE cx[k + 1])
    OBVIOUS
  <2>2. /\ A.calls = Later(cs, k) /\ A.arrays = T.arrays /\ A.skipping = TRUE /\ A.got = T.got /\ A.clean = T.clean
    BY <1>4, <1>8, <1>9, <2>1
  <2>3. /\ B.calls = Tail(Later(cs, k)) /\ B.arrays = T.arrays /\ B.got = T.got /\ B.clean = T.clean
        /\ (B.skipping <=> ~f.clears)
    <3>1. CASE k = N
      <4>1. B = R /\ (f.clears <=> ~T.skipping)
        BY <1>5, <2>1, <3>1
      <4>2. B.skipping <=> ~f.clears
        BY <4>1
      <4> QED BY <1>3, <3>1, <4>1, <4>2 DEF Passes
    <3>2. CASE k # N
      <4>1. k + 1 \in 1 .. N
        BY <3>2
      <4>2. B = U(k + 1) /\ ~f.clears
        BY <1>5, <1>8, <1>9, <2>1, <3>2, <4>1
      <4> QED BY <1>3, <1>4, <3>2, <4>1, <4>2
    <3> QED BY <3>1, <3>2
  <2>4. f.what = "skip" /\ f.at = "store" /\ f.clears \in BOOLEAN /\ B.skipping \in BOOLEAN
    <3>1. f.what = "skip" /\ f.at = "store" /\ f \in Reader!Frame
      BY <1>5, <2>1
    <3>2. f.clears \in BOOLEAN
      BY <3>1, Kinds DEF Reader!SkipFrames
    <3>3. B.skipping \in BOOLEAN
      <4>1. B \in Context
        <5>1. CASE k = N
          BY <2>1, <5>1
        <5>2. CASE k # N
          <6>1. k + 1 \in 1 .. N
            BY <5>2
          <6> QED BY <1>7, <1>9, <2>1, <5>2, <6>1, ElementOfSeq
        <5> QED BY <5>1, <5>2
      <4> QED BY <4>1, ContextTypes
    <3> QED BY <3>1, <3>2, <3>3
  <2>5. B.skipping = ~f.clears
    BY <2>3, <2>4
  <2>6. LeftOf(Head(A.calls).todo, c) /\ Head(A.calls).as = "object" /\ A.calls # <<>>
    <3>1. Head(A.calls) = CallOf(c, places[k], "object") /\ A.calls # <<>>
      BY <1>3, <2>2
    <3>2. LeftOf(Members[c], c)
      BY AllLeft
    <3> QED BY <3>1, <3>2 DEF CallOf
  <2>7. StandsSkip(f, A, B)
    BY <2>2, <2>3, <2>4, <2>5, <2>6 DEF StandsSkip, Passes
  <2>8. Stands(f, A, B, wr)
    BY <2>4, <2>7 DEF Stands
  <2> QED BY <1>a, <2>1, <2>8
<1>11. Linked(new, ctx, R, wr)
  BY <1>6, <1>7, <1>9, <1>a, <1>10 DEF Linked
<1>12. FirstOf(ctx, R) = Being(T, cs, TRUE, T.got, T.clean)
  <2>1. 1 \in 1 .. N
    OBVIOUS
  <2>2. FirstOf(ctx, R) = U(1)
    <3>1. ctx[1] = U(1)
      BY <1>8, <2>1
    <3> HIDE DEF U, ctx
    <3>2. ctx # <<>>
      BY <1>7
    <3> QED BY <3>1, <3>2 DEF FirstOf
  <2>3. Later(cs, 1) = cs
    <3>1. cs \in Seq(CallRecord)
      BY <1>1, <1>2, ConcatProperties
    <3> QED BY <3>1, AllCalls
  <2> QED BY <2>2, <2>3
<1> QED BY <1>5, <1>6, <1>11, <1>12 DEF LinkedFrom

\* The innermost call is replaced by others that start at the next moment.
LEMMA Becomes ==
  ASSUME NEW x, NEW y, NEW W, NEW g, IsAt(x, y, W, g), Kindly, y.n = x.n,
         NEW new \in Seq(Reader!Frame), NEW N \in Nat, N > 0, Len(new) = N,
         NEW ctx, Linked(new, ctx, g[2], PairNow),
         frames' = new \o Tail(frames), \A i \in 2 .. N : Waits(new[i]),
         NEW U, FirstOf(ctx, g[2]) = U, Present(U, y)', NEW e, e = new[1], TakenSince(e, y)',
         ~HeaderSeen(e)'
  PROVE  Onwards(x, y, W)'
<1>1. ReaderTypes /\ ReaderTypes' /\ y \in Moment /\ Following(x, W, g)
  BY DEF IsAt, IInv, Kindly
<1>2. Continues(x, y, W, g, new, ctx)
  <2>1. new # <<>>
    OBVIOUS
  <2> QED BY <2>1 DEF Continues, Kindly
<1>3. Idle(y)' \/ \E G : Following(y, W, G)'
  BY <1>1, <1>2, FollowsOn
<1>4. Goal(x, y, W)'
  BY <1>3 DEF Goal
<1> QED BY <1>4 DEF Onwards

\* Objects that the reader does not have are next: one, or those of a vector.
ObjectsNext(x, y, N, c, places) ==
  /\ N \in Nat /\ c \in Class /\ places \in [1 .. N -> Seq(Nat)]
  /\ y.calls = Heads(c, N, places, "object") \o AfterStore(x.calls)
  /\ N > 0 => PlainClass(c)

\* SkipVariable and SkipArray are at the objects of a plain member.
LEMMA SkippedNext ==
  ASSUME NEW x, NEW y, NEW W, NEW g, IsAt(x, y, W, g), Reader!Running("unknown") \/ Reader!Running("skipArray"),
         Reader!Top.type = "Object"
  PROVE  /\ \E c, places : ObjectsNext(x, y, Reader!SkipCount, c, places)
         /\ Reached(y.at) /\ TakesItem(g[1], g[2]) /\ g[2].got = g[1].got /\ g[2].clean
         /\ frames[1].what \in {"unknown", "skipArray"}
<1>f. PICK f, m, N : f = frames[1] /\ m = Item(x.calls) /\ N = Reader!SkipCount
  OBVIOUS
<1>1. CASE Reader!Running("unknown")
  <2>1. /\ frames # <<>> /\ Reader!Top = f /\ f.what = "unknown"
        /\ TakesItem(g[1], g[2]) /\ g[2].got = g[1].got /\ g[2].clean
        /\ PlainMember(m) /\ f.type = GetHeaderEnum(m.type)
        /\ Reached(x.at + Own(x.calls))
    BY <1>1, <1>f, ValueFrame
  <2>2. m \in Member /\ StoresNext(x, y, W) /\ AfterStore(x.calls) = AfterStore(x.calls)
    BY <2>1, <1>f, SkipsThere
  <2>3. IsObject(m)
    BY <2>1, <2>2 DEF GetHeaderEnum, Member, PrimitiveTypes, IntegerTypes, IsObject
  <2>4. y.at = x.at + Own(x.calls)
        /\ y.calls = <<CallOf(m.class, ItemPath(x.calls), "object")>> \o AfterStore(x.calls)
    BY <1>f, <2>2, <2>3 DEF StoresNext, ObjectStored
  <2>5. N = 1
    BY <1>f, <2>1 DEF Reader!SkipCount, Reader!Running
  <2>6. PICK places : places = [k \in 1 .. 1 |-> ItemPath(x.calls)]
    OBVIOUS
  <2>7. ItemPath(x.calls) \in Seq(Nat)
    BY <2>1, ItemNow
  <2>8. Heads(m.class, 1, places, "object") = <<CallOf(m.class, ItemPath(x.calls), "object")>>
    BY <2>6 DEF Heads
  <2>9. m.class \in Class /\ PlainClass(m.class)
    BY <2>1, <2>2, <2>3 DEF Member, PlainMember
  <2>10. ObjectsNext(x, y, N, m.class, places)
    BY <2>4, <2>5, <2>6, <2>7, <2>8, <2>9 DEF ObjectsNext
  <2> QED BY <1>f, <2>1, <2>4, <2>10
<1>2. CASE Reader!Running("skipArray")
  <2>1. /\ frames # <<>> /\ Reader!Top = f /\ f.what = "skipArray"
        /\ TakesItem(g[1], g[2]) /\ g[2].got = g[1].got /\ g[2].clean
        /\ Head(x.calls).as = "object" /\ PlainMember(m) /\ m.type = "Array"
        /\ f.type = GetHeaderEnum(m.sub) /\ f.n = m.size
        /\ Reached(x.at + Own(x.calls) + 2)
    BY <1>2, <1>f, ValueFrame
  <2>2. m \in Member /\ StoresNext(x, y, W)
    BY <2>1, <1>f, SkipsThere
  <2>3. IsObjects(m) /\ ElementsAs(m, "object") = "object"
    <3>1. m.sub = "Object"
      BY <2>1, <2>2 DEF GetHeaderEnum, Member, PrimitiveTypes, IntegerTypes
    <3> QED BY <2>1, <3>1 DEF IsObjects, ElementsAs, PlainMember
  <2>4. y.at = x.at + Own(x.calls) + 2
        /\ y.calls = [k \in 1 .. m.size |-> CallOf(m.class, Append(ItemPath(x.calls), k), "object")]
                     \o AfterStore(x.calls)
    BY <1>f, <2>1, <2>2, <2>3 DEF StoresNext, ObjectsStored
  <2>5. N = m.size /\ m.size \in Nat
    BY <1>f, <2>1, <2>2 DEF Reader!SkipCount, Reader!Running, Member
  <2>6. PICK places : places = [k \in 1 .. m.size |-> Append(ItemPath(x.calls), k)]
    OBVIOUS
  <2>7. ItemPath(x.calls) \in Seq(Nat)
    BY <2>1, ItemNow
  <2>8. Heads(m.class, m.size, places, "object") =
          [k \in 1 .. m.size |-> CallOf(m.class, Append(ItemPath(x.calls), k), "object")]
    BY <2>6 DEF Heads
  <2>9. m.class \in Class /\ (m.size > 0 => PlainClass(m.class))
    BY <2>1, <2>2, <2>3 DEF Member, PlainMember
  <2>10. places \in [1 .. m.size -> Seq(Nat)]
    <3>1. \A k \in 1 .. m.size : Append(ItemPath(x.calls), k) \in Seq(Nat)
      BY <2>5, <2>7, AppendProperties
    <3> QED BY <2>6, <3>1
  <2>11. ObjectsNext(x, y, N, m.class, places)
    BY <2>4, <2>5, <2>8, <2>9, <2>10 DEF ObjectsNext
  <2> QED BY <1>f, <2>1, <2>4, <2>11
<1> QED BY <1>1, <1>2

\* Objects are skipped.
LEMMA SkipObjectsOn ==
  ASSUME NEW x, NEW y, NEW W, NEW g, IsAt(x, y, W, g), Kindly, Reader!SkipObjects
  PROVE  Onwards(x, y, W)'
<1>1. /\ Reader!Running("unknown") \/ Reader!Running("skipArray")
      /\ Reader!Top.type = "Object"
      /\ mObjectSkipping' = (mObjectSkipping \/ Reader!SkipCount > 0)
      /\ frames' = [k \in 1 .. Reader!SkipCount |-> Reader!SkipFrame(Reader!Clears(k))] \o Tail(frames)
      /\ pos' = pos /\ stream' = stream /\ result' = result /\ UNCHANGED Reader!arrays
      /\ mCurrentIndexPending' = mCurrentIndexPending
  BY DEF Reader!SkipObjects
<1>f. PICK T, R, N, wr : T = g[1] /\ R = g[2] /\ N = Reader!SkipCount /\ wr = PairNow
  OBVIOUS
<1>2. /\ \E c, places : ObjectsNext(x, y, N, c, places)
      /\ Reached(y.at) /\ TakesItem(T, R) /\ R.got = T.got /\ R.clean
      /\ frames[1].what \in {"unknown", "skipArray"}
  BY <1>1, <1>f, SkippedNext
<1>3. PICK c, places : ObjectsNext(x, y, N, c, places)
  BY <1>2
<1>4. N \in Nat /\ c \in Class /\ places \in [1 .. N -> Seq(Nat)]
      /\ y.calls = Heads(c, N, places, "object") \o AfterStore(x.calls)
      /\ (N > 0 => PlainClass(c))
  BY <1>3 DEF ObjectsNext
<1>5. /\ T \in Context /\ R \in Context /\ T.calls = x.calls /\ T.skipping = mObjectSkipping /\ T.clean
      /\ T.arrays = <<mCurrentPendingVariables>> \o mVariableHistory
      /\ (x.at <= Len(stream) => T.got = result) /\ ReaderTypes
  BY <1>f, PresentIs
<1>6. /\ R.calls = AfterStore(x.calls) /\ R.skipping = mObjectSkipping /\ R.arrays = T.arrays
      /\ y.n = x.n /\ x.at \in Nat /\ y.at \in Nat /\ x.at <= y.at /\ Len(stream) \in Nat
  <2>1. TakesItem(g[1], R)
    BY <1>2, <1>f
  <2>2. /\ R.calls = AfterStore(x.calls) /\ y.n = x.n /\ x.at \in Nat /\ y.at \in Nat /\ x.at <= y.at
    BY <2>1, ItemNow
  <2>3. Len(stream) \in Nat
    BY <1>5, LenProperties DEF ReaderTypes
  <2> QED BY <1>2, <1>5, <2>2, <2>3 DEF TakesItem
<1>7. ~mCurrentIndexPending
  BY <1>2 DEF IsAt, IInv, KeptInv, Stores
<1>8. y.at <= Len(stream) => T.got = result
  BY <1>5, <1>6
<1>9. mVariableHistory' = mVariableHistory /\ mCurrentPendingVariables' = mCurrentPendingVariables
  BY <1>1 DEF Reader!arrays
<1>10. CASE N = 0
  <2>1. mObjectSkipping' = mObjectSkipping
    BY <1>1, <1>10, <1>f DEF IsAt, IInv, ReaderTypes
  <2>2. frames' = Tail(frames)
    <3>1. [k \in 1 .. N |-> Reader!SkipFrame(Reader!Clears(k))] = <<>>
      BY <1>10
    <3>2. frames # <<>>
      BY Innermost
    <3> QED BY <1>1, <1>5, <1>f, <3>1, <3>2, NoFrames
  <2>3. y.calls = R.calls
    <3>1. Heads(c, N, places, "object") = <<>>
      BY <1>10 DEF Heads
    <3>2. R.calls \in Seq(CallRecord)
      BY <1>5, ContextTypes
    <3> QED BY <1>4, <1>6, <3>1, <3>2, ConcatEmptySeq
  <2>4. Present(R, y)'
    BY <1>1, <1>2, <1>5, <1>6, <1>8, <1>9, <2>1, <2>3 DEF Present
  <2>5. Reached(y.at)'
    BY <1>1, <1>2 DEF Reached
  <2>6. ~mCurrentIndexPending' /\ frames[1].what # "object"
    BY <1>1, <1>2, <1>7
  <2> QED BY <1>6, <1>f, <2>2, <2>4, <2>5, <2>6, BackTo
<1>11. CASE N > 0
  <2>1. PICK new : new = SkippedFrames(N, T)
    OBVIOUS
  <2>2. PICK U, cs : U = Being(T, cs, TRUE, T.got, T.clean) /\ cs = y.calls
    OBVIOUS
  <2>3. /\ new \in Seq(Reader!Frame) /\ Len(new) = N
        /\ \A k \in 1 .. N : new[k].what = "skip" /\ new[k].at = "store"
        /\ \E ctx : Linked(new, ctx, R, wr) /\ FirstOf(ctx, R) = U
    <3>1. cs = Heads(c, N, places, "object") \o R.calls /\ PlainClass(c) /\ Passes(T, R)
          /\ R.skipping = T.skipping
      <4>1. T.clean \in BOOLEAN /\ R.clean \in BOOLEAN
        BY <1>5, ContextTypes
      <4> QED BY <1>2, <1>4, <1>5, <1>6, <1>11, <2>2, <4>1 DEF Passes
    <3>2. /\ LinkedFrom(SkippedFrames(N, T), N, Being(T, cs, TRUE, T.got, T.clean), R, wr)
          /\ \A k \in 1 .. N : SkippedFrames(N, T)[k].what = "skip" /\ SkippedFrames(N, T)[k].at = "store"
      <4>1. /\ T \in Context /\ R \in Context /\ N \in Nat /\ N > 0 /\ c \in Class
            /\ places \in [1 .. N -> Seq(Nat)] /\ R.arrays = T.arrays
        BY <1>4, <1>5, <1>6, <1>11
      <4> QED BY <3>1, <4>1, SkipsLinked
    <3>3. LinkedFrom(new, N, U, R, wr)
      BY <2>1, <2>2, <3>2
    <3> QED BY <2>1, <3>2, <3>3 DEF LinkedFrom
  <2>4. PICK ctx : Linked(new, ctx, R, wr) /\ FirstOf(ctx, R) = U
    BY <2>3
  <2>5. frames' = new \o Tail(frames)
    <3>1. [k \in 1 .. N |-> Reader!SkipFrame(Reader!Clears(k))] = new
      <4>1. \A k \in 1 .. N : Reader!Clears(k) = (~T.skipping /\ k = N)
        BY <1>5, <1>f DEF Reader!Clears
      <4> QED BY <2>1, <4>1 DEF SkippedFrames
    <3> QED BY <1>1, <1>f, <3>1
  <2>6. \A i \in 2 .. N : Waits(new[i])
    <3> TAKE i \in 2 .. N
    <3>1. i \in 1 .. N
      BY <1>4
    <3> QED BY <2>3, <3>1 DEF Waits
  <2>7. U.calls = y.calls /\ U.arrays = T.arrays /\ U.skipping = TRUE /\ U.got = T.got /\ U.clean = T.clean
    BY <2>2 DEF Being
  <2>8. mObjectSkipping' = TRUE
    BY <1>1, <1>11, <1>f
  <2>9. Present(U, y)'
    BY <1>1, <1>5, <1>8, <1>9, <2>7, <2>8 DEF Present
  <2>10. PICK e : e = new[1]
    OBVIOUS
  <2>11. e.what = "skip" /\ e.at = "store"
    BY <1>4, <1>11, <2>3, <2>10
  <2>12. ~HeaderSeen(e)'
    BY <1>1, <1>7, <2>11 DEF HeaderSeen
  <2>13. TakenSince(e, y)'
    <3>1. Reached(y.at)'
      BY <1>1, <1>2 DEF Reached
    <3>2. Reached(y.at + OneIf(HeaderSeen(e)))'
      BY <1>6, <2>12, <3>1 DEF OneIf
    <3> QED BY <2>11, <3>2 DEF TakenSince
  <2> QED BY <1>4, <1>6, <1>11, <1>f, <2>3, <2>4, <2>5, <2>6, <2>9, <2>10, <2>12, <2>13, Becomes
<1> QED BY <1>4, <1>10, <1>11

\* What objects at the first n of some places owe.
PlacesOwed(places, n, P) == UNION {Owed(places[k], P) : k \in 1 .. n}

\* What objects at several places give, one by one.
LEMMA PlacesOwedStep ==
  ASSUME NEW N \in Nat, NEW places \in [1 .. N -> Seq(Nat)], NEW P \in SUBSET Seq(Nat),
         NEW k \in 0 .. N
  PROVE  /\ PlacesOwed(places, k, P) \in SUBSET (Seq(Nat) \X Seq(Nat))
         /\ k = 0 => PlacesOwed(places, k, P) = {}
         /\ k > 0 => PlacesOwed(places, k, P) = PlacesOwed(places, k - 1, P) \cup Owed(places[k], P)
<1>1. \A j \in 1 .. k : places[j] \in Seq(Nat)
  OBVIOUS
<1>2. \A j \in 1 .. k : Owed(places[j], P) \in SUBSET (Seq(Nat) \X Seq(Nat))
  <2> TAKE j \in 1 .. k
  <2>1. PICK p : p = places[j]
    OBVIOUS
  <2> QED BY <1>1, <2>1, OwedTypes
<1>3. PlacesOwed(places, k, P) \in SUBSET (Seq(Nat) \X Seq(Nat))
  BY <1>2 DEF PlacesOwed
<1>4. k = 0 => PlacesOwed(places, k, P) = {}
  BY DEF PlacesOwed
<1>5. k > 0 => PlacesOwed(places, k, P) = PlacesOwed(places, k - 1, P) \cup Owed(places[k], P)
  <2> SUFFICES ASSUME k > 0  PROVE PlacesOwed(places, k, P) = PlacesOwed(places, k - 1, P) \cup Owed(places[k], P)
    OBVIOUS
  <2>1. 1 .. k = (1 .. (k - 1)) \cup {k}
    OBVIOUS
  <2> QED BY <2>1, Zenon DEF PlacesOwed
<1> QED BY <1>3, <1>4, <1>5

\* Several objects, one after the other, are read.
ReadObjects(r, N, places) == [k \in 1 .. N |-> Reader!ObjectFrame(r, places[k])]

Begins(f, r, path) ==
  f \in Reader!Frame /\ f.what = "object" /\ f.at = "enter" /\ f.path = path /\ f.todo = Members[r]

\* The call that reads an object begins with all its members.
LEMMA FirstFrameIs ==
  ASSUME NEW r \in Class, NEW path \in Seq(Nat)
  PROVE  Begins(Reader!ObjectFrame(r, path), r, path)
<1>f. PICK f : f = Reader!ObjectFrame(r, path)
  OBVIOUS
<1>1. Members[r] \in Seq(Member)
  BY ClassMembers
<1>2. f \in Reader!ObjectFrames
  BY <1>f, <1>1, ReaderKinds DEF Reader!ObjectFrame, Reader!ObjectFrames, Reader!Locations, HeaderTypes
<1>3. f \in Reader!Frame
  BY <1>2 DEF Reader!Frame
<1>4. f.what = "object" /\ f.at = "enter" /\ f.path = path /\ f.todo = Members[r]
  BY <1>f DEF Reader!ObjectFrame
<1> QED BY <1>f, <1>3, <1>4 DEF Begins

\* It stands at the first moment of the object.
LEMMA ObjectBegins ==
  ASSUME NEW wr \in ClassPairs, NEW w \in Class, NEW r \in Class, <<w, r>> \in Pairs[wr],
         NEW path \in Seq(Nat), NEW f, f = Reader!ObjectFrame(r, path),
         NEW A \in Context, NEW B \in Context, ~A.skipping, ~B.skipping,
         A.calls # <<>>, Head(A.calls) = CallOf(w, path, "object"), B.calls = Tail(A.calls),
         B.arrays = A.arrays, B.got = A.got \cup Owed(path, Common[<<w, r>>]),
         B.clean <=> (A.clean /\ ~Mismatched[<<w, r>>])
  PROVE  Stands(f, A, B, wr)
<1>1. f \in Reader!Frame /\ f.what = "object" /\ f.at = "enter" /\ f.path = path /\ f.todo = Members[r]
  BY FirstFrameIs DEF Begins
<1>2. Head(A.calls).todo = Members[w] /\ Head(A.calls).path = path /\ Head(A.calls).as = "object"
  BY DEF CallOf
<1>3. PICK pr : pr = <<w, r>>
  OBVIOUS
<1>4. pr \in ClassPairs /\ pr \in Pairs[wr] /\ pr[1] = w /\ pr[2] = r
  BY <1>3 DEF ClassPairs
<1>5. Meets(pr, Members[pr[1]], path, Members[pr[2]], {}, {})
  BY <1>4, MeetsFirst
<1>6. Rest(Members[w], r) = Common[<<w, r>>] /\ (Good(Members[w], r) <=> ~Mismatched[<<w, r>>])
  BY RestAll
<1>7. B.clean \in BOOLEAN /\ A.clean \in BOOLEAN
  BY ContextTypes
<1>8. B.clean = (A.clean /\ Good(Head(A.calls).todo, pr[2]))
  BY <1>2, <1>4, <1>6, <1>7
<1>9. B.got = A.got \cup Owed(f.path, Rest(Head(A.calls).todo, pr[2]))
  BY <1>1, <1>2, <1>4, <1>6
<1>10. IF f.at = "enter" THEN B.arrays = A.arrays
       ELSE A.arrays # <<>> /\ Head(A.arrays) \in SUBSET Reader!PendingMember /\ B.arrays = Tail(A.arrays)
  BY <1>1
<1>11. Meets(pr, Head(A.calls).todo, f.path, f.todo,
             IF f.at = "enter" THEN {} ELSE Head(A.arrays),
             IF f.at = "returned" THEN {f.index} ELSE {})
  BY <1>1, <1>2, <1>4, <1>5
<1>12. StandsObject(f, A, B, wr)
  BY <1>1, <1>2, <1>4, <1>8, <1>9, <1>10, <1>11 DEF StandsObject
<1> QED BY <1>1, <1>12, StandsObjectIs

\* N objects of class w are next, and read as class r.
ReadFrom(T, R, N, w, r, places, cs) ==
  /\ cs = Heads(w, N, places, "object") \o R.calls
  /\ R.arrays = T.arrays /\ ~T.skipping /\ ~R.skipping
  /\ R.got = T.got \cup PlacesOwed(places, N, Common[<<w, r>>])
  /\ R.clean <=> (T.clean /\ ~Mismatched[<<w, r>>])

AreLinked(T, R, N, r, places, cs, wr) ==
  /\ LinkedFrom(ReadObjects(r, N, places), N, Being(T, cs, FALSE, T.got, T.clean), R, wr)
  /\ \A k \in 1 .. N : ReadObjects(r, N, places)[k].what = "object"
                       /\ ReadObjects(r, N, places)[k].at = "enter"

\* N calls in a row that each read an object of the writer.
LEMMA ObjectsLinked ==
  ASSUME NEW wr \in ClassPairs, NEW T \in Context, NEW R \in Context, NEW N \in Nat, N > 0,
         NEW w \in Class, NEW r \in Class, <<w, r>> \in Pairs[wr],
         NEW places \in [1 .. N -> Seq(Nat)],
         NEW cs, ReadFrom(T, R, N, w, r, places, cs)
  PROVE  AreLinked(T, R, N, r, places, cs, wr)
<1>h. /\ cs = Heads(w, N, places, "object") \o R.calls
      /\ R.arrays = T.arrays /\ ~T.skipping /\ ~R.skipping
      /\ R.got = T.got \cup PlacesOwed(places, N, Common[<<w, r>>])
      /\ R.clean <=> (T.clean /\ ~Mismatched[<<w, r>>])
  BY DEF ReadFrom
<1>p. PICK P, bad : P = Common[<<w, r>>] /\ bad = Mismatched[<<w, r>>]
  OBVIOUS
<1> DEFINE new == ReadObjects(r, N, places)
           G(k) == T.got \cup PlacesOwed(places, k - 1, P)
           C(k) == T.clean /\ (k > 1 => ~bad)
           U(k) == Being(T, Later(cs, k), FALSE, G(k), C(k))
           ctx == [k \in 1 .. N |-> U(k)]
<1>0. P \in SUBSET Seq(Nat) /\ bad \in BOOLEAN
  <2>1. <<w, r>> \in ClassPairs
    BY DEF ClassPairs
  <2> QED BY <1>p, <2>1, CommonFixed, MismatchedBy
<1>1. /\ Heads(w, N, places, "object") \in Seq(CallRecord) /\ Len(Heads(w, N, places, "object")) = N
      /\ \A k \in 1 .. N : Heads(w, N, places, "object")[k] = CallOf(w, places[k], "object")
      /\ \A k \in 1 .. N : places[k] \in Seq(Nat)
  BY HeadsType
<1>2. R.calls \in Seq(CallRecord) /\ T.skipping \in BOOLEAN /\ T.clean \in BOOLEAN
      /\ T.got \in SUBSET (Seq(Nat) \X Seq(Nat)) /\ R.skipping \in BOOLEAN /\ R.clean \in BOOLEAN
  BY ContextTypes
<1>3. \A k \in 1 .. N : /\ Later(cs, k) \in Seq(CallRecord) /\ Later(cs, k) # <<>>
                        /\ Head(Later(cs, k)) = CallOf(w, places[k], "object")
                        /\ Tail(Later(cs, k)) = IF k = N THEN R.calls ELSE Later(cs, k + 1)
  <2> TAKE k \in 1 .. N
  <2>1. PICK hs, rest : hs = Heads(w, N, places, "object") /\ rest = R.calls
    OBVIOUS
  <2>2. hs \in Seq(CallRecord) /\ rest \in Seq(CallRecord) /\ cs = hs \o rest /\ k \in 1 .. Len(hs)
        /\ Len(hs) = N
    BY <1>1, <1>2, <1>h, <2>1
  <2>3. FollowsIn(hs, rest, cs, k)
    BY <2>2, LaterCalls
  <2> QED BY <1>1, <2>1, <2>2, <2>3 DEF FollowsIn
<1>4. \A k \in 1 .. N : /\ U(k) \in Context /\ U(k).calls = Later(cs, k) /\ U(k).arrays = T.arrays
                        /\ U(k).skipping = FALSE /\ U(k).got = G(k) /\ U(k).clean = C(k)
  <2> TAKE k \in 1 .. N
  <2>1. PICK ls, got, clean, b : ls = Later(cs, k) /\ got = G(k) /\ clean = C(k) /\ b = FALSE
    OBVIOUS
  <2>2. PICK j : j = k - 1
    OBVIOUS
  <2>3. j \in 0 .. N
    BY <2>2
  <2>4. PlacesOwed(places, j, P) \in SUBSET (Seq(Nat) \X Seq(Nat))
    BY <1>0, <2>3, PlacesOwedStep
  <2>5. ls \in Seq(CallRecord) /\ got \in SUBSET (Seq(Nat) \X Seq(Nat)) /\ clean \in BOOLEAN /\ b \in BOOLEAN
    BY <1>2, <1>3, <2>1, <2>2, <2>4
  <2>6. IsBeing(Being(T, ls, b, got, clean), T, ls, b, got, clean)
    BY <2>5, BeingTypes
  <2> QED BY <2>1, <2>6 DEF IsBeing
<1>5. \A k \in 1 .. N : /\ new[k] = Reader!ObjectFrame(r, places[k]) /\ new[k] \in Reader!Frame
                        /\ new[k].what = "object" /\ new[k].at = "enter"
  <2> TAKE k \in 1 .. N
  <2>1. PICK p, f : p = places[k] /\ f = Reader!ObjectFrame(r, p)
    OBVIOUS
  <2>2. new[k] = f /\ p \in Seq(Nat)
    BY <1>1, <2>1 DEF ReadObjects
  <2>3. f \in Reader!Frame /\ f.what = "object" /\ f.at = "enter"
    BY <2>1, <2>2, FirstFrameIs DEF Begins
  <2> QED BY <2>1, <2>2, <2>3
<1>6. new \in Seq(Reader!Frame) /\ Len(new) = N
  <2>1. new \in [1 .. N -> Reader!Frame]
    BY <1>5 DEF ReadObjects
  <2>2. new \in Seq(Reader!Frame)
    BY <2>1, FunctionIsSeq
  <2> QED BY <2>1, <2>2, LenProperties
<1>7. ctx \in Seq(Context) /\ Len(ctx) = N
  <2>1. ctx \in [1 .. N -> Context]
    BY <1>4
  <2> HIDE DEF ctx
  <2>2. ctx \in Seq(Context)
    BY <2>1, FunctionIsSeq
  <2> QED BY <2>1, <2>2, LenProperties
<1>8. \A k \in 1 .. N : ctx[k] = U(k)
  OBVIOUS
<1>9. PICK cx, nw : cx = ctx /\ nw = new
  OBVIOUS
<1>10. ASSUME NEW k \in 1 .. N
       PROVE  Stands(nw[k], cx[k], IF k = N THEN R ELSE cx[k + 1], wr)
  <2>1. PICK f, A, B, p : f = nw[k] /\ A = cx[k] /\ B = (IF k = N THEN R ELSE cx[k + 1]) /\ p = places[k]
    OBVIOUS
  <2>2. /\ A \in Context /\ A.calls = Later(cs, k) /\ A.arrays = T.arrays /\ ~A.skipping
        /\ A.got = G(k) /\ (A.clean <=> C(k))
    BY <1>4, <1>8, <1>9, <2>1
  <2>3. PlacesOwed(places, k, P) = PlacesOwed(places, k - 1, P) \cup Owed(p, P)
    <3>1. k \in 0 .. N /\ k > 0
      OBVIOUS
    <3> QED BY <1>0, <2>1, <3>1, PlacesOwedStep
  <2>4. /\ B \in Context /\ B.calls = Tail(Later(cs, k)) /\ B.arrays = T.arrays /\ ~B.skipping
        /\ B.got = T.got \cup PlacesOwed(places, k, P) /\ (B.clean <=> (T.clean /\ ~bad))
    <3>1. CASE k = N
      BY <1>3, <1>p, <1>h, <2>1, <3>1
    <3>2. CASE k # N
      <4>1. k + 1 \in 1 .. N /\ (k + 1) - 1 = k /\ k + 1 > 1
        BY <3>2
      <4>2. B = U(k + 1)
        BY <1>8, <1>9, <2>1, <3>2, <4>1
      <4>3. /\ B \in Context /\ B.calls = Later(cs, k + 1) /\ B.arrays = T.arrays /\ ~B.skipping
            /\ B.got = G(k + 1) /\ (B.clean <=> C(k + 1))
        BY <1>4, <4>1, <4>2
      <4> QED BY <1>3, <3>2, <4>1, <4>3
    <3> QED BY <3>1, <3>2
  <2>5. B.got = A.got \cup Owed(p, P) /\ (B.clean <=> (A.clean /\ ~bad))
    BY <1>h, <2>2, <2>3, <2>4
  <2>6. /\ A.calls # <<>> /\ Head(A.calls) = CallOf(w, p, "object") /\ B.calls = Tail(A.calls)
        /\ B.arrays = A.arrays
    BY <1>3, <2>1, <2>2, <2>4
  <2>7. f = Reader!ObjectFrame(r, p) /\ p \in Seq(Nat)
    BY <1>1, <1>5, <1>9, <2>1
  <2>8. Stands(f, A, B, wr)
    BY <1>p, <2>2, <2>4, <2>5, <2>6, <2>7, ObjectBegins
  <2> QED BY <2>1, <2>8
<1>11. Linked(new, ctx, R, wr)
  BY <1>6, <1>7, <1>9, <1>10 DEF Linked
<1>12. FirstOf(ctx, R) = Being(T, cs, FALSE, T.got, T.clean)
  <2>1. 1 \in 1 .. N
    OBVIOUS
  <2>2. FirstOf(ctx, R) = U(1)
    <3>1. ctx[1] = U(1)
      BY <1>8, <2>1
    <3> HIDE DEF U, ctx
    <3>2. ctx # <<>>
      BY <1>7
    <3> QED BY <3>1, <3>2 DEF FirstOf
  <2>3. Later(cs, 1) = cs
    <3>1. cs \in Seq(CallRecord)
      BY <1>1, <1>2, <1>h, ConcatProperties
    <3> QED BY <3>1, AllCalls
  <2>4. PlacesOwed(places, 1 - 1, P) = {}
    BY DEF PlacesOwed
  <2>5. G(1) = T.got
    BY <2>4
  <2>6. C(1) = T.clean
    BY <1>2
  <2> QED BY <2>2, <2>3, <2>5, <2>6
<1> QED BY <1>5, <1>6, <1>11, <1>12 DEF LinkedFrom, AreLinked

\* Members that lead from one pair of classes to another.
LEMMA LeadsIn ==
  ASSUME NEW wr \in ClassPairs, NEW pr \in Pairs[wr], NEW m \in MembersOf(pr[1]), NEW n \in MembersOf(pr[2]),
         m.index = n.index, Fitting(m, n)
  PROVE  /\ m.class \in Class /\ n.class \in Class
         /\ Goes(m, n) => <<m.class, n.class>> \in Pairs[wr]
         /\ m.packed /\ m.size > 0 => <<m.class, n.class>> \in PackedPairs[wr]
<1>1. pr \in ClassPairs /\ pr[1] \in Class /\ pr[2] \in Class
  BY PairsClosed DEF ClassPairs
<1>2. m.class \in Class /\ n.class \in Class
  BY <1>1, MemberTypes
<1>3. PICK mn : mn = <<m, n>>
  OBVIOUS
<1>4. mn[1] = m /\ mn[2] = n /\ mn \in Both(pr[1], pr[2])
  BY <1>3 DEF Both
<1>5. Goes(m, n) => <<m.class, n.class>> \in Pairs[wr]
  <2> SUFFICES ASSUME Goes(m, n)  PROVE <<m.class, n.class>> \in Pairs[wr]
    OBVIOUS
  <2>1. mn \in Leading(pr)
    BY <1>4 DEF Leading, Goes
  <2>2. <<mn[1].class, mn[2].class>> \in Pairs[wr]
    BY <2>1, PairsClosed
  <2> QED BY <1>4, <2>2
<1>6. m.packed /\ m.size > 0 => <<m.class, n.class>> \in PackedPairs[wr]
  <2> SUFFICES ASSUME m.packed, m.size > 0  PROVE <<m.class, n.class>> \in PackedPairs[wr]
    OBVIOUS
  <2>1. mn \in {b \in Both(pr[1], pr[2]) : Fitting(b[1], b[2]) /\ b[1].packed /\ b[1].size > 0}
    BY <1>4
  <2> HIDE DEF Both
  <2>2. <<mn[1].class, mn[2].class>> \in
          {<<ab[1].class, ab[2].class>> :
             ab \in {b \in Both(pr[1], pr[2]) : Fitting(b[1], b[2]) /\ b[1].packed /\ b[1].size > 0}}
    BY <2>1
  <2>3. <<mn[1].class, mn[2].class>> \in PackedPairs[wr]
    BY <2>2, Zenon DEF PackedPairs
  <2> QED BY <1>4, <2>3
<1> QED BY <1>2, <1>5, <1>6

\* Objects that the reader has are next: one, or those of a vector.
ToRead(x, y, T, R, N, w, r, places, wr) ==
  /\ N \in Nat /\ w \in Class /\ r \in Class /\ places \in [1 .. N -> Seq(Nat)]
  /\ y.calls = Heads(w, N, places, "object") \o AfterStore(x.calls)
  /\ N > 0 => <<w, r>> \in Pairs[wr]
  /\ R.got = T.got \cup PlacesOwed(places, N, Common[<<w, r>>])
  /\ R.clean <=> (N > 0 => ~Mismatched[<<w, r>>])

\* Objects are about to be read, each by a call of its own.
LEMMA ObjectsOn ==
  ASSUME NEW x, NEW y, NEW W, NEW g, IsAt(x, y, W, g), Kindly,
         NEW R, R = g[2], TakesItem(g[1], R), ~mObjectSkipping, Reached(y.at),
         NEW N, NEW w, NEW r, NEW places, ToRead(x, y, g[1], R, N, w, r, places, PairNow),
         frames[1].what \in {"read", "body"},
         frames' = ReadObjects(r, N, places) \o Tail(frames),
         UNCHANGED Reader!messageVars, pos' = pos, result' = result
  PROVE  Onwards(x, y, W)'
<1>f. PICK T, wr : T = g[1] /\ wr = PairNow
  OBVIOUS
<1>1. /\ N \in Nat /\ w \in Class /\ r \in Class /\ places \in [1 .. N -> Seq(Nat)]
      /\ y.calls = Heads(w, N, places, "object") \o AfterStore(x.calls)
      /\ N > 0 => <<w, r>> \in Pairs[wr]
      /\ R.got = T.got \cup PlacesOwed(places, N, Common[<<w, r>>])
      /\ R.clean <=> (N > 0 => ~Mismatched[<<w, r>>])
  BY <1>f DEF ToRead
<1>2. /\ T \in Context /\ R \in Context /\ T.calls = x.calls /\ T.skipping = mObjectSkipping /\ T.clean
      /\ T.arrays = <<mCurrentPendingVariables>> \o mVariableHistory
      /\ (x.at <= Len(stream) => T.got = result) /\ ReaderTypes /\ wr \in ClassPairs
  BY <1>f, PresentIs
<1>3. /\ R.calls = AfterStore(x.calls) /\ R.skipping = mObjectSkipping /\ R.arrays = T.arrays
      /\ y.n = x.n /\ x.at \in Nat /\ y.at \in Nat /\ x.at <= y.at /\ Len(stream) \in Nat
  <2>1. /\ R.calls = AfterStore(x.calls) /\ y.n = x.n /\ x.at \in Nat /\ y.at \in Nat /\ x.at <= y.at
    BY ItemNow
  <2>2. Len(stream) \in Nat
    BY <1>2, LenProperties DEF ReaderTypes
  <2> QED BY <1>2, <1>f, <2>1, <2>2 DEF TakesItem
<1>7. ~mCurrentIndexPending
  BY DEF IsAt, IInv, KeptInv, Stores
<1>8. y.at <= Len(stream) => T.got = result
  BY <1>2, <1>3
<1>9. /\ mVariableHistory' = mVariableHistory /\ mCurrentPendingVariables' = mCurrentPendingVariables
      /\ mObjectSkipping' = mObjectSkipping /\ mCurrentIndexPending' = mCurrentIndexPending
  BY DEF Reader!messageVars
<1>5. Reached(y.at)' /\ stream' = stream
  BY DEF Reached, Kindly
<1>10. CASE N = 0
  <2>2. frames' = Tail(frames)
    <3>1. ReadObjects(r, N, places) = <<>>
      BY <1>10 DEF ReadObjects
    <3>2. frames # <<>>
      BY Innermost
    <3> QED BY <1>2, <3>1, <3>2, NoFrames
  <2>3. y.calls = R.calls
    <3>1. Heads(w, N, places, "object") = <<>>
      BY <1>10 DEF Heads
    <3>2. R.calls \in Seq(CallRecord)
      BY <1>2, ContextTypes
    <3> QED BY <1>1, <1>3, <3>1, <3>2, ConcatEmptySeq
  <2>4. R.got = T.got /\ R.clean
    BY <1>1, <1>10 DEF PlacesOwed
  <2>5. Present(R, y)'
    BY <1>2, <1>3, <1>5, <1>8, <1>9, <2>3, <2>4 DEF Present
  <2>6. ~mCurrentIndexPending' /\ frames[1].what # "object"
    BY <1>7, <1>9
  <2> QED BY <1>3, <1>5, <2>2, <2>5, <2>6, BackTo
<1>11. CASE N > 0
  <2>1. PICK new : new = ReadObjects(r, N, places)
    OBVIOUS
  <2>2. PICK U, cs : U = Being(T, cs, FALSE, T.got, T.clean) /\ cs = y.calls
    OBVIOUS
  <2>3. /\ LinkedFrom(new, N, U, R, wr)
        /\ \A k \in 1 .. N : new[k].what = "object" /\ new[k].at = "enter"
    <3>1. cs = Heads(w, N, places, "object") \o R.calls /\ ~T.skipping /\ ~R.skipping
          /\ (R.clean <=> (T.clean /\ ~Mismatched[<<w, r>>])) /\ <<w, r>> \in Pairs[wr]
      BY <1>1, <1>2, <1>3, <1>11, <2>2
    <3>3. ReadFrom(T, R, N, w, r, places, cs)
      BY <1>1, <1>3, <3>1 DEF ReadFrom
    <3>2. /\ LinkedFrom(ReadObjects(r, N, places), N, Being(T, cs, FALSE, T.got, T.clean), R, wr)
          /\ \A k \in 1 .. N : ReadObjects(r, N, places)[k].what = "object"
                               /\ ReadObjects(r, N, places)[k].at = "enter"
      <4>1. /\ wr \in ClassPairs /\ T \in Context /\ R \in Context /\ N \in Nat /\ N > 0 /\ w \in Class
            /\ r \in Class /\ <<w, r>> \in Pairs[wr] /\ places \in [1 .. N -> Seq(Nat)]
        BY <1>1, <1>2, <1>11, <3>1
      <4>2. AreLinked(T, R, N, r, places, cs, wr)
        BY <3>3, <4>1, ObjectsLinked
      <4> QED BY <4>2 DEF AreLinked
    <3> QED BY <2>1, <2>2, <3>2
  <2>4. PICK ctx : Linked(new, ctx, R, wr) /\ FirstOf(ctx, R) = U /\ new \in Seq(Reader!Frame) /\ Len(new) = N
    BY <2>3 DEF LinkedFrom
  <2>6. \A i \in 2 .. N : Waits(new[i])
    <3> TAKE i \in 2 .. N
    <3>1. i \in 1 .. N
      BY <1>1
    <3> QED BY <2>3, <3>1 DEF Waits
  <2>7. U.calls = y.calls /\ U.arrays = T.arrays /\ U.skipping = FALSE /\ U.got = T.got /\ U.clean = T.clean
    BY <2>2 DEF Being
  <2>8. mObjectSkipping' = FALSE
    BY <1>2, <1>9 DEF ReaderTypes
  <2>9. Present(U, y)'
    BY <1>2, <1>5, <1>8, <1>9, <2>7, <2>8 DEF Present
  <2>10. PICK e : e = new[1]
    OBVIOUS
  <2>11. e.what = "object" /\ e.at = "enter"
    BY <1>1, <1>11, <2>3, <2>10
  <2>12. ~HeaderSeen(e)'
    BY <1>7, <1>9, <2>11 DEF HeaderSeen
  <2>13. TakenSince(e, y)'
    <3>2. Reached(y.at + OneIf(HeaderSeen(e)))'
      BY <1>3, <1>5, <2>12 DEF OneIf
    <3> QED BY <2>11, <3>2 DEF TakenSince
  <2> QED BY <1>1, <1>3, <1>11, <1>f, <2>1, <2>4, <2>6, <2>9, <2>10, <2>12, <2>13, Becomes
<1> QED BY <1>1, <1>10, <1>11

=============================================================================
