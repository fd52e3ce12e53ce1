--------------------------- MODULE BinaryRoundTrip ---------------------------
(***************************************************************************)
(* A serialisation message and a deserialisation message at the two ends   *)
(* of a stream.  The writer Enters with some objects; what it has written, *)
(* or only the first part of it, reaches the reader, which Enters with     *)
(* objects of its own classes, possibly after a failure, and is destroyed. *)
(* The classes of the two sides need not be the same: that is what the     *)
(* format is for.                                                          *)
(***************************************************************************)
EXTENDS BinaryFormat

CONSTANTS
  Sendable, Readable, MaxMessages, MaxReads, Null,
  MaxDepth,       \* nesting of objects in the classes
  MayTruncate     \* whether the stream may end early

VARIABLES
  phase,          \* "write", then "read"
  stream, calls, sent, ends,
  pos, frames, mCurrentType, mCurrentIndex, mCurrentIndexPending,
  mObjectSkipping, mCleanExit, mCurrentPendingVariables, mVariableHistory,
  lent, alive, result, entered, outcome

Writer == INSTANCE BinarySerMessage
Reader == INSTANCE BinaryDeserMessage

ASSUME RoundTripAssumption == Sendable \subseteq Class /\ Readable \subseteq Class

\* The classes whose objects hold others less than d deep.  An object is
\* finite: MaxDepth is deep enough for all of them.
NestedTo[d \in 0 .. MaxDepth] ==
  IF d = 0 THEN {}
  ELSE LET inner == NestedTo[d - 1]
       IN  {c \in Class : \A m \in MembersOf(c) :
              IsObject(m) \/ (IsObjects(m) /\ m.size > 0) => m.class \in inner}

ASSUME DepthAssumption == MaxDepth \in Nat /\ NestedTo[MaxDepth] = Class

readerVars == <<pos, frames, mCurrentType, mCurrentIndex, mCurrentIndexPending,
                mObjectSkipping, mCleanExit, mCurrentPendingVariables,
                mVariableHistory, lent, alive, result, entered, outcome>>
vars == <<phase, stream, calls, sent, ends, readerVars>>

Init == phase = "write" /\ Writer!Init /\ Reader!ReaderInit

Write ==
  /\ phase = "write" /\ Writer!Next
  /\ UNCHANGED <<phase, readerVars>>

Arrived == IF MayTruncate THEN 0 .. Len(stream) ELSE {Len(stream)}

Deliver ==
  /\ phase = "write" /\ calls = <<>> /\ sent # <<>>
  /\ phase' = "read"
  /\ \E n \in Arrived : stream' = SubSeq(stream, 1, n)
  /\ UNCHANGED <<calls, sent, ends, readerVars>>

Read == phase = "read" /\ Reader!ReaderNext /\ UNCHANGED <<phase, calls, sent, ends>>

ReadStep == phase = "read" /\ Reader!Step /\ UNCHANGED <<phase, calls, sent, ends>>

\* Nothing is said of a reader that is lost.
Finished == (~alive \/ Reader!OutOfStep \/ Reader!Overrun) /\ UNCHANGED vars

Next == Write \/ Deliver \/ Read \/ Finished

Spec == Init /\ [][Next]_vars
\* The caller of a Store or an Enter does not stop in the middle of it.
FairSpec == Spec /\ WF_vars(ReadStep)

-----------------------------------------------------------------------------
(***************************************************************************)
(* What a reader of class r can get from an object written as class w.     *)
(***************************************************************************)
ClassPairs == Class \X Class
\* The members that both classes have, and whether one can be read from the
\* other.
Both(w, r) == {mn \in MembersOf(w) \X MembersOf(r) : mn[1].index = mn[2].index}
Numbers == {"UInt8", "UInt16", "UInt32", "UInt64", "Float", "Double"}
SameOnTheWire == {{"Float", "UInt32"}, {"Double", "UInt64"}}
Fitting(m, n) ==
  \/ /\ m.type \in Numbers /\ n.type \in Numbers
     /\ n.type \in {"Float", "Double"} => m.type \notin {"UInt8", "UInt16"}
  \/ /\ m.type = n.type /\ m.type \notin Numbers
     /\ m.type = "Array" => m.sub = n.sub \/ {m.sub, n.sub} \in SameOnTheWire

Joined(starts, paths) == {s \o p : s \in starts, p \in paths}
Starts(m, n) ==
  IF n.type = "Array" THEN {<<n.index, k>> : k \in 1 .. m.size} ELSE {<<n.index>>}
Below(m, n, paths) ==
  IF IsPrimitive(n) \/ IsVector(n) THEN Starts(m, n)
  ELSE Joined(Starts(m, n), paths[<<m.class, n.class>>])

CommonTo[d \in 0 .. MaxDepth] ==
  IF d = 0 THEN [wr \in ClassPairs |-> {}]
  ELSE LET paths == CommonTo[d - 1]
       IN  [wr \in ClassPairs |->
              UNION {Below(mn[1], mn[2], paths) :
                       mn \in {b \in Both(wr[1], wr[2]) : Fitting(b[1], b[2])}}]

\* The values that both have.
Common == CommonTo[MaxDepth]

\* The pairs of classes that reading r from w comes to.
PairsTo[d \in 0 .. MaxDepth] ==
  IF d = 0 THEN [wr \in ClassPairs |-> {}]
  ELSE LET pairs == PairsTo[d - 1]
       IN  [wr \in ClassPairs |->
              {wr} \cup UNION {pairs[<<mn[1].class, mn[2].class>>] :
                 mn \in {b \in Both(wr[1], wr[2]) :
                           /\ Fitting(b[1], b[2])
                           /\ IsObject(b[2]) \/ (IsObjects(b[2]) /\ b[1].size > 0)}}]
Pairs == PairsTo[MaxDepth]

Mismatched == [wr \in ClassPairs |->
  \E p \in Pairs[wr] : \E mn \in Both(p[1], p[2]) : ~Fitting(mn[1], mn[2])]

\* The header of a Terminator is that of a member with index 0.
LacksZero == [wr \in ClassPairs |->
  \E p \in Pairs[wr] : /\ \E n \in MembersOf(p[2]) : n.index = 0
                       /\ \A m \in MembersOf(p[1]) : m.index # 0]

-----------------------------------------------------------------------------
(***************************************************************************)
(* What packed vectors of objects do not support.                          *)
(***************************************************************************)
Counterparts(m, c) == {n \in MembersOf(c) : n.index = m.index}

HasPackedTo[d \in 0 .. MaxDepth] ==
  IF d = 0 THEN [c \in Class |-> FALSE]
  ELSE LET within == HasPackedTo[d - 1]
       IN  [c \in Class |-> \E m \in MembersOf(c) :
              \/ m.packed
              \/ (IsObject(m) \/ (IsObjects(m) /\ m.size > 0)) /\ within[m.class]]
HasPacked(m) ==
  m.packed \/ ((IsObject(m) \/ (IsObjects(m) /\ m.size > 0)) /\ HasPackedTo[MaxDepth][m.class])

\* The pairs of classes among them that packed elements come to.
PackedPairs == [wr \in ClassPairs |->
  UNION {{<<mn[1].class, mn[2].class>> :
            mn \in {b \in Both(p[1], p[2]) :
                      Fitting(b[1], b[2]) /\ b[1].packed /\ b[1].size > 0}} :
         p \in Pairs[wr]}]

\* SkipArray takes a packed vector for an ordinary one; the value message
\* skips no member of an element; and a vector inside an element is written
\* without what its reader expects.
Unsupported == [wr \in ClassPairs |->
  \/ \E p \in Pairs[wr] : \E m \in MembersOf(p[1]) :
       Counterparts(m, p[2]) = {} /\ HasPacked(m)
  \/ \E p \in PackedPairs[wr] : \E m \in MembersOf(p[1]) :
       \/ Counterparts(m, p[2]) = {}
       \/ IsObjects(m) /\ (m.size > 0 \/ m.packed)]

\* A packed element lacks a member that the reader has.
ElementLacks == [wr \in ClassPairs |->
  \E p \in PackedPairs[wr] : \E n \in MembersOf(p[2]) : Counterparts(n, p[1]) = {}]

\* What the r-th message is written and read as.
Classes(r) == <<sent[r], entered[r]>>

\* The r-th message, like all before it, is one that can be read.
Supported(r) ==
  \A q \in 1 .. r : q <= Len(sent) => ~Unsupported[Classes(q)]

-----------------------------------------------------------------------------
(***************************************************************************)
(* Properties.                                                             *)
(***************************************************************************)
\* All variables have values of the kinds the code gives them.
TypeOK ==
  /\ phase \in {"write", "read"}
  /\ Writer!TypeOK
  /\ Reader!TypeOK

\* A message that Enter returns from holds exactly the values that the two
\* classes have in common, each where it belongs, however the members are
\* ordered; the rest keeps its default (StoreTemplate, ReadRemaining and
\* SkipVariable of binaryDeserMessage.h).
RoundTrip ==
  \A r \in 1 .. Len(outcome) : outcome[r] = "done" /\ Supported(r) =>
    {e \in result : e[1][1] = r} =
      {<< <<r>> \o p, <<r>> \o p>> : p \in Common[Classes(r)]}

\* What is read as a header, a size or a value was written as one: reading
\* and skipping never get out of step with the writer, unless for the sake
\* of a packed vector that the format does not support (SkipVariable,
\* ReadArrayHeader); and the cached headers of a packed vector are not
\* overrun, unless its elements lack a member that the reader has
\* (StoreTemplate of the value message).
NeverMisreads ==
  LET r == Len(outcome)
  IN  /\ Reader!OutOfStep => ~Supported(r)
      /\ Reader!Overrun => ~Supported(r) \/ ElementLacks[Classes(r)]

\* "SERIALISATION_TEST2( Skipping, ObjectVector, ..." (test/objectTest/
\* objectTest6.cpp:29): a reader skips the vectors of objects that it does
\* not have.
InStep == ~Reader!OutOfStep

\* Enter consumes exactly one message: the next one on the same stream, or
\* another user of it, starts at its first byte; and it does not return
\* normally from a message whose end is missing (ReadRemaining).
StreamInStep ==
  \A r \in 1 .. Len(outcome) : outcome[r] = "done" /\ Supported(r) =>
    /\ ends[r] <= Len(stream)
    /\ Len(outcome) = r => pos = ends[r] + 1

\* Exceptions are thrown for a reason: InvalidType if the two classes give
\* an index different types, or if the reader has a member 0 that the writer
\* lacks, whose header a Terminator is taken for; EndOfStream if the end of
\* the message is missing; NoCleanExit after another one.
FailuresJustified ==
  \A r \in 1 .. Len(outcome) : Supported(r) =>
    CASE outcome[r] = "InvalidType" ->
           Mismatched[Classes(r)] \/ LacksZero[Classes(r)]
      [] outcome[r] = "EndOfStream" -> r > Len(sent) \/ ends[r] > Len(stream)
      [] outcome[r] = "NoCleanExit" -> \E q \in 1 .. (r - 1) : outcome[q] # "done"
      [] OTHER -> TRUE

\* Two types of one index are always found out (exceptions.h:121).
MismatchReported ==
  \A r \in 1 .. Len(outcome) :
    outcome[r] = "done" /\ Supported(r) => ~Mismatched[Classes(r)]

\* Every array that the pool has lent is back when the message dies, after
\* whatever exceptions (the destructor; the assertion at memoryPool.h:81).
ArraysReturned == ~alive => lent = 0

IsEntered(f) == f.what = "object" /\ f.at # "enter"
IsPackedFrame(f) == f.what \in {"cache", "packed"}

\* How many of the first j frames have an array of their own.
Depth(j) == Cardinality({i \in 1 .. j : IsEntered(frames[i])})
PackedDepth(j) == Cardinality({i \in 1 .. j : IsPackedFrame(frames[i])})

\* The arrays in use are those of the objects being read and of the packed
\* vectors, each with the closures of that very object or element: no
\* closure outlives what its member belongs to (StoreEntryPoint of both
\* messages, AddPendingPrimitive).
ClosuresLive ==
  LET saved == <<mCurrentPendingVariables>> \o mVariableHistory
      n == Len(frames)
  IN  mCleanExit =>
        /\ Len(mVariableHistory) = Depth(n)
        /\ lent = Depth(n) + PackedDepth(n)
        /\ \A j \in 1 .. n : IsEntered(frames[j]) =>
              \A p \in saved[Depth(j)] : p.path = Append(frames[j].path, p.member.index)
        /\ \A j \in 1 .. n : frames[j].what = "packed" /\ frames[j].at # "next" =>
              \A p \in frames[j].pending :
                p.path = Append(Append(frames[j].path, frames[j].k), p.member.index)

\* A message that has returned normally is as good as new: no header kept,
\* no member pending, not skipping (the precondition of reuse that
\* NoCleanExitException stands for, binaryDeserMessage.h:117).
CleanWhenIdle ==
  frames = <<>> /\ mCleanExit =>
    /\ ~mCurrentIndexPending /\ ~mObjectSkipping
    /\ mCurrentPendingVariables = Null /\ mVariableHistory = <<>>

\* Nothing is read, and no closure run, through a message that has failed.
DeadAfterFailure ==
  [][~mCleanExit => UNCHANGED <<pos, result, mCurrentPendingVariables>>]_vars

\* Every Enter returns or throws.
EnterReturns ==
  (frames # <<>>) ~> (frames = <<>>)

=============================================================================
