------------------------ MODULE BufferedStreamReader ------------------------
(***************************************************************************)
(* BufferedStreamReader and StreamReader (stream/bufferedStreamReader.h,   *)
(* streamReader.cpp): several messages read from one std::istream, each    *)
(* through a buffer of its own, one at a time.  A message that has had its *)
(* turn clears its buffer, which seeks back over what it has not used.     *)
(*                                                                         *)
(* The stream holds the bytes 1 to length.  Its flags and its position     *)
(* follow the C++ standard: a short read sets eofbit and failbit; nothing  *)
(* works while failbit is set; seekg clears eofbit only.                   *)
(***************************************************************************)
EXTENDS Integers, Sequences

CONSTANTS
  Readers,
  BufferSize,       \* tBufferSize
  FillSize,         \* SERIALISATION_SERIALISERS_BUFFERSIZE
  Sizes,            \* of what is asked for
  Nobody

ReaderAssumption ==
  /\ BufferSize \in Nat /\ FillSize \in 1 .. BufferSize
  /\ Sizes \subseteq Nat
  /\ Nobody \notin Readers

VARIABLES
  length, seekable,       \* seekable: past the end, as a file but no stringstream
  mStream,                \* get position, eofbit and failbit
  mReadBuffer, mReadIndex, mReadSize, mCleanExit,
  turn,                   \* whose message is in use
  request,                \* the ReadBytes in progress
  answer                  \* what the last call delivered

content == <<length, seekable>>
vars == <<content, mStream, mReadBuffer, mReadIndex, mReadSize, mCleanExit,
          turn, request, answer>>

Smaller(a, b) == IF a < b THEN a ELSE b
Bytes(first, last) == [k \in 1 .. (last - first + 1) |-> first + k - 1]
NoRequest == [open |-> FALSE, left |-> 0, got |-> <<>>]
Answer(to, bytes) == answer' = [to |-> to, bytes |-> bytes]

-----------------------------------------------------------------------------
(***************************************************************************)
(* std::istream.                                                           *)
(***************************************************************************)
Fresh == [pos |-> 0, eof |-> FALSE, fail |-> FALSE]
Good == ~mStream.eof /\ ~mStream.fail

\* gcount after read(n), and the bytes that it stores.
Count(n) == IF Good /\ mStream.pos < length THEN Smaller(n, length - mStream.pos) ELSE 0
Stored(n) == Bytes(mStream.pos + 1, mStream.pos + Count(n))

AfterRead(n) ==
  [pos |-> mStream.pos + Count(n),
   eof |-> mStream.eof \/ (Good /\ Count(n) < n),
   fail |-> mStream.fail \/ ~Good \/ Count(n) < n]

\* seekg(offset, cur): a stringstream refuses to go past its end.
AfterSeekG(offset) ==
  LET refused == mStream.pos + offset > length /\ ~seekable
  IN  [pos |-> IF mStream.fail \/ refused THEN mStream.pos ELSE mStream.pos + offset,
       eof |-> FALSE,
       fail |-> mStream.fail \/ refused]

\* Slip: eofbit alone is cleared.
ClearEOF_Only(s) == [s EXCEPT !.eof = FALSE]

ClearEOF(s) == IF s.eof THEN [s EXCEPT !.eof = FALSE, !.fail = FALSE] ELSE s

-----------------------------------------------------------------------------
(***************************************************************************)
(* BufferedStreamReader.                                                   *)
(***************************************************************************)
Diff(r) == mReadSize[r] - mReadIndex[r]
Buffered(r, n) == SubSeq(mReadBuffer[r], mReadIndex[r] + 1, mReadIndex[r] + n)
SetIndex(r, i) == mReadIndex' = [mReadIndex EXCEPT ![r] = i]
buffers == <<mReadBuffer, mReadSize, mCleanExit>>

\* The messages have been constructed.
Unused ==
  /\ mStream = Fresh
  /\ mReadBuffer = [r \in Readers |-> <<>>]
  /\ mReadIndex = [r \in Readers |-> 0] /\ mReadSize = [r \in Readers |-> 0]
  /\ mCleanExit = [r \in Readers |-> TRUE]
  /\ turn = Nobody
  /\ request = NoRequest
  /\ answer = [to |-> "nothing", bytes |-> <<>>]

MayStart(r) == turn \in {r, Nobody} /\ ~request.open /\ mCleanExit[r]

\* When the buffer holds more than is needed; ReadBytes otherwise.
ReadPrimitive(r, n) ==
  /\ MayStart(r) /\ Diff(r) > n
  /\ Answer("read", Buffered(r, n))
  /\ SetIndex(r, mReadIndex[r] + n)
  /\ turn' = r
  /\ UNCHANGED <<content, mStream, buffers, request>>

ReadBytes(r, n) ==
  /\ MayStart(r)
  /\ request' = [open |-> TRUE, left |-> n, got |-> <<>>]
  /\ turn' = r
  /\ UNCHANGED <<content, mStream, mReadIndex, buffers, answer>>

Remainder(r) == Buffered(r, Diff(r))

\* Slip: nothing is asserted of what has arrived.
Assertion_None == TRUE
Assertion == Count(FillSize) > 0

\* One round of the loop of ReadBytes.
FillReadBuffer(r) ==
  /\ request.open /\ turn = r /\ Diff(r) < request.left
  /\ mStream' = ClearEOF(AfterRead(FillSize))
  /\ mReadBuffer' = [mReadBuffer EXCEPT ![r] = Stored(FillSize)]
  /\ mReadSize' = [mReadSize EXCEPT ![r] = Count(FillSize)]
  /\ SetIndex(r, 0)
  /\ \/ /\ Assertion
        /\ request' = [request EXCEPT !.left = @ - Diff(r), !.got = @ \o Remainder(r)]
        /\ UNCHANGED <<mCleanExit, answer>>
     \/ /\ ~Assertion
        /\ request' = NoRequest
        /\ mCleanExit' = [mCleanExit EXCEPT ![r] = FALSE]
        /\ Answer("failed", <<>>)
  /\ UNCHANGED <<content, turn>>

FinishReadBytes(r) ==
  /\ request.open /\ turn = r /\ Diff(r) >= request.left
  /\ Answer("read", request.got \o Buffered(r, request.left))
  /\ SetIndex(r, mReadIndex[r] + request.left)
  /\ request' = NoRequest
  /\ UNCHANGED <<content, mStream, buffers, turn>>

DrainedIndex(r) == mReadSize[r]

\* The end of a block comes straight from the stream, unchecked.
ReadBlock(r, n) ==
  /\ MayStart(r)
  /\ turn' = r
  /\ \/ /\ n < Diff(r)
        /\ Answer("block", Buffered(r, n))
        /\ SetIndex(r, mReadIndex[r] + n)
        /\ UNCHANGED mStream
     \/ /\ n >= Diff(r)
        /\ Answer("block", Buffered(r, Diff(r)) \o Stored(n - Diff(r)))
        /\ SetIndex(r, DrainedIndex(r))
        /\ mStream' = AfterRead(n - Diff(r))
  /\ UNCHANGED <<content, buffers, request>>

\* Bound: nothing is skipped any more once the end has been passed.
WithinSkips == mStream.pos <= length

Skip(r, n) ==
  /\ MayStart(r) /\ WithinSkips
  /\ turn' = r
  /\ Answer("skip", <<>>)
  /\ \/ /\ Diff(r) < n
        /\ mStream' = AfterSeekG(n - Diff(r))
        /\ SetIndex(r, DrainedIndex(r))
     \/ /\ Diff(r) >= n
        /\ SetIndex(r, mReadIndex[r] + n)
        /\ UNCHANGED mStream
  /\ UNCHANGED <<content, buffers, request>>

\* Slip: the reader does not seek back.
Unread_Forgotten(r) == 0
Unread(r) == mReadIndex[r] - mReadSize[r]

\* By the caller between two messages, or by the destructor through Close.
ClearBuffer(r) ==
  /\ turn \in {r, Nobody} /\ ~request.open
  /\ mStream' = ClearEOF(AfterSeekG(Unread(r)))
  /\ SetIndex(r, 0)
  /\ mReadSize' = [mReadSize EXCEPT ![r] = 0]
  /\ turn' = Nobody
  /\ UNCHANGED <<content, mReadBuffer, mCleanExit, request, answer>>

Step(r) == FillReadBuffer(r) \/ FinishReadBytes(r)

Next ==
  \E r \in Readers :
    \/ \E n \in Sizes : ReadPrimitive(r, n) \/ ReadBytes(r, n) \/ ReadBlock(r, n) \/ Skip(r, n)
    \/ Step(r)
    \/ ClearBuffer(r)

-----------------------------------------------------------------------------
(***************************************************************************)
(* Properties.                                                             *)
(***************************************************************************)
TypeOK ==
  /\ length \in Nat /\ seekable \in BOOLEAN
  /\ mStream \in [pos : Nat, eof : BOOLEAN, fail : BOOLEAN]
  /\ mReadBuffer \in [Readers -> Seq(Nat)]
  /\ mReadIndex \in [Readers -> Nat] /\ mReadSize \in [Readers -> 0 .. BufferSize]
  /\ mCleanExit \in [Readers -> BOOLEAN]
  /\ turn \in Readers \cup {Nobody}
  /\ request \in [open : BOOLEAN, left : Nat, got : Seq(Nat)]
  /\ answer \in [to : {"nothing", "read", "block", "skip", "failed"}, bytes : Seq(Nat)]

\* What the stream has given to the buffers and nobody has used.
Ahead == IF turn = Nobody THEN 0 ELSE Diff(turn)

\* The buffer mirrors the stream just before its get position, so that
\* seeking back by what is left lands on the first unused byte
\* (ClearBuffer, bufferedStreamReader.h:53); and whatever follows a failed
\* read or seek, nothing is left in a buffer then.
BufferMirrorsStream ==
  /\ \A r \in Readers :
       /\ mReadIndex[r] <= mReadSize[r] /\ mReadSize[r] <= BufferSize
       /\ r # turn => Diff(r) = 0
  /\ turn # Nobody /\ Diff(turn) > 0 =>
       /\ ~mStream.fail
       /\ Buffered(turn, Diff(turn)) = Bytes(mStream.pos - Diff(turn) + 1, mStream.pos)

\* The position that the messages see.
Position ==
  IF mStream.fail THEN length
  ELSE Smaller(length, mStream.pos - Ahead - Len(request.got))


=============================================================================
