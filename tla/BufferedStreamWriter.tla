------------------------ MODULE BufferedStreamWriter ------------------------
(***************************************************************************)
(* BufferedStreamWriter and StreamWriter (stream/bufferedStreamWriter.h,   *)
(* streamWriter.cpp): several messages write to one std::ostream, each     *)
(* through a buffer of its own, one at a time.  A message that has had its *)
(* turn clears its buffer.                                                 *)
(*                                                                         *)
(* Bytes are numbered in the order in which the messages write them.       *)
(***************************************************************************)
EXTENDS Integers, Sequences

CONSTANTS
  Writers,
  BufferSize,     \* tBufferSize
  Sizes,          \* how many bytes a call may write
  MaxBytes,       \* bound on the bytes written
  Nobody

ASSUME WriterAssumption ==
  /\ BufferSize \in Nat /\ Sizes \subseteq Nat /\ MaxBytes \in Nat
  /\ Nobody \notin Writers

VARIABLES
  mWriteBuffer,     \* the first mWriteIndex bytes of the buffer of each writer
  mStream,          \* bytes the ostream has accepted and not passed on
  file,             \* bytes that a reader can see
  turn,             \* whose message is in use
  written           \* how many bytes the messages have written (history)

vars == <<mWriteBuffer, mStream, file, turn, written>>

Bytes(first, last) == [k \in 1 .. (last - first + 1) |-> first + k - 1]
mWriteIndex(w) == Len(mWriteBuffer[w])

Init ==
  /\ mWriteBuffer = [w \in Writers |-> <<>>]
  /\ mStream = <<>> /\ file = <<>>
  /\ turn = Nobody
  /\ written = 0

\* Slip: one byte too many is thought to fit.
Fits_OneMore(w, n) == n <= BufferSize - mWriteIndex(w) + 1
Fits(w, n) == n <= BufferSize - mWriteIndex(w)

\* Slip: the buffer is emptied, but not into the stream.
Spilled_Not(w) == <<>>
Spilled(w) == mWriteBuffer[w]

\* WriteBytes, and WritePrimitive, which comes to the same.  What does not
\* fit goes to the stream itself, after the buffer has been flushed.
WriteBytes(w, n) ==
  LET block == Bytes(written + 1, written + n)
  IN  /\ turn \in {w, Nobody} /\ written + n <= MaxBytes
      /\ turn' = w
      /\ written' = written + n
      /\ \/ /\ Fits(w, n)
            /\ mWriteBuffer' = [mWriteBuffer EXCEPT ![w] = @ \o block]
            /\ UNCHANGED <<mStream, file>>
         \/ /\ ~Fits(w, n)
            /\ mWriteBuffer' = [mWriteBuffer EXCEPT ![w] = <<>>]
            /\ file' = file \o mStream \o Spilled(w)
            /\ mStream' = block

\* Slip: the stream is not flushed.
Flushed_Not(accepted) == <<>>
Flushed(accepted) == accepted

\* By the caller between two messages, or by the destructor through Close.
ClearBuffer(w) ==
  /\ turn \in {w, Nobody}
  /\ LET accepted == mStream \o mWriteBuffer[w]
     IN  /\ file' = file \o Flushed(accepted)
         /\ mStream' = SubSeq(accepted, Len(Flushed(accepted)) + 1, Len(accepted))
  /\ mWriteBuffer' = [mWriteBuffer EXCEPT ![w] = <<>>]
  /\ turn' = Nobody
  /\ UNCHANGED written

\* The ostream passes bytes on when it likes.
PassOn ==
  /\ \E n \in 1 .. Len(mStream) :
       /\ file' = file \o SubSeq(mStream, 1, n)
       /\ mStream' = SubSeq(mStream, n + 1, Len(mStream))
  /\ UNCHANGED <<mWriteBuffer, turn, written>>

Next ==
  \/ \E w \in Writers : (\E n \in Sizes : WriteBytes(w, n)) \/ ClearBuffer(w)
  \/ PassOn

Spec == Init /\ [][Next]_vars

-----------------------------------------------------------------------------
(***************************************************************************)
(* Properties.                                                             *)
(***************************************************************************)
\* The buffers never hold more than they can.
TypeOK ==
  /\ mWriteBuffer \in [Writers -> Seq(Nat)]
  /\ \A w \in Writers : mWriteIndex(w) <= BufferSize
  /\ mStream \in Seq(Nat) /\ file \in Seq(Nat)
  /\ turn \in Writers \cup {Nobody}
  /\ written \in Nat

\* What the message in use has written and not sent on.
InBuffer == IF turn = Nobody THEN <<>> ELSE mWriteBuffer[turn]

\* No byte is lost, doubled or overtaken on its way through the two buffers,
\* from one message to the next (WriteBytes, bufferedStreamWriter.h:77).
InOrder ==
  /\ file \o mStream \o InBuffer = Bytes(1, written)
  /\ \A w \in Writers \ {turn} : mWriteBuffer[w] = <<>>

\* When no message is in use, a reader can see everything
\* (test/streamTest.cpp:28 reads what two messages have written).
AllVisible == turn = Nobody => file = Bytes(1, written)

\* Between two messages nothing is on its way.
Settled == turn = Nobody => mStream = <<>>

IInv == TypeOK /\ InOrder /\ Settled

=============================================================================
