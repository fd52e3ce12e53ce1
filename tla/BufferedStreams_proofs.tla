----------------------- MODULE BufferedStreams_proofs -----------------------
(***************************************************************************)
(* Proofs about BufferedStreams, for any numbers of writers and readers,   *)
(* any sizes of the buffers and of what is asked for, and streams of any   *)
(* length: what is written arrives in order, the buffer in use mirrors the *)
(* stream, and the readers together are one source of the bytes written.   *)
(***************************************************************************)
EXTENDS BufferedStreams, SequenceTheorems, TLAPS

-----------------------------------------------------------------------------
(***************************************************************************)
(* The writers (BufferedStreamWriter): their buffers never overflow, every *)
(* byte arrives once and in order, and all are visible between two         *)
(* messages.                                                               *)
(***************************************************************************)
\* Concatenation of sequences of bytes is associative.
LEMMA Associative ==
  ASSUME NEW s \in Seq(Nat), NEW t \in Seq(Nat), NEW u \in Seq(Nat)
  PROVE  (s \o t) \o u = s \o (t \o u)
  BY ConcatAssociative, SMTT(30)

\* What Bytes returns.
LEMMA BytesFacts ==
  ASSUME NEW m \in Nat, NEW n \in Nat
  PROVE  /\ Bytes(m + 1, m + n) \in Seq(Nat)
         /\ Len(Bytes(m + 1, m + n)) = n
         /\ \A i \in 1 .. n : Bytes(m + 1, m + n)[i] = m + i
<1>1. Bytes(m + 1, m + n) = [k \in 1 .. n |-> m + k]
  <2>1. (m + n) - (m + 1) + 1 = n
    OBVIOUS
  <2>2. \A k \in 1 .. n : m + 1 + k - 1 = m + k
    OBVIOUS
  <2> QED
    BY <2>1, <2>2 DEF Bytes
<1>2. [k \in 1 .. n |-> m + k] \in [1 .. n -> Nat]
  OBVIOUS
<1> QED
  BY <1>1, <1>2, SeqDef

LEMMA FirstBytes ==
  ASSUME NEW n \in Nat
  PROVE  /\ Bytes(1, n) \in Seq(Nat)
         /\ Len(Bytes(1, n)) = n
         /\ \A i \in 1 .. n : Bytes(1, n)[i] = i
<1>1. 0 \in Nat /\ 0 + 1 = 1 /\ 0 + n = n /\ \A i \in 1 .. n : 0 + i = i
  OBVIOUS
<1>2. /\ Bytes(0 + 1, 0 + n) \in Seq(Nat)
      /\ Len(Bytes(0 + 1, 0 + n)) = n
      /\ \A i \in 1 .. n : Bytes(0 + 1, 0 + n)[i] = 0 + i
  BY <1>1, BytesFacts
<1>3. Bytes(0 + 1, 0 + n) = Bytes(1, n)
  BY <1>1
<1> QED
  BY <1>1, <1>2, <1>3

\* The next n bytes follow those before them.
LEMMA BytesConcat ==
  ASSUME NEW m \in Nat, NEW n \in Nat
  PROVE  Bytes(1, m) \o Bytes(m + 1, m + n) = Bytes(1, m + n)
<1> DEFINE s == Bytes(1, m)
           t == Bytes(m + 1, m + n)
           u == Bytes(1, m + n)
<1>1. /\ s \in Seq(Nat) /\ Len(s) = m
      /\ \A i \in 1 .. m : s[i] = i
  BY FirstBytes
<1>2. /\ t \in Seq(Nat) /\ Len(t) = n
      /\ \A i \in 1 .. n : t[i] = m + i
  BY BytesFacts
<1>3. /\ u \in Seq(Nat) /\ Len(u) = m + n
      /\ \A i \in 1 .. m + n : u[i] = i
  BY FirstBytes, m + n \in Nat
<1> HIDE DEF s, t, u
<1>4. /\ s \o t \in Seq(Nat) /\ Len(s \o t) = m + n
      /\ \A i \in 1 .. m + n : (s \o t)[i] = IF i <= m THEN s[i] ELSE t[i - m]
  BY <1>1, <1>2, ConcatProperties
<1>5. ASSUME NEW i \in 1 .. m + n
      PROVE  (s \o t)[i] = u[i]
  <2>1. CASE i <= m
    BY <1>1, <1>3, <1>4, <2>1
  <2>2. CASE ~(i <= m)
    <3>1. i - m \in 1 .. n /\ m + (i - m) = i
      BY <2>2
    <3> QED
      BY <1>2, <1>3, <1>4, <2>2, <3>1
  <2> QED
    BY <2>1, <2>2
<1>6. s \o t = u
  BY <1>3, <1>4, <1>5, SeqEqual
<1> QED
  BY <1>6 DEF s, t, u

\* A writer whose turn it is, or may become, has in its buffer just what is
\* not sent on.
LEMMA TurnBuffer ==
  ASSUME InOrder, NEW w \in Writers, turn \in {w, Nobody}
  PROVE  InBuffer = mWriteBuffer[w]
  BY WriterAssumption DEF InOrder, InBuffer

-----------------------------------------------------------------------------
(***************************************************************************)
(* One lemma per action.                                                   *)
(***************************************************************************)
LEMMA WriteBytesStep ==
  ASSUME IInv, NEW w \in Writers, NEW n \in Sizes, WriteBytes(w, n)
  PROVE  IInv'
<1> DEFINE block == Bytes(written + 1, written + n)
<1>1. n \in Nat /\ BufferSize \in Nat /\ w # Nobody
  BY WriterAssumption
<1>2. /\ mWriteBuffer \in [Writers -> Seq(Nat)]
      /\ mStream \in Seq(Nat) /\ file \in Seq(Nat) /\ written \in Nat
      /\ mWriteBuffer[w] \in Seq(Nat)
  BY DEF IInv, TypeOK
<1>3. block \in Seq(Nat) /\ Len(block) = n
  BY <1>1, <1>2, BytesFacts
<1>4. turn \in {w, Nobody} /\ turn' = w /\ written' = written + n
  BY DEF WriteBytes
<1>5. /\ file \o mStream \o mWriteBuffer[w] = Bytes(1, written)
      /\ \A v \in Writers \ {w} : mWriteBuffer[v] = <<>>
  BY <1>4, TurnBuffer DEF IInv, InOrder
<1>6. Bytes(1, written) \o block = Bytes(1, written')
  BY <1>1, <1>2, <1>4, BytesConcat
<1> HIDE DEF block
<1>7. /\ file \o mStream \in Seq(Nat)
      /\ file \o mStream \o mWriteBuffer[w] \in Seq(Nat)
  BY <1>2, ConcatProperties
<1>8. CASE /\ Fits(w, n)
           /\ mWriteBuffer' = [mWriteBuffer EXCEPT ![w] = @ \o block]
           /\ UNCHANGED <<mStream, file>>
  <2>1. /\ mWriteBuffer[w] \o block \in Seq(Nat)
        /\ Len(mWriteBuffer[w] \o block) = Len(mWriteBuffer[w]) + n
    BY <1>2, <1>3, ConcatProperties
  <2>2. Len(mWriteBuffer[w] \o block) <= BufferSize
    BY <1>1, <1>2, <1>8, <2>1, LenProperties DEF Fits, mWriteIndex
  <2>3. TypeOK'
    BY <1>1, <1>2, <1>4, <1>8, <2>1, <2>2 DEF IInv, TypeOK, mWriteIndex
  <2>4. InBuffer' = mWriteBuffer[w] \o block
    BY <1>1, <1>2, <1>4, <1>8 DEF InBuffer
  <2>5. file \o mStream \o (mWriteBuffer[w] \o block) = Bytes(1, written')
    <3>1. (file \o mStream) \o (mWriteBuffer[w] \o block)
            = ((file \o mStream) \o mWriteBuffer[w]) \o block
      <4>1. file \o mStream \in Seq(Nat) /\ mWriteBuffer[w] \in Seq(Nat) /\ block \in Seq(Nat)
        BY <1>2, <1>3, <1>7
      <4> QED
        BY <4>1, Associative
    <3> QED
      BY <1>5, <1>6, <3>1
  <2>6. InOrder'
    BY <1>2, <1>4, <1>5, <1>8, <2>4, <2>5 DEF InOrder
  <2> QED
    BY <1>1, <1>4, <2>3, <2>6 DEF IInv, Settled
<1>9. CASE /\ ~Fits(w, n)
           /\ mWriteBuffer' = [mWriteBuffer EXCEPT ![w] = <<>>]
           /\ file' = file \o mStream \o mWriteBuffer[w]
           /\ mStream' = block
  <2>1. TypeOK'
    BY <1>1, <1>2, <1>3, <1>4, <1>7, <1>9 DEF IInv, TypeOK, mWriteIndex
  <2>2. InBuffer' = <<>>
    BY <1>1, <1>2, <1>4, <1>9 DEF InBuffer
  <2>3. file' \o mStream' = Bytes(1, written')
    BY <1>5, <1>6, <1>9
  <2>4. file' \o mStream' \o <<>> = file' \o mStream'
    BY <1>3, <1>7, <1>9, ConcatProperties, ConcatEmptySeq
  <2>5. InOrder'
    BY <1>2, <1>4, <1>5, <1>9, <2>2, <2>3, <2>4 DEF InOrder
  <2> QED
    BY <1>1, <1>4, <2>1, <2>5 DEF IInv, Settled
<1> QED
  BY <1>8, <1>9 DEF WriteBytes, Spilled, block

LEMMA ClearBufferStep ==
  ASSUME IInv, NEW w \in Writers, ClearBuffer(w)
  PROVE  IInv'
<1>1. /\ mWriteBuffer \in [Writers -> Seq(Nat)]
      /\ mStream \in Seq(Nat) /\ file \in Seq(Nat) /\ written \in Nat
      /\ mWriteBuffer[w] \in Seq(Nat)
  BY DEF IInv, TypeOK
<1> DEFINE accepted == mStream \o mWriteBuffer[w]
<1>2. accepted \in Seq(Nat) /\ Len(accepted) \in Nat
  BY <1>1, ConcatProperties, LenProperties
<1>3. SubSeq(accepted, Len(accepted) + 1, Len(accepted)) = <<>>
  BY <1>2, SubSeqEmpty
<1>4. /\ turn \in {w, Nobody} /\ turn' = Nobody /\ written' = written
      /\ file' = file \o accepted /\ mStream' = <<>>
      /\ mWriteBuffer' = [mWriteBuffer EXCEPT ![w] = <<>>]
  BY <1>3 DEF ClearBuffer, Flushed
<1>5. /\ file \o mStream \o mWriteBuffer[w] = Bytes(1, written)
      /\ \A v \in Writers \ {w} : mWriteBuffer[v] = <<>>
  BY <1>4, TurnBuffer DEF IInv, InOrder
<1> HIDE DEF accepted
<1>6. file' \in Seq(Nat)
  BY <1>1, <1>2, <1>4, ConcatProperties
<1>7. TypeOK'
  BY <1>1, <1>4, <1>6, WriterAssumption DEF IInv, TypeOK, mWriteIndex
<1>8. file' = Bytes(1, written')
  BY <1>1, <1>4, <1>5, Associative DEF accepted
<1>9. InBuffer' = <<>>
  BY <1>4 DEF InBuffer
<1>10. file' \o mStream' \o InBuffer' = file'
  BY <1>4, <1>6, <1>9, ConcatEmptySeq
<1>11. \A v \in Writers : mWriteBuffer'[v] = <<>>
  BY <1>1, <1>4, <1>5
<1> QED
  BY <1>4, <1>7, <1>8, <1>10, <1>11 DEF IInv, InOrder, Settled

LEMMA PassOnStep ==
  ASSUME IInv, PassOn
  PROVE  IInv'
<1>1. PICK n \in 1 .. Len(mStream) :
         /\ file' = file \o SubSeq(mStream, 1, n)
         /\ mStream' = SubSeq(mStream, n + 1, Len(mStream))
  BY DEF PassOn
<1>2. /\ mStream \in Seq(Nat) /\ file \in Seq(Nat) /\ Len(mStream) \in Nat
      /\ UNCHANGED <<mWriteBuffer, turn, written>>
  BY LenProperties DEF IInv, TypeOK, PassOn
<1>3. /\ SubSeq(mStream, 1, n) \in Seq(Nat)
      /\ SubSeq(mStream, n + 1, Len(mStream)) \in Seq(Nat)
  <2>1. \A i \in 1 .. Len(mStream) : mStream[i] \in Nat
    BY <1>2, ElementOfSeq
  <2> QED
    BY <1>2, <2>1, SubSeqProperties
<1>4. SubSeq(mStream, 1, n) \o SubSeq(mStream, n + 1, Len(mStream)) = mStream
  BY <1>2, ConcatAdjacentSubSeq, SubSeqFull
<1>5. file' \o mStream' = file \o mStream
  <2> DEFINE sent == SubSeq(mStream, 1, n)
             kept == SubSeq(mStream, n + 1, Len(mStream))
  <2>1. file \in Seq(Nat) /\ sent \in Seq(Nat) /\ kept \in Seq(Nat)
    BY <1>2, <1>3
  <2> HIDE DEF sent, kept
  <2>2. (file \o sent) \o kept = file \o (sent \o kept)
    BY <2>1, Associative
  <2> QED
    BY <1>1, <1>4, <2>2 DEF sent, kept
<1>6. file' \in Seq(Nat) /\ mStream' \in Seq(Nat)
  BY <1>1, <1>2, <1>3, ConcatProperties
<1>7. turn # Nobody
  BY <1>1 DEF IInv, Settled
<1> QED
  BY <1>2, <1>5, <1>6, <1>7 DEF IInv, TypeOK, mWriteIndex, InOrder, InBuffer, Settled

LEMMA WriterStarts == Init => IInv
<1> SUFFICES ASSUME Init PROVE IInv
  OBVIOUS
<1>1. TypeOK
  BY WriterAssumption, EmptySeq DEF Init, TypeOK, mWriteIndex
<1>2. Bytes(1, 0) = <<>>
  <2>1. Bytes(1, 0) \in Seq(Nat) /\ Len(Bytes(1, 0)) = 0
    BY FirstBytes
  <2> QED
    BY <2>1, EmptySeq
<1>3. <<>> \o <<>> \o <<>> = <<>>
  BY EmptySeq, ConcatEmptySeq
<1>4. InOrder
  BY <1>2, <1>3 DEF Init, InOrder, InBuffer
<1> QED
  BY <1>1, <1>4 DEF Init, IInv, Settled

LEMMA WriterStep == IInv /\ [Next]_vars => IInv'
<1> SUFFICES ASSUME IInv, [Next]_vars PROVE IInv'
  OBVIOUS
<1>1. ASSUME NEW w \in Writers, NEW n \in Sizes, WriteBytes(w, n) PROVE IInv'
  BY <1>1, WriteBytesStep
<1>2. ASSUME NEW w \in Writers, ClearBuffer(w) PROVE IInv'
  BY <1>2, ClearBufferStep
<1>3. CASE PassOn
  BY <1>3, PassOnStep
<1>4. CASE UNCHANGED vars
  BY <1>4 DEF vars, IInv, TypeOK, mWriteIndex, InOrder, InBuffer, Settled
<1> QED
  BY <1>1, <1>2, <1>3, <1>4 DEF Next

LEMMA VisibleIs == IInv => AllVisible
<1> SUFFICES ASSUME IInv, turn = Nobody PROVE file = Bytes(1, written)
  BY DEF AllVisible
<1>1. file \in Seq(Nat) /\ mStream = <<>> /\ InBuffer = <<>>
  BY DEF IInv, TypeOK, Settled, InBuffer
<1> QED
  BY <1>1, ConcatEmptySeq DEF IInv, InOrder

-----------------------------------------------------------------------------
\* In every reachable state the bytes written are, in this order, those that
\* a reader can see, those the ostream holds and those in the buffer of the
\* message in use, and no buffer holds more than it can.
THEOREM WriterInvariant == Spec => []IInv
  BY WriterStarts, WriterStep, PTL DEF Spec

\* No byte is lost, doubled or overtaken.
THEOREM WriterInOrder == Spec => []InOrder
<1>1. IInv => InOrder
  BY DEF IInv
<1> QED
  BY <1>1, WriterInvariant, PTL

\* Between two messages a reader of the stream can see all that was written.
THEOREM WriterVisible == Spec => []AllVisible
  BY VisibleIs, WriterInvariant, PTL

-----------------------------------------------------------------------------
(***************************************************************************)
(* The readers, and both together.                                         *)
(***************************************************************************)
pos == mIStream.pos
Ahead == Reader!Ahead
Diff(r) == Reader!Diff(r)
Got == Len(request.got)

-----------------------------------------------------------------------------
(***************************************************************************)
(* The inductive invariant.                                                *)
(***************************************************************************)
\* The end of the stream has been seen only where it is.
StreamInv ==
  /\ length \in Nat /\ seekable \in BOOLEAN
  /\ mIStream \in [pos : Nat, eof : BOOLEAN, fail : BOOLEAN]
  /\ mIStream.eof => mIStream.fail /\ pos >= length

BuffersInv ==
  /\ mReadBuffer \in [Readers -> Seq(Nat)]
  /\ mReadIndex \in [Readers -> Nat] /\ mReadSize \in [Readers -> 0 .. BufferSize]
  /\ \A r \in Readers : mReadIndex[r] <= mReadSize[r] /\ mReadSize[r] <= Len(mReadBuffer[r])
  /\ mCleanExit \in [Readers -> BOOLEAN]
  /\ reading \in Readers \cup {Nobody}
  /\ \A r \in Readers \ {reading} : mReadIndex[r] = mReadSize[r]

\* What has been read ahead, the part of it that a ReadBytes has taken
\* included, are the bytes just before the get position.
MirrorInv ==
  /\ Ahead > 0 \/ Got > 0 => ~mIStream.fail /\ Ahead + Got <= pos /\ pos <= length
  /\ reading # Nobody =>
       \A k \in 1 .. Ahead : mReadBuffer[reading][mReadIndex[reading] + k] = pos - Ahead + k
  /\ \A k \in 1 .. Got : request.got[k] = pos - Ahead - Got + k

RequestInv ==
  /\ request \in [open : BOOLEAN, left : Nat, got : Seq(Nat)]
  /\ request.open => reading # Nobody /\ request.left + Got \in ReadSizes
  /\ ~request.open => request.got = <<>>

AnswerInv ==
  answer \in [to : {"nothing", "read", "block", "skip", "failed"}, bytes : Seq(1 .. length)]

ReaderInv == StreamInv /\ BuffersInv /\ MirrorInv /\ RequestInv /\ AnswerInv

\* Nobody writes while others read.
PhaseInv ==
  /\ opened \in BOOLEAN
  /\ opened => turn = Nobody /\ length = Len(file)
  /\ ~opened => length = 0 /\ Reader!Unused

StreamsInv == IInv /\ PhaseInv /\ ReaderInv

-----------------------------------------------------------------------------
(***************************************************************************)
(* Facts about the definitions.                                            *)
(***************************************************************************)
LEMMA Sizes0 == /\ BufferSize \in Nat /\ FillSize \in 1 .. BufferSize
                /\ ReadSizes \subseteq Nat /\ Nobody \notin Readers
                /\ Lengths \subseteq Nat
  BY StreamsAssumption DEF Reader!ReaderAssumption

\* A sequence of consecutive bytes is what Bytes says it is.
LEMMA BytesAre ==
  ASSUME NEW s \in Seq(Nat), NEW p \in Nat, NEW n \in Nat, Len(s) = n,
         \A k \in 1 .. n : s[k] = p + k
  PROVE  s = Bytes(p + 1, p + n) /\ s = Reader!Bytes(p + 1, p + n) /\ s = Source!Bytes(p + 1, p + n)
<1>1. s = Bytes(p + 1, p + n)
  BY BytesFacts, SeqEqual
<1> QED
  BY <1>1 DEF Bytes, Reader!Bytes, Source!Bytes

LEMMA ReaderBytesFacts ==
  ASSUME NEW p \in Nat, NEW n \in Nat
  PROVE  /\ Reader!Bytes(p + 1, p + n) \in Seq(Nat)
         /\ Len(Reader!Bytes(p + 1, p + n)) = n
         /\ \A k \in 1 .. n : Reader!Bytes(p + 1, p + n)[k] = p + k
  BY BytesFacts DEF Bytes, Reader!Bytes

\* Consecutive bytes up to the end are bytes of the stream.
LEMMA Within ==
  ASSUME NEW s \in Seq(Nat), NEW p \in Nat, NEW n \in Nat, Len(s) = n,
         \A k \in 1 .. n : s[k] = p + k, NEW len \in Nat, p + n <= len
  PROVE  s \in Seq(1 .. len)
<1>1. \A k \in 1 .. Len(s) : s[k] \in 1 .. len
  OBVIOUS
<1> QED
  BY <1>1, SeqDef, LenProperties

LEMMA DiffIs ==
  ASSUME BuffersInv, NEW r \in Readers
  PROVE  /\ Diff(r) = mReadSize[r] - mReadIndex[r]
         /\ Diff(r) \in 0 .. BufferSize
         /\ mReadIndex[r] \in Nat /\ mReadSize[r] \in 0 .. BufferSize
         /\ mReadBuffer[r] \in Seq(Nat) /\ mReadSize[r] <= Len(mReadBuffer[r])
         /\ r # reading => Diff(r) = 0
  BY Sizes0 DEF BuffersInv, Diff, Reader!Diff

LEMMA AheadIs ==
  ASSUME BuffersInv
  PROVE  /\ Ahead \in 0 .. BufferSize
         /\ reading # Nobody => Ahead = Diff(reading)
         /\ \A r \in Readers : reading \in {r, Nobody} => Ahead = Diff(r)
<1>1. Ahead = IF reading = Nobody THEN 0 ELSE Diff(reading)
  BY DEF Ahead, Reader!Ahead, Diff
<1>2. reading = Nobody \/ reading \in Readers
  BY DEF BuffersInv
<1> QED
  BY <1>1, <1>2, DiffIs, Sizes0

LEMMA PositionIs ==
  ASSUME ReaderInv
  PROVE  /\ Reader!Position \in 0 .. length
         /\ mIStream.fail => Reader!Position = length
         /\ ~mIStream.fail /\ pos - Ahead - Got <= length => Reader!Position = pos - Ahead - Got
         /\ ~mIStream.fail /\ pos - Ahead - Got >= length => Reader!Position = length
         /\ Got \in Nat
<1>1. Got \in Nat /\ pos \in Nat /\ length \in Nat /\ Ahead \in Nat /\ mIStream.fail \in BOOLEAN
  BY AheadIs, LenProperties, Sizes0 DEF ReaderInv, RequestInv, StreamInv, pos, Got
<1>2. Reader!Position = IF mIStream.fail THEN length
                        ELSE IF length < pos - Ahead - Got THEN length ELSE pos - Ahead - Got
  BY DEF Reader!Position, Reader!Smaller, pos, Ahead, Got
<1>3. ~mIStream.fail => pos - Ahead - Got >= 0
  BY <1>1 DEF ReaderInv, MirrorInv
<1> QED
  BY <1>1, <1>2, <1>3

\* What the next n bytes of a buffer are.
LEMMA BufferedIs ==
  ASSUME ReaderInv, NEW r \in Readers, reading \in {r, Nobody}, NEW n \in 0 .. Diff(r)
  PROVE  /\ Reader!Buffered(r, n) \in Seq(Nat)
         /\ Len(Reader!Buffered(r, n)) = n
         /\ \A k \in 1 .. n : Reader!Buffered(r, n)[k] = pos - Ahead + k
<1> DEFINE b == mReadBuffer[r]
           i == mReadIndex[r]
<1>1. /\ b \in Seq(Nat) /\ i \in Nat /\ n \in Nat
      /\ i + n <= Len(b) /\ Len(b) \in Nat
      /\ Ahead = Diff(r) /\ Diff(r) \in Nat
  BY DiffIs, AheadIs, Sizes0, LenProperties DEF ReaderInv
<1>2. Reader!Buffered(r, n) = SubSeq(b, i + 1, i + n)
  BY DEF Reader!Buffered
<1>3. \A k \in 1 .. n : b[i + k] = pos - Ahead + k
  <2>1. CASE n = 0
    BY <2>1
  <2>2. CASE n > 0
    <3>1. reading = r /\ r # Nobody
      BY <2>2, DiffIs, Sizes0 DEF ReaderInv
    <3> QED
      BY <1>1, <3>1 DEF ReaderInv, MirrorInv
  <2> QED
    BY <1>1, <2>1, <2>2
<1> HIDE DEF b, i
<1>4. /\ SubSeq(b, i + 1, i + n) \in Seq(Nat)
      /\ Len(SubSeq(b, i + 1, i + n)) = n
      /\ \A k \in 1 .. n : SubSeq(b, i + 1, i + n)[k] = b[i + k]
  <2>1. \A j \in 1 .. Len(b) : b[j] \in Nat
    BY <1>1, ElementOfSeq
  <2> QED
    BY <1>1, <2>1, SubSeqProperties
<1> QED
  BY <1>2, <1>3, <1>4

-----------------------------------------------------------------------------
(***************************************************************************)
(* What the calls have in common.                                          *)
(***************************************************************************)
fixed == <<length, seekable>>
NoRequest == [open |-> FALSE, left |-> 0, got |-> <<>>]

\* A call ends within the buffer.
LEMMA Advance ==
  ASSUME ReaderInv, NEW r \in Readers, reading \in {r, Nobody}, NEW n \in 0 .. Diff(r),
         UNCHANGED <<fixed, mIStream, mReadBuffer, mReadSize, mCleanExit>>,
         mReadIndex' = [mReadIndex EXCEPT ![r] = mReadIndex[r] + n],
         reading' = r, ~request'.open, request' \in {request, NoRequest}
  PROVE  /\ StreamInv' /\ BuffersInv' /\ MirrorInv' /\ RequestInv'
         /\ Reader!Position' = Reader!Position + Got + n
         /\ Reader!Position + Got + n <= length
<1>1. /\ Ahead = Diff(r) /\ Ahead \in Nat /\ Got \in Nat /\ pos \in Nat /\ length \in Nat
      /\ n \in Nat /\ r # Nobody /\ mReadIndex[r] \in Nat /\ mReadSize[r] \in Nat
      /\ Diff(r) = mReadSize[r] - mReadIndex[r]
  BY AheadIs, PositionIs, DiffIs, Sizes0, SMTT(30) DEF ReaderInv, StreamInv, pos
<1>2. StreamInv'
  BY DEF ReaderInv, StreamInv, fixed, pos
<1>3. BuffersInv'
  BY <1>1, DiffIs, Sizes0, SMTT(30) DEF ReaderInv, BuffersInv
<1>4. request' \in [open : BOOLEAN, left : Nat, got : Seq(Nat)] /\ request'.got = <<>>
  <2>1. CASE request' = request
    BY <2>1 DEF ReaderInv, RequestInv
  <2>2. CASE request' = NoRequest
    BY <2>2, EmptySeq DEF NoRequest
  <2> QED
    BY <2>1, <2>2
<1>5. RequestInv' /\ request'.got = <<>> /\ Got' = 0
  BY <1>4, EmptySeq DEF RequestInv, Got
<1>6. Ahead' = Ahead - n
  BY <1>1 DEF ReaderInv, BuffersInv, Ahead, Reader!Ahead, Reader!Diff
<1>7. pos' = pos /\ mIStream'.fail = mIStream.fail /\ length' = length
  BY DEF pos, fixed
<1>8. Ahead > 0 \/ Got > 0 => ~mIStream.fail /\ Ahead + Got <= pos /\ pos <= length
  BY DEF ReaderInv, MirrorInv
<1>9. MirrorInv'
  <2>1. Ahead' > 0 \/ Got' > 0 => ~mIStream'.fail /\ Ahead' + Got' <= pos' /\ pos' <= length'
    BY <1>1, <1>5, <1>6, <1>7, <1>8
  <2>2. ASSUME NEW k \in 1 .. Ahead'
        PROVE  mReadBuffer'[reading'][mReadIndex'[reading'] + k] = pos' - Ahead' + k
    <3>1. reading = r
      BY <1>1, <1>6, DiffIs, <2>2 DEF ReaderInv
    <3>2. n + k \in 1 .. Ahead /\ (mReadIndex[r] + n) + k = mReadIndex[r] + (n + k)
      BY <1>1, <1>6
    <3>3. mReadBuffer[r][mReadIndex[r] + (n + k)] = pos - Ahead + (n + k)
      BY <1>1, <3>1, <3>2 DEF ReaderInv, MirrorInv
    <3>4. mReadIndex'[r] = mReadIndex[r] + n
      BY DEF ReaderInv, BuffersInv
    <3> QED
      BY <1>1, <1>6, <1>7, <3>2, <3>3, <3>4
  <2>3. \A k \in 1 .. Got' : request'.got[k] = pos' - Ahead' - Got' + k
    BY <1>5
  <2> QED
    BY <2>1, <2>2, <2>3 DEF MirrorInv
<1>10. Reader!Position' = IF mIStream.fail THEN length
                          ELSE IF length < pos - (Ahead - n) - 0 THEN length ELSE pos - (Ahead - n) - 0
  BY <1>5, <1>6, <1>7 DEF Reader!Position, Reader!Smaller, pos, Ahead, Got
<1>11. Reader!Position' = Reader!Position + Got + n /\ Reader!Position + Got + n <= length
  <2>1. CASE mIStream.fail
    <3>1. Reader!Position = length /\ Reader!Position' = length
      BY <1>10, <2>1, PositionIs
    <3>2. Ahead = 0 /\ Got = 0
      BY <1>1, <1>8, <2>1
    <3> QED
      BY <1>1, <3>1, <3>2
  <2>2. CASE ~mIStream.fail
    <3>1. Reader!Position' = IF length < pos - (Ahead - n) - 0 THEN length ELSE pos - (Ahead - n) - 0
      BY <1>10, <2>2
    <3>2. /\ pos - Ahead - Got <= length => Reader!Position = pos - Ahead - Got
          /\ pos - Ahead - Got >= length => Reader!Position = length
      BY <2>2, PositionIs
    <3>3. Ahead > 0 \/ Got > 0 => Ahead + Got <= pos /\ pos <= length
      BY <1>8
    <3> QED
      BY <1>1, <3>1, <3>2, <3>3
  <2> QED
    BY <2>1, <2>2
<1> QED
  BY <1>2, <1>3, <1>5, <1>9, <1>11

\* A call uses all of the buffer, and the stream.
LEMMA Drain ==
  ASSUME ReaderInv, NEW r \in Readers, reading \in {r, Nobody}, ~request.open,
         UNCHANGED <<fixed, mReadBuffer, mReadSize, mCleanExit, request>>,
         mReadIndex' = [mReadIndex EXCEPT ![r] = mReadSize[r]],
         reading' = r,
         mIStream' \in [pos : Nat, eof : BOOLEAN, fail : BOOLEAN],
         mIStream'.eof => mIStream'.fail /\ pos' >= length
  PROVE  /\ StreamInv' /\ BuffersInv' /\ MirrorInv' /\ RequestInv'
         /\ mIStream'.fail => Reader!Position' = length
         /\ ~mIStream'.fail /\ pos' <= length => Reader!Position' = pos'
         /\ ~mIStream'.fail /\ pos' >= length => Reader!Position' = length
<1>1. r # Nobody /\ mReadSize[r] \in Nat /\ length \in Nat /\ pos' \in Nat
  BY DiffIs, Sizes0 DEF ReaderInv, StreamInv, pos
<1>2. StreamInv'
  BY DEF ReaderInv, StreamInv, fixed
<1>3. BuffersInv'
  BY <1>1, DiffIs, Sizes0 DEF ReaderInv, BuffersInv
<1>4. request.got = <<>> /\ Got = 0 /\ Got' = 0
  BY EmptySeq DEF ReaderInv, RequestInv, Got
<1>5. RequestInv'
  BY <1>4 DEF ReaderInv, RequestInv, Got
<1>6. Ahead' = 0
  BY <1>1 DEF ReaderInv, BuffersInv, Ahead, Reader!Ahead, Reader!Diff
<1>7. MirrorInv'
  BY <1>4, <1>6 DEF MirrorInv
<1>8. Reader!Position' = IF mIStream'.fail THEN length
                         ELSE IF length < pos' - 0 - 0 THEN length ELSE pos' - 0 - 0
  BY <1>4, <1>6 DEF Reader!Position, Reader!Smaller, pos, Ahead, Got, fixed
<1>9. mIStream'.fail => Reader!Position' = length
  BY <1>8
<1>10. ~mIStream'.fail => Reader!Position' = IF length < pos' - 0 - 0 THEN length ELSE pos' - 0 - 0
  BY <1>8
<1>11. /\ ~mIStream'.fail /\ pos' <= length => Reader!Position' = pos'
       /\ ~mIStream'.fail /\ pos' >= length => Reader!Position' = length
  <2> SUFFICES ASSUME ~mIStream'.fail
               PROVE  /\ pos' <= length => Reader!Position' = pos'
                      /\ pos' >= length => Reader!Position' = length
    OBVIOUS
  <2>1. PICK q \in Nat : q = pos'
    BY <1>1
  <2>2. Reader!Position' = IF length < q - 0 - 0 THEN length ELSE q - 0 - 0
    BY <1>10, <2>1
  <2>3. /\ q <= length => Reader!Position' = q
        /\ q >= length => Reader!Position' = length
    BY <1>1, <2>2
  <2> QED
    BY <2>1, <2>3
<1> QED
  BY <1>2, <1>3, <1>5, <1>7, <1>9, <1>11

\* What a read of the stream delivers.
LEMMA CountIs ==
  ASSUME ReaderInv, NEW n \in Nat
  PROVE  /\ Reader!Count(n) \in 0 .. n
         /\ Reader!Count(n) > 0 => ~mIStream.fail /\ pos + Reader!Count(n) <= length
         /\ Reader!Count(n) < n => mIStream.fail \/ pos + Reader!Count(n) >= length
         /\ Reader!AfterRead(n) \in [pos : Nat, eof : BOOLEAN, fail : BOOLEAN]
         /\ Reader!AfterRead(n).pos = pos + Reader!Count(n)
         /\ Reader!AfterRead(n).eof => Reader!AfterRead(n).fail /\ pos + Reader!Count(n) >= length
         /\ Reader!AfterRead(n).fail <=> mIStream.fail \/ Reader!Count(n) < n
         /\ mIStream.eof => mIStream.fail
         /\ ~mIStream.fail => (Reader!AfterRead(n).eof <=> Reader!AfterRead(n).fail)
<1>1. /\ pos \in Nat /\ length \in Nat /\ mIStream.eof \in BOOLEAN /\ mIStream.fail \in BOOLEAN
      /\ mIStream.eof => mIStream.fail /\ pos >= length
  BY DEF ReaderInv, StreamInv, pos
<1>2. Reader!Good <=> ~mIStream.fail
  BY <1>1 DEF Reader!Good
<1>3. Reader!Count(n) = IF ~mIStream.fail /\ pos < length
                        THEN IF n < length - pos THEN n ELSE length - pos ELSE 0
  BY <1>1, <1>2 DEF Reader!Count, Reader!Smaller, pos
<1> DEFINE c == Reader!Count(n)
<1>4. Reader!AfterRead(n) = [pos |-> pos + c, eof |-> mIStream.eof \/ (~mIStream.fail /\ c < n),
                             fail |-> mIStream.fail \/ mIStream.fail \/ c < n]
  BY <1>2 DEF Reader!AfterRead, pos
<1>5. /\ c \in 0 .. n
      /\ c > 0 => ~mIStream.fail /\ pos + c <= length
      /\ c < n => mIStream.fail \/ pos + c >= length
  BY <1>1, <1>3
<1> HIDE DEF c
<1>6. /\ Reader!AfterRead(n).pos = pos + c
      /\ Reader!AfterRead(n).eof <=> mIStream.eof \/ (~mIStream.fail /\ c < n)
      /\ Reader!AfterRead(n).fail <=> mIStream.fail \/ c < n
      /\ Reader!AfterRead(n) \in [pos : Nat, eof : BOOLEAN, fail : BOOLEAN]
  <2> DEFINE e == mIStream.eof \/ (~mIStream.fail /\ c < n)
             f == mIStream.fail \/ mIStream.fail \/ c < n
  <2>1. pos + c \in Nat /\ e \in BOOLEAN /\ f \in BOOLEAN
    BY <1>1, <1>5
  <2>2. f <=> mIStream.fail \/ c < n
    OBVIOUS
  <2>3. Reader!AfterRead(n) = [pos |-> pos + c, eof |-> e, fail |-> f]
    BY <1>4
  <2> HIDE DEF f, e
  <2>4. /\ Reader!AfterRead(n).pos = pos + c
        /\ Reader!AfterRead(n).eof = e
        /\ Reader!AfterRead(n).fail = f
        /\ Reader!AfterRead(n) \in [pos : Nat, eof : BOOLEAN, fail : BOOLEAN]
    BY <2>1, <2>3
  <2> QED
    BY <2>2, <2>4 DEF e
<1>7. mIStream.eof \/ (~mIStream.fail /\ c < n) => pos + c >= length
  BY <1>1, <1>5
<1>8. /\ c \in 0 .. n
      /\ c > 0 => ~mIStream.fail /\ pos + c <= length
      /\ c < n => mIStream.fail \/ pos + c >= length
      /\ Reader!AfterRead(n) \in [pos : Nat, eof : BOOLEAN, fail : BOOLEAN]
      /\ Reader!AfterRead(n).pos = pos + c
      /\ Reader!AfterRead(n).eof => Reader!AfterRead(n).fail /\ pos + c >= length
      /\ Reader!AfterRead(n).fail <=> mIStream.fail \/ c < n
      /\ mIStream.eof => mIStream.fail
      /\ ~mIStream.fail => (Reader!AfterRead(n).eof <=> Reader!AfterRead(n).fail)
  BY <1>1, <1>5, <1>6, <1>7
<1> QED
  BY <1>8 DEF c

LEMMA StoredIs ==
  ASSUME ReaderInv, NEW n \in Nat
  PROVE  /\ Reader!Stored(n) \in Seq(Nat)
         /\ Len(Reader!Stored(n)) = Reader!Count(n)
         /\ \A k \in 1 .. Reader!Count(n) : Reader!Stored(n)[k] = pos + k
<1>1. pos \in Nat /\ Reader!Count(n) \in Nat
  BY CountIs DEF ReaderInv, StreamInv, pos
<1>2. Reader!Stored(n) = Reader!Bytes(pos + 1, pos + Reader!Count(n))
  BY DEF Reader!Stored, pos
<1> QED
  BY <1>1, <1>2, ReaderBytesFacts, ZenonT(60)

LEMMA SeekIs ==
  ASSUME ReaderInv, NEW offset \in Int, pos + offset >= 0
  PROVE  LET s == Reader!AfterSeekG(offset)
         IN  /\ s \in [pos : Nat, eof : BOOLEAN, fail : BOOLEAN]
             /\ ~s.eof
             /\ mIStream.fail => s.fail
             /\ ~mIStream.fail /\ s.fail => pos + offset > length
             /\ ~s.fail => s.pos = pos + offset
<1>1. /\ pos \in Nat /\ length \in Nat /\ mIStream.fail \in BOOLEAN /\ seekable \in BOOLEAN
  BY DEF ReaderInv, StreamInv, pos
<1> DEFINE refused == pos + offset > length /\ ~seekable
           p == IF mIStream.fail \/ refused THEN pos ELSE pos + offset
           f == mIStream.fail \/ refused
<1>2. Reader!AfterSeekG(offset) = [pos |-> p, eof |-> FALSE, fail |-> f]
  BY DEF Reader!AfterSeekG, pos
<1>3. /\ p \in Nat /\ f \in BOOLEAN
      /\ mIStream.fail => f
      /\ ~mIStream.fail /\ f => pos + offset > length
      /\ ~f => p = pos + offset
  BY <1>1
<1> HIDE DEF p, f, refused
<1>4. /\ Reader!AfterSeekG(offset).pos = p
      /\ Reader!AfterSeekG(offset).eof = FALSE
      /\ Reader!AfterSeekG(offset).fail = f
      /\ Reader!AfterSeekG(offset) \in [pos : Nat, eof : BOOLEAN, fail : BOOLEAN]
  BY <1>2, <1>3
<1> QED
  BY <1>3, <1>4

LEMMA ClearedIs ==
  ASSUME NEW s \in [pos : Nat, eof : BOOLEAN, fail : BOOLEAN]
  PROVE  LET t == Reader!ClearEOF(s)
         IN  /\ t \in [pos : Nat, eof : BOOLEAN, fail : BOOLEAN]
             /\ t.pos = s.pos /\ ~t.eof
             /\ t.fail <=> s.fail /\ ~s.eof
<1>1. CASE s.eof
  BY <1>1 DEF Reader!ClearEOF
<1>2. CASE ~s.eof
  <2>1. Reader!ClearEOF(s) = s
    BY <1>2 DEF Reader!ClearEOF
  <2> QED
    BY <1>2, <2>1
<1> QED
  BY <1>1, <1>2

-----------------------------------------------------------------------------
(***************************************************************************)
(* One lemma per call: what it keeps, and what it delivers.                *)
(***************************************************************************)
P == Reader!Position
Delivers(to, m) ==
  /\ answer' = [to |-> to, bytes |-> Reader!Bytes(P + 1, P + m)]
  /\ P' = P + m
Reaches(to, n) ==
  \E m \in 0 .. n : /\ Delivers(to, m) /\ P + m <= length
                    /\ m < n => P + m = length
Fails(n) == P + n > length /\ answer' = [to |-> "failed", bytes |-> <<>>] /\ P' = length
SkipsTo(n) ==
  /\ answer' = [to |-> "skip", bytes |-> <<>>]
  /\ P + n <= length => P' = P + n
  /\ P + n >= length => P' = length
Kinds == {"nothing", "read", "block", "skip", "failed"}

LEMMA AnswerKept ==
  ASSUME ReaderInv, UNCHANGED fixed, NEW to \in Kinds, NEW s \in Seq(1 .. length),
         answer' = [to |-> to, bytes |-> s]
  PROVE  AnswerInv'
  BY DEF AnswerInv, Kinds, fixed

LEMMA AnswerBytes ==
  ASSUME ReaderInv, UNCHANGED fixed, NEW to \in Kinds, NEW m \in Nat, P + m <= length,
         NEW s \in Seq(Nat), Len(s) = m, \A k \in 1 .. m : s[k] = P + k,
         answer' = [to |-> to, bytes |-> s]
  PROVE  AnswerInv' /\ answer' = [to |-> to, bytes |-> Reader!Bytes(P + 1, P + m)]
<1>1. P \in Nat /\ length \in Nat
  BY PositionIs DEF P, ReaderInv, StreamInv
<1>2. s = Reader!Bytes(P + 1, P + m) /\ s \in Seq(1 .. length)
  BY <1>1, BytesAre, Within
<1> QED
  BY <1>2, AnswerKept

\* A call that finds in the buffer what it wants.
LEMMA BufferedAnswer ==
  ASSUME ReaderInv, NEW r \in Readers, reading \in {r, Nobody}, NEW n \in 0 .. Diff(r),
         ~request.open, UNCHANGED fixed, NEW to \in Kinds, P + n <= length,
         answer' = [to |-> to, bytes |-> Reader!Buffered(r, n)]
  PROVE  AnswerInv' /\ answer' = [to |-> to, bytes |-> Reader!Bytes(P + 1, P + n)]
<1>1. /\ Ahead = Diff(r) /\ Diff(r) \in Nat /\ n \in Nat /\ pos \in Nat /\ length \in Nat
  BY AheadIs, DiffIs, Sizes0 DEF ReaderInv, StreamInv, pos
<1>2. Got = 0
  BY EmptySeq DEF ReaderInv, RequestInv, Got
<1>3. n > 0 => P = pos - Ahead
  <2> SUFFICES ASSUME n > 0 PROVE P = pos - Ahead
    OBVIOUS
  <2>1. Ahead > 0
    BY <1>1
  <2>2. ~mIStream.fail /\ Ahead + Got <= pos /\ pos <= length
    BY <2>1 DEF ReaderInv, MirrorInv
  <2>3. pos - Ahead - Got <= length /\ pos - Ahead - Got = pos - Ahead
    BY <1>1, <1>2, <2>2
  <2> QED
    BY <2>2, <2>3, PositionIs DEF P
<1>4. /\ Reader!Buffered(r, n) \in Seq(Nat) /\ Len(Reader!Buffered(r, n)) = n
      /\ \A k \in 1 .. n : Reader!Buffered(r, n)[k] = P + k
  <2>1. ASSUME NEW k \in 1 .. n PROVE Reader!Buffered(r, n)[k] = P + k
    <3>1. n > 0
      BY <1>1
    <3> QED
      BY <1>3, <3>1, BufferedIs
  <2> QED
    BY <2>1, BufferedIs
<1> QED
  BY <1>1, <1>4, AnswerBytes

LEMMA ReadPrimitiveStep ==
  ASSUME ReaderInv, NEW r \in Readers, NEW n \in ReadSizes, Reader!ReadPrimitive(r, n)
  PROVE  ReaderInv' /\ Delivers("read", n) /\ P + n <= length
<1>1. /\ reading \in {r, Nobody} /\ ~request.open /\ Diff(r) > n
      /\ answer' = [to |-> "read", bytes |-> Reader!Buffered(r, n)]
      /\ mReadIndex' = [mReadIndex EXCEPT ![r] = mReadIndex[r] + n]
      /\ reading' = r
      /\ UNCHANGED <<fixed, mIStream, mReadBuffer, mReadSize, mCleanExit, request>>
  BY DEF Reader!ReadPrimitive, Reader!MayStart, Reader!Answer, Reader!SetIndex, Diff, fixed,
         Reader!content, Reader!buffers
<1>2. n \in 0 .. Diff(r) /\ n \in Nat
  BY <1>1, Sizes0, DiffIs DEF ReaderInv
<1>3. Got = 0
  BY <1>1, EmptySeq DEF ReaderInv, RequestInv, Got
<1>4. /\ StreamInv' /\ BuffersInv' /\ MirrorInv' /\ RequestInv'
      /\ P' = P + Got + n /\ P + Got + n <= length
  BY <1>1, <1>2, Advance DEF P
<1>5. P \in Nat
  BY PositionIs DEF P
<1>6. P' = P + n /\ P + n <= length
  BY <1>2, <1>3, <1>4, <1>5
<1>7. AnswerInv' /\ answer' = [to |-> "read", bytes |-> Reader!Bytes(P + 1, P + n)]
  BY <1>1, <1>2, <1>6, BufferedAnswer DEF Kinds
<1> QED
  BY <1>4, <1>6, <1>7 DEF ReaderInv, Delivers

LEMMA ReadBytesStep ==
  ASSUME ReaderInv, NEW r \in Readers, NEW n \in ReadSizes, Reader!ReadBytes(r, n)
  PROVE  ReaderInv' /\ P' = P /\ UNCHANGED <<fixed, answer>>
<1>1. /\ reading \in {r, Nobody} /\ ~request.open
      /\ request' = [open |-> TRUE, left |-> n, got |-> <<>>]
      /\ reading' = r
      /\ UNCHANGED <<fixed, mIStream, mReadBuffer, mReadIndex, mReadSize, mCleanExit, answer>>
  BY DEF Reader!ReadBytes, Reader!MayStart, fixed, Reader!content, Reader!buffers
<1>2. n \in Nat /\ r # Nobody
  BY Sizes0
<1>3. Got = 0 /\ Got' = 0
  BY <1>1, EmptySeq DEF ReaderInv, RequestInv, Got
<1>4. Diff(r)' = Diff(r) /\ Ahead' = Diff(r) /\ Ahead = Diff(r)
  BY <1>1, <1>2, AheadIs DEF ReaderInv, Diff, Ahead, Reader!Ahead, Reader!Diff
<1>5. StreamInv' /\ AnswerInv'
  BY <1>1 DEF ReaderInv, StreamInv, AnswerInv, fixed, pos
<1>6. BuffersInv'
  BY <1>1, <1>2, DiffIs, Sizes0 DEF ReaderInv, BuffersInv
<1>7. RequestInv'
  <2>1. request' \in [open : BOOLEAN, left : Nat, got : Seq(Nat)] /\ request'.left + Got' = n
    BY <1>1, <1>2, <1>3, EmptySeq
  <2> QED
    BY <1>1, <1>2, <2>1 DEF RequestInv
<1>8. MirrorInv'
  <2>1. pos' = pos /\ length' = length /\ mIStream' = mIStream
    BY <1>1 DEF pos, fixed
  <2>2. ASSUME NEW k \in 1 .. Ahead'
        PROVE  mReadBuffer'[reading'][mReadIndex'[reading'] + k] = pos' - Ahead' + k
    <3>1. Diff(r) # 0
      BY <1>4, <2>2, DiffIs, Sizes0 DEF ReaderInv
    <3>2. reading = r
      BY <3>1, DiffIs DEF ReaderInv
    <3> QED
      BY <1>1, <1>2, <1>4, <2>1, <2>2, <3>2 DEF ReaderInv, MirrorInv
  <2> QED
    BY <1>3, <1>4, <2>1, <2>2 DEF ReaderInv, MirrorInv
<1>9. P' = P
  <2>1. request'.got = request.got
    BY <1>1 DEF ReaderInv, RequestInv
  <2> QED
    BY <1>1, <1>4, <2>1 DEF P, Reader!Position, Ahead, fixed
<1> QED
  BY <1>1, <1>5, <1>6, <1>7, <1>8, <1>9 DEF ReaderInv

\* What a round of ReadBytes knows.
LEMMA RoundIs ==
  ASSUME ReaderInv, NEW r \in Readers, request.open, reading = r
  PROVE  /\ Diff(r) \in 0 .. BufferSize /\ Ahead = Diff(r) /\ r # Nobody
         /\ request.left \in Nat /\ Got \in Nat /\ request.got \in Seq(Nat)
         /\ request.left + Got \in ReadSizes
         /\ pos \in Nat /\ length \in Nat /\ P \in 0 .. length
  BY DiffIs, AheadIs, PositionIs, Sizes0
  DEF ReaderInv, RequestInv, StreamInv, pos, Got, P

LEMMA FillFails ==
  ASSUME ReaderInv, NEW r \in Readers, Reader!FillReadBuffer(r), Reader!Count(FillSize) = 0
  PROVE  ReaderInv' /\ UNCHANGED fixed /\ \E n \in ReadSizes : Fails(n)
<1> DEFINE n == request.left + Got
           s == Reader!AfterRead(FillSize)
<1>1. /\ request.open /\ reading = r /\ Diff(r) < request.left
      /\ mIStream' = Reader!ClearEOF(s)
      /\ mReadBuffer' = [mReadBuffer EXCEPT ![r] = Reader!Stored(FillSize)]
      /\ mReadSize' = [mReadSize EXCEPT ![r] = 0]
      /\ mReadIndex' = [mReadIndex EXCEPT ![r] = 0]
      /\ request' = NoRequest
      /\ mCleanExit' = [mCleanExit EXCEPT ![r] = FALSE]
      /\ answer' = [to |-> "failed", bytes |-> <<>>]
      /\ UNCHANGED <<fixed, reading>>
  BY DEF Reader!FillReadBuffer, Reader!Assertion, Reader!Answer, Reader!SetIndex, Diff, fixed,
         Reader!content, Reader!NoRequest, NoRequest
<1>2. /\ Diff(r) \in Nat /\ Ahead = Diff(r) /\ r # Nobody
      /\ request.left \in Nat /\ Got \in Nat /\ n \in ReadSizes
      /\ pos \in Nat /\ length \in Nat /\ P \in 0 .. length /\ FillSize \in Nat /\ FillSize > 0
  BY <1>1, RoundIs, Sizes0
<1>3. /\ s \in [pos : Nat, eof : BOOLEAN, fail : BOOLEAN] /\ s.pos = pos
      /\ s.fail /\ (s.eof => pos >= length)
      /\ ~mIStream.fail => s.eof /\ pos >= length
  BY <1>2, CountIs
<1>4. /\ mIStream' \in [pos : Nat, eof : BOOLEAN, fail : BOOLEAN]
      /\ mIStream'.pos = pos /\ ~mIStream'.eof
      /\ mIStream'.fail <=> s.fail /\ ~s.eof
  <2> HIDE DEF s
  <2> QED
    BY <1>1, <1>3, ClearedIs
<1>5. ~mIStream'.fail => pos >= length
  BY <1>3, <1>4
<1>6. P + n > length
  <2>1. CASE mIStream.fail
    BY <1>1, <1>2, <2>1, PositionIs DEF P
  <2>2. CASE ~mIStream.fail
    <3>1. pos >= length
      BY <1>3, <2>2
    <3>2. Ahead > 0 \/ Got > 0 => pos <= length
      BY DEF ReaderInv, MirrorInv
    <3>3. /\ pos - Ahead - Got <= length => P = pos - Ahead - Got
          /\ pos - Ahead - Got >= length => P = length
      BY <2>2, PositionIs DEF P
    <3> QED
      BY <1>1, <1>2, <3>1, <3>2, <3>3
  <2> QED
    BY <2>1, <2>2
<1>7. /\ request' \in [open : BOOLEAN, left : Nat, got : Seq(Nat)]
      /\ ~request'.open /\ request'.got = <<>> /\ Got' = 0
  BY <1>1, EmptySeq DEF NoRequest, Got
<1>8. StreamInv' /\ RequestInv' /\ AnswerInv'
  <2>1. <<>> \in Seq(1 .. length)
    BY EmptySeq
  <2>2. AnswerInv'
    BY <1>1, <2>1, AnswerKept DEF Kinds
  <2>3. length' \in Nat /\ seekable' \in BOOLEAN
    BY <1>1 DEF ReaderInv, StreamInv, fixed
  <2> QED
    BY <1>4, <1>7, <2>2, <2>3 DEF StreamInv, RequestInv
<1>9. BuffersInv'
  <2>1. Reader!Stored(FillSize) \in Seq(Nat) /\ Len(Reader!Stored(FillSize)) = 0
    BY <1>2, StoredIs
  <2> QED
    BY <1>1, <1>2, <2>1, Sizes0 DEF ReaderInv, BuffersInv
<1>10. Ahead' = 0
  BY <1>1, <1>2 DEF ReaderInv, BuffersInv, Ahead, Reader!Ahead, Reader!Diff
<1>11. MirrorInv'
  BY <1>7, <1>10 DEF MirrorInv
<1>12. P' = length
  <2>1. P' = IF mIStream'.fail THEN length
             ELSE IF length < pos - 0 - 0 THEN length ELSE pos - 0 - 0
    BY <1>1, <1>4, <1>7, <1>10 DEF P, Reader!Position, Reader!Smaller, Ahead, Got, fixed
  <2> QED
    BY <1>2, <1>5, <2>1
<1> QED
  BY <1>1, <1>2, <1>6, <1>8, <1>9, <1>11, <1>12 DEF ReaderInv, Fails

LEMMA FillArrives ==
  ASSUME ReaderInv, NEW r \in Readers, Reader!FillReadBuffer(r), Reader!Count(FillSize) > 0
  PROVE  ReaderInv' /\ P' = P /\ UNCHANGED <<fixed, answer>>
<1> DEFINE c == Reader!Count(FillSize)
           s == Reader!AfterRead(FillSize)
           t == Reader!Stored(FillSize)
           rest == Reader!Remainder(r)
<1>1. /\ request.open /\ reading = r /\ Diff(r) < request.left
      /\ mIStream' = Reader!ClearEOF(s)
      /\ mReadBuffer' = [mReadBuffer EXCEPT ![r] = t]
      /\ mReadSize' = [mReadSize EXCEPT ![r] = c]
      /\ mReadIndex' = [mReadIndex EXCEPT ![r] = 0]
      /\ request' = [request EXCEPT !.left = request.left - Diff(r), !.got = request.got \o rest]
      /\ UNCHANGED <<fixed, reading, mCleanExit, answer>>
  BY DEF Reader!FillReadBuffer, Reader!Assertion, Reader!SetIndex, Diff, fixed, Reader!content
<1>2. /\ Diff(r) \in Nat /\ Ahead = Diff(r) /\ r # Nobody
      /\ request.left \in Nat /\ Got \in Nat /\ request.got \in Seq(Nat)
      /\ request.left + Got \in ReadSizes
      /\ pos \in Nat /\ length \in Nat /\ P \in 0 .. length /\ FillSize \in Nat /\ FillSize > 0
  BY <1>1, RoundIs, Sizes0
<1>3. /\ c \in 1 .. FillSize /\ ~mIStream.fail /\ pos + c <= length
      /\ s \in [pos : Nat, eof : BOOLEAN, fail : BOOLEAN] /\ s.pos = pos + c
      /\ s.eof <=> s.fail
  BY <1>2, CountIs
<1>4. /\ t \in Seq(Nat) /\ Len(t) = c /\ \A k \in 1 .. c : t[k] = pos + k
  BY <1>2, StoredIs
<1>5. /\ rest \in Seq(Nat) /\ Len(rest) = Diff(r)
      /\ \A k \in 1 .. Diff(r) : rest[k] = pos - Ahead + k
  BY <1>1, <1>2, BufferedIs DEF Reader!Remainder, Diff
<1> HIDE DEF c, s, t, rest
<1>6. /\ mIStream' \in [pos : Nat, eof : BOOLEAN, fail : BOOLEAN]
      /\ mIStream'.pos = pos + c /\ ~mIStream'.eof /\ ~mIStream'.fail
  BY <1>1, <1>3, ClearedIs
<1> DEFINE g == request.got
<1>7. /\ g \o rest \in Seq(Nat) /\ Len(g \o rest) = Got + Diff(r)
      /\ \A k \in 1 .. Got + Diff(r) :
           (g \o rest)[k] = IF k <= Got THEN g[k] ELSE rest[k - Got]
  <2>1. g \in Seq(Nat) /\ rest \in Seq(Nat) /\ Len(g) = Got /\ Len(rest) = Diff(r)
    BY <1>2, <1>5 DEF Got
  <2> HIDE DEF g
  <2>2. /\ g \o rest \in Seq(Nat)
        /\ Len(g \o rest) = Len(g) + Len(rest)
        /\ \A k \in 1 .. Len(g) + Len(rest) :
             (g \o rest)[k] = IF k <= Len(g) THEN g[k] ELSE rest[k - Len(g)]
    BY <2>1, ConcatProperties
  <2> QED
    BY <2>1, <2>2
<1>8. /\ request' \in [open : BOOLEAN, left : Nat, got : Seq(Nat)]
      /\ request'.left = request.left - Diff(r)
      /\ request'.got = request.got \o rest
      /\ Got' = Got + Diff(r) /\ request'.open = request.open
  <2>1. request \in [open : BOOLEAN, left : Nat, got : Seq(Nat)]
    BY DEF ReaderInv, RequestInv
  <2>2. request.left - Diff(r) \in Nat
    BY <1>1, <1>2
  <2>3. /\ request' \in [open : BOOLEAN, left : Nat, got : Seq(Nat)]
        /\ request'.left = request.left - Diff(r)
        /\ request'.got = request.got \o rest
        /\ request'.open = request.open
    BY <1>1, <1>7, <2>1, <2>2
  <2>4. Got' = Got + Diff(r)
    BY <1>7, <2>3 DEF Got
  <2> QED
    BY <2>3, <2>4
<1>9. Ahead' = c
  BY <1>1, <1>2, <1>3 DEF ReaderInv, BuffersInv, Ahead, Reader!Ahead, Reader!Diff
<1>10. StreamInv' /\ AnswerInv'
  BY <1>1, <1>6 DEF ReaderInv, StreamInv, AnswerInv, fixed
<1>11. BuffersInv'
  <2>1. c \in 0 .. BufferSize /\ c \in Nat /\ Len(t) = c /\ t \in Seq(Nat)
    BY <1>3, <1>4, Sizes0
  <2>2. BuffersInv
    BY DEF ReaderInv
  <2>3. /\ mReadBuffer' \in [Readers -> Seq(Nat)]
        /\ mReadIndex' \in [Readers -> Nat] /\ mReadSize' \in [Readers -> 0 .. BufferSize]
        /\ mReadBuffer'[r] = t /\ mReadIndex'[r] = 0 /\ mReadSize'[r] = c
        /\ \A q \in Readers \ {r} : /\ mReadBuffer'[q] = mReadBuffer[q]
                                   /\ mReadIndex'[q] = mReadIndex[q]
                                   /\ mReadSize'[q] = mReadSize[q]
    BY <1>1, <2>1, <2>2 DEF BuffersInv
  <2>4. ASSUME NEW q \in Readers
        PROVE  mReadIndex'[q] <= mReadSize'[q] /\ mReadSize'[q] <= Len(mReadBuffer'[q])
    <3>1. CASE q = r
      BY <2>1, <2>3, <3>1
    <3>2. CASE q # r
      BY <2>2, <2>3, <3>2 DEF BuffersInv
    <3> QED
      BY <3>1, <3>2
  <2>5. /\ mCleanExit' \in [Readers -> BOOLEAN] /\ reading' \in Readers \cup {Nobody}
        /\ \A q \in Readers \ {reading'} : mReadIndex'[q] = mReadSize'[q]
    BY <1>1, <2>2, <2>3 DEF BuffersInv
  <2> QED
    BY <2>3, <2>4, <2>5 DEF BuffersInv
<1>12. RequestInv'
  <2>1. request'.left + Got' = request.left + Got
    BY <1>2, <1>8
  <2> QED
    BY <1>1, <1>2, <1>8, <2>1 DEF RequestInv
<1>13. Ahead > 0 \/ Got > 0 => Ahead + Got <= pos /\ pos <= length
  BY DEF ReaderInv, MirrorInv
<1>14. pos' = pos + c /\ length' = length
  BY <1>1, <1>6 DEF pos, fixed
<1>15. MirrorInv'
  <2>1. Ahead' + Got' <= pos' /\ pos' <= length'
    BY <1>2, <1>3, <1>8, <1>9, <1>13, <1>14
  <2>2. ASSUME NEW k \in 1 .. Ahead'
        PROVE  mReadBuffer'[reading'][mReadIndex'[reading'] + k] = pos' - Ahead' + k
    <3>1. mReadBuffer'[r] = t /\ mReadIndex'[r] = 0
      BY <1>1 DEF ReaderInv, BuffersInv
    <3>2. k \in 1 .. c /\ 0 + k = k
      BY <1>9, <2>2
    <3>3. t[k] = pos + k
      BY <1>4, <3>2
    <3> QED
      BY <1>1, <1>2, <1>3, <1>9, <1>14, <3>1, <3>2, <3>3
  <2>3. ASSUME NEW k \in 1 .. Got'
        PROVE  request'.got[k] = pos' - Ahead' - Got' + k
    <3>1. k \in 1 .. Got + Diff(r) /\ Got = Len(request.got)
      BY <1>8, <2>3 DEF Got
    <3>2. pos' - Ahead' - Got' + k = pos - Ahead - Got + k
      BY <1>2, <1>3, <1>8, <1>9, <1>14, <3>1
    <3>3. (request.got \o rest)[k] = IF k <= Got THEN request.got[k] ELSE rest[k - Got]
      BY <1>7, <3>1
    <3>4. CASE k <= Got
      BY <1>2, <1>8, <3>1, <3>2, <3>3, <3>4 DEF ReaderInv, MirrorInv
    <3>5. CASE k > Got
      <4>1. k - Got \in 1 .. Diff(r)
        BY <1>2, <3>1, <3>5
      <4>2. rest[k - Got] = pos - Ahead + (k - Got)
        BY <1>5, <4>1
      <4> QED
        BY <1>2, <1>8, <3>1, <3>2, <3>3, <3>5, <4>2
    <3> QED
      BY <1>2, <3>1, <3>4, <3>5
  <2> QED
    BY <1>6, <2>1, <2>2, <2>3 DEF MirrorInv
<1>16. P' = P
  <2>1. P' = IF length < (pos + c) - c - (Got + Diff(r)) THEN length
             ELSE (pos + c) - c - (Got + Diff(r))
    BY <1>1, <1>6, <1>8, <1>9 DEF P, Reader!Position, Reader!Smaller, Ahead, Got, fixed
  <2>2. P = IF length < pos - Ahead - Got THEN length ELSE pos - Ahead - Got
    BY <1>3 DEF P, Reader!Position, Reader!Smaller, Ahead, Got, pos
  <2> QED
    BY <1>2, <1>3, <2>1, <2>2
<1> QED
  BY <1>1, <1>10, <1>11, <1>12, <1>15, <1>16 DEF ReaderInv

LEMMA FinishStep ==
  ASSUME ReaderInv, NEW r \in Readers, Reader!FinishReadBytes(r)
  PROVE  /\ ReaderInv' /\ UNCHANGED fixed
         /\ \E n \in ReadSizes : Delivers("read", n) /\ P + n <= length
<1> DEFINE g == request.got
           b == Reader!Buffered(r, request.left)
           n == request.left + Got
<1>1. /\ request.open /\ reading = r /\ Diff(r) >= request.left
      /\ answer' = [to |-> "read", bytes |-> g \o b]
      /\ mReadIndex' = [mReadIndex EXCEPT ![r] = mReadIndex[r] + request.left]
      /\ request' = NoRequest
      /\ UNCHANGED <<fixed, mIStream, mReadBuffer, mReadSize, mCleanExit, reading>>
  BY DEF Reader!FinishReadBytes, Reader!Answer, Reader!SetIndex, Diff, fixed,
         Reader!content, Reader!buffers, Reader!NoRequest, NoRequest
<1>2. /\ Diff(r) \in Nat /\ Ahead = Diff(r) /\ r # Nobody
      /\ request.left \in Nat /\ Got \in Nat /\ g \in Seq(Nat) /\ n \in ReadSizes
      /\ pos \in Nat /\ length \in Nat /\ P \in 0 .. length
  BY <1>1, RoundIs, Sizes0
<1>3. request.left \in 0 .. Diff(r)
  BY <1>1, <1>2
<1>4. ~request'.open
  BY <1>1 DEF NoRequest
<1>5. /\ StreamInv' /\ BuffersInv' /\ MirrorInv' /\ RequestInv'
      /\ P' = P + Got + request.left /\ P + Got + request.left <= length
  BY <1>1, <1>3, <1>4, Advance DEF P
<1>6. P' = P + n /\ P + n <= length /\ n \in Nat
  BY <1>2, <1>5
<1>7. /\ b \in Seq(Nat) /\ Len(b) = request.left
      /\ \A k \in 1 .. request.left : b[k] = pos - Ahead + k
  BY <1>1, <1>3, BufferedIs
<1>8. Len(g) = Got
  BY DEF Got
<1> HIDE DEF b, g
<1>9. /\ g \o b \in Seq(Nat)
      /\ Len(g \o b) = Len(g) + Len(b)
      /\ \A k \in 1 .. Len(g) + Len(b) :
           (g \o b)[k] = IF k <= Len(g) THEN g[k] ELSE b[k - Len(g)]
  BY <1>2, <1>7, ConcatProperties
<1>10. Ahead > 0 \/ Got > 0 => P = pos - Ahead - Got
  <2> SUFFICES ASSUME Ahead > 0 \/ Got > 0 PROVE P = pos - Ahead - Got
    OBVIOUS
  <2>1. ~mIStream.fail /\ Ahead + Got <= pos /\ pos <= length
    BY DEF ReaderInv, MirrorInv
  <2>2. pos - Ahead - Got <= length
    BY <1>2, <2>1
  <2> QED
    BY <2>1, <2>2, PositionIs DEF P
<1>11. ASSUME NEW k \in 1 .. n
       PROVE  (g \o b)[k] = P + k
  <2>1. k \in 1 .. Len(g) + Len(b) /\ Len(g) = Got /\ Len(b) = request.left
    BY <1>2, <1>7, <1>8
  <2>2. (g \o b)[k] = IF k <= Got THEN g[k] ELSE b[k - Got]
    BY <1>9, <2>1
  <2>3. CASE k <= Got
    <3>1. g[k] = pos - Ahead - Got + k
      BY <1>2, <2>1, <2>3 DEF ReaderInv, MirrorInv, g
    <3> QED
      BY <1>2, <1>10, <2>1, <2>2, <2>3, <3>1
  <2>4. CASE k > Got
    <3>1. k - Got \in 1 .. request.left
      BY <1>2, <2>1, <2>4
    <3>2. b[k - Got] = pos - Ahead + (k - Got)
      BY <1>7, <3>1
    <3>3. P = pos - Ahead - Got
      BY <1>2, <1>3, <1>10, <3>1
    <3> QED
      BY <1>2, <2>1, <2>2, <2>4, <3>2, <3>3
  <2> QED
    BY <1>2, <2>1, <2>3, <2>4
<1>12. Len(g \o b) = n
  BY <1>2, <1>7, <1>8, <1>9
<1>13. AnswerInv' /\ answer' = [to |-> "read", bytes |-> Reader!Bytes(P + 1, P + n)]
  BY <1>1, <1>6, <1>9, <1>11, <1>12, AnswerBytes DEF Kinds
<1> QED
  BY <1>1, <1>2, <1>5, <1>6, <1>13 DEF ReaderInv, Delivers

LEMMA ReadBlockStep ==
  ASSUME ReaderInv, NEW r \in Readers, NEW n \in ReadSizes, Reader!ReadBlock(r, n)
  PROVE  ReaderInv' /\ UNCHANGED fixed /\ Reaches("block", n)
<1>1. /\ reading \in {r, Nobody} /\ ~request.open /\ reading' = r
      /\ UNCHANGED <<fixed, mReadBuffer, mReadSize, mCleanExit, request>>
  BY DEF Reader!ReadBlock, Reader!MayStart, fixed, Reader!content, Reader!buffers
<1>2. /\ Ahead = Diff(r) /\ Diff(r) \in Nat /\ pos \in Nat /\ length \in Nat /\ P \in 0 .. length
      /\ Got = 0 /\ n \in Nat
  BY <1>1, EmptySeq, AheadIs, DiffIs, PositionIs, Sizes0
  DEF ReaderInv, StreamInv, RequestInv, pos, Got, P
<1>3. /\ Ahead > 0 => ~mIStream.fail /\ Ahead <= pos /\ pos <= length
      /\ mIStream.fail => P = length
      /\ ~mIStream.fail /\ pos - Ahead <= length => P = pos - Ahead
      /\ ~mIStream.fail /\ pos - Ahead >= length => P = length
  <2>1. Ahead > 0 => ~mIStream.fail /\ Ahead + Got <= pos /\ pos <= length
    BY DEF ReaderInv, MirrorInv
  <2>2. Ahead + Got = Ahead /\ pos - Ahead - Got = pos - Ahead
    BY <1>2
  <2> QED
    BY <2>1, <2>2, PositionIs DEF P
<1>4. CASE n < Diff(r)
  <2>1. /\ answer' = [to |-> "block", bytes |-> Reader!Buffered(r, n)]
        /\ mReadIndex' = [mReadIndex EXCEPT ![r] = mReadIndex[r] + n]
        /\ UNCHANGED mIStream
    <3>1. /\ Diff(r) \in Int /\ n \in Int /\ ~(n >= Diff(r))
      BY <1>2, <1>4
    <3> QED
      BY <3>1 DEF Reader!ReadBlock, Reader!Answer, Reader!SetIndex, Diff
  <2>2. n \in 0 .. Diff(r)
    BY <1>2, <1>4
  <2>3. /\ StreamInv' /\ BuffersInv' /\ MirrorInv' /\ RequestInv'
        /\ P' = P + Got + n /\ P + Got + n <= length
    BY <1>1, <2>1, <2>2, Advance DEF P
  <2>4. P' = P + n /\ P + n <= length
    BY <1>2, <2>3
  <2>5. AnswerInv' /\ answer' = [to |-> "block", bytes |-> Reader!Bytes(P + 1, P + n)]
    BY <1>1, <2>1, <2>2, <2>4, BufferedAnswer DEF Kinds
  <2>6. n \in 0 .. n /\ ~(n < n)
    BY <1>2
  <2> QED
    BY <1>1, <2>3, <2>4, <2>5, <2>6 DEF ReaderInv, Reaches, Delivers
<1>5. CASE n >= Diff(r)
  <2> DEFINE d == n - Diff(r)
             c == Reader!Count(d)
             s == Reader!AfterRead(d)
             b == Reader!Buffered(r, Diff(r))
             t == Reader!Stored(d)
             m == Diff(r) + c
  <2>1. /\ answer' = [to |-> "block", bytes |-> b \o t]
        /\ mReadIndex' = [mReadIndex EXCEPT ![r] = mReadSize[r]]
        /\ mIStream' = s
    <3>1. /\ Diff(r) \in Int /\ n \in Int /\ ~(n < Diff(r))
      BY <1>2, <1>5
    <3> QED
      BY <3>1 DEF Reader!ReadBlock, Reader!Answer, Reader!SetIndex, Reader!DrainedIndex, Diff
  <2>2. d \in Nat /\ Diff(r) + d = n
    BY <1>2, <1>5
  <2> HIDE DEF d
  <2>3. /\ c \in 0 .. d
        /\ c > 0 => ~mIStream.fail /\ pos + c <= length
        /\ c < d => mIStream.fail \/ pos + c >= length
        /\ s \in [pos : Nat, eof : BOOLEAN, fail : BOOLEAN] /\ s.pos = pos + c
        /\ s.eof => s.fail /\ pos + c >= length
        /\ s.fail <=> mIStream.fail \/ c < d
    BY <2>2, CountIs
  <2>4. t \in Seq(Nat) /\ Len(t) = c /\ \A k \in 1 .. c : t[k] = pos + k
    BY <2>2, StoredIs
  <2>5. /\ b \in Seq(Nat) /\ Len(b) = Diff(r)
        /\ \A k \in 1 .. Diff(r) : b[k] = pos - Ahead + k
    <3>1. Diff(r) \in 0 .. Diff(r)
      BY <1>2
    <3> QED
      BY <1>1, <3>1, BufferedIs
  <2> HIDE DEF c, s, b, t
  <2>6. pos' = pos + c /\ mIStream' = s /\ (s.eof => s.fail /\ pos' >= length)
    BY <2>1, <2>3 DEF pos
  <2>7. /\ StreamInv' /\ BuffersInv' /\ MirrorInv' /\ RequestInv'
        /\ s.fail => P' = length
        /\ ~s.fail /\ pos' <= length => P' = pos'
        /\ ~s.fail /\ pos' >= length => P' = length
    BY <1>1, <2>1, <2>3, <2>6, Drain DEF P
  <2>8. P' = P + m /\ P + m <= length /\ (m < n => P + m = length)
    <3>1. /\ s.fail => P' = length
          /\ ~s.fail /\ pos + c <= length => P' = pos + c
          /\ ~s.fail /\ pos + c >= length => P' = length
      BY <2>6, <2>7
    <3>2. CASE mIStream.fail
      BY <1>2, <1>3, <2>2, <2>3, <3>1, <3>2
    <3>3. CASE ~mIStream.fail /\ c < d
      BY <1>2, <1>3, <2>2, <2>3, <3>1, <3>3
    <3>4. CASE ~mIStream.fail /\ c = d
      BY <1>2, <1>3, <2>2, <2>3, <3>1, <3>4
    <3> QED
      BY <2>2, <2>3, <3>2, <3>3, <3>4
  <2>9. /\ b \o t \in Seq(Nat)
        /\ Len(b \o t) = Len(b) + Len(t)
        /\ \A k \in 1 .. Len(b) + Len(t) :
             (b \o t)[k] = IF k <= Len(b) THEN b[k] ELSE t[k - Len(b)]
    BY <2>4, <2>5, ConcatProperties
  <2>10. ASSUME NEW k \in 1 .. m
         PROVE  (b \o t)[k] = P + k
    <3>1. c \in Nat /\ k \in 1 .. Len(b) + Len(t) /\ Len(b) = Diff(r) /\ Len(t) = c
      BY <1>2, <2>2, <2>3, <2>4, <2>5
    <3>2. (b \o t)[k] = IF k <= Diff(r) THEN b[k] ELSE t[k - Diff(r)]
      BY <2>9, <3>1
    <3>3. CASE k <= Diff(r)
      <4>1. b[k] = pos - Ahead + k
        BY <1>2, <2>5, <3>1, <3>3
      <4> QED
        BY <1>2, <1>3, <3>1, <3>2, <3>3, <4>1
    <3>4. CASE k > Diff(r)
      <4>1. k - Diff(r) \in 1 .. c
        BY <1>2, <3>1, <3>4
      <4>2. t[k - Diff(r)] = pos + (k - Diff(r))
        BY <2>4, <4>1
      <4>3. P = pos - Ahead
        BY <1>2, <1>3, <2>3, <3>1, <4>1
      <4> QED
        BY <1>2, <3>1, <3>2, <3>4, <4>2, <4>3
    <3> QED
      BY <1>2, <3>1, <3>3, <3>4
  <2>11. Len(b \o t) = m /\ m \in 0 .. n /\ m \in Nat
    BY <1>2, <2>2, <2>3, <2>4, <2>5, <2>9
  <2>12. AnswerInv' /\ answer' = [to |-> "block", bytes |-> Reader!Bytes(P + 1, P + m)]
    BY <1>1, <2>1, <2>8, <2>9, <2>10, <2>11, AnswerBytes DEF Kinds
  <2> QED
    BY <1>1, <2>7, <2>8, <2>11, <2>12 DEF ReaderInv, Reaches, Delivers
<1> QED
  BY <1>2, <1>4, <1>5

LEMMA SkipStep ==
  ASSUME ReaderInv, NEW r \in Readers, NEW n \in ReadSizes, Reader!Skip(r, n)
  PROVE  ReaderInv' /\ UNCHANGED fixed /\ SkipsTo(n)
<1>1. /\ reading \in {r, Nobody} /\ ~request.open /\ reading' = r /\ pos <= length
      /\ answer' = [to |-> "skip", bytes |-> <<>>]
      /\ UNCHANGED <<fixed, mReadBuffer, mReadSize, mCleanExit, request>>
  BY DEF Reader!Skip, Reader!MayStart, Reader!WithinSkips, Reader!Answer, fixed,
         Reader!content, Reader!buffers, pos
<1>2. /\ Ahead = Diff(r) /\ Diff(r) \in Nat /\ pos \in Nat /\ length \in Nat /\ P \in 0 .. length
      /\ Got = 0 /\ n \in Nat
  BY <1>1, EmptySeq, AheadIs, DiffIs, PositionIs, Sizes0
  DEF ReaderInv, StreamInv, RequestInv, pos, Got, P
<1>3. AnswerInv'
  <2>1. <<>> \in Seq(1 .. length)
    BY EmptySeq
  <2> QED
    BY <1>1, <2>1, AnswerKept DEF Kinds
<1>4. CASE Diff(r) < n
  <2> DEFINE d == n - Diff(r)
             s == Reader!AfterSeekG(d)
  <2>1. /\ mIStream' = s
        /\ mReadIndex' = [mReadIndex EXCEPT ![r] = mReadSize[r]]
    <3>1. /\ Diff(r) \in Int /\ n \in Int /\ ~(Diff(r) >= n)
      BY <1>2, <1>4
    <3> QED
      BY <3>1 DEF Reader!Skip, Reader!SetIndex, Reader!DrainedIndex, Diff
  <2>2. d \in Int /\ pos + d >= 0 /\ Diff(r) + d = n /\ d > 0
    BY <1>2, <1>4
  <2> HIDE DEF d
  <2>3. /\ s \in [pos : Nat, eof : BOOLEAN, fail : BOOLEAN] /\ ~s.eof
        /\ mIStream.fail => s.fail
        /\ ~mIStream.fail /\ s.fail => pos + d > length
        /\ ~s.fail => s.pos = pos + d
    BY <2>2, SeekIs
  <2> HIDE DEF s
  <2>4. pos' = s.pos
    BY <2>1 DEF pos
  <2>5. /\ StreamInv' /\ BuffersInv' /\ MirrorInv' /\ RequestInv'
        /\ s.fail => P' = length
        /\ ~s.fail /\ pos' <= length => P' = pos'
        /\ ~s.fail /\ pos' >= length => P' = length
    BY <1>1, <2>1, <2>3, <2>4, Drain DEF P
  <2>6. /\ ~s.fail /\ pos + d <= length => P' = pos + d
        /\ ~s.fail /\ pos + d >= length => P' = length
    BY <2>3, <2>4, <2>5
  <2>7. /\ mIStream.fail => P = length
        /\ ~mIStream.fail => P = pos - Ahead
    <3>1. pos - Ahead - Got <= length /\ pos - Ahead - Got = pos - Ahead
      BY <1>1, <1>2
    <3> QED
      BY <3>1, PositionIs DEF P
  <2>8. /\ P + n <= length => P' = P + n
        /\ P + n >= length => P' = length
    <3>1. CASE mIStream.fail
      BY <1>2, <1>4, <2>3, <2>5, <2>7, <3>1
    <3>2. CASE ~mIStream.fail
      <4>1. P + n = pos + d
        BY <1>2, <2>2, <2>7, <3>2
      <4> QED
        BY <1>2, <2>2, <2>3, <2>5, <2>6, <3>2, <4>1
    <3> QED
      BY <3>1, <3>2
  <2> QED
    BY <1>1, <1>3, <2>5, <2>8 DEF ReaderInv, SkipsTo
<1>5. CASE Diff(r) >= n
  <2>1. /\ mReadIndex' = [mReadIndex EXCEPT ![r] = mReadIndex[r] + n]
        /\ UNCHANGED mIStream
    <3>1. /\ Diff(r) \in Int /\ n \in Int /\ ~(Diff(r) < n)
      BY <1>2, <1>5
    <3> QED
      BY <3>1 DEF Reader!Skip, Reader!SetIndex, Diff
  <2>2. n \in 0 .. Diff(r)
    BY <1>2, <1>5
  <2>3. /\ StreamInv' /\ BuffersInv' /\ MirrorInv' /\ RequestInv'
        /\ P' = P + Got + n /\ P + Got + n <= length
    BY <1>1, <2>1, <2>2, Advance DEF P
  <2>4. P' = P + n /\ P + n <= length /\ (P + n >= length => P' = length)
    BY <1>2, <2>3
  <2> QED
    BY <1>1, <1>3, <2>3, <2>4 DEF ReaderInv, SkipsTo
<1> QED
  BY <1>2, <1>4, <1>5

LEMMA ReaderClearStep ==
  ASSUME ReaderInv, NEW r \in Readers, Reader!ClearBuffer(r)
  PROVE  ReaderInv' /\ P' = P /\ UNCHANGED <<fixed, answer>>
<1> DEFINE s == Reader!AfterSeekG(0 - Diff(r))
<1>1. /\ reading \in {r, Nobody} /\ ~request.open /\ reading' = Nobody
      /\ mReadIndex' = [mReadIndex EXCEPT ![r] = 0]
      /\ mReadSize' = [mReadSize EXCEPT ![r] = 0]
      /\ UNCHANGED <<fixed, mReadBuffer, mCleanExit, request, answer>>
  BY DEF Reader!ClearBuffer, Reader!SetIndex, fixed, Reader!content
<1>2. /\ Ahead = Diff(r) /\ Diff(r) \in Nat /\ pos \in Nat /\ length \in Nat /\ P \in 0 .. length
      /\ Got = 0 /\ mReadIndex[r] \in Nat /\ mReadSize[r] \in Nat
      /\ Diff(r) = mReadSize[r] - mReadIndex[r]
  BY <1>1, EmptySeq, AheadIs, DiffIs, PositionIs, Sizes0
  DEF ReaderInv, StreamInv, RequestInv, pos, Got, P
<1>3. mIStream' = Reader!ClearEOF(s)
  <2>1. Reader!Unread(r) = 0 - Diff(r)
    BY <1>2 DEF Reader!Unread
  <2> QED
    BY <2>1 DEF Reader!ClearBuffer
<1>4. Ahead > 0 => ~mIStream.fail /\ Ahead <= pos /\ pos <= length
  <2>1. Ahead > 0 => ~mIStream.fail /\ Ahead + Got <= pos /\ pos <= length
    BY DEF ReaderInv, MirrorInv
  <2> QED
    BY <1>2, <2>1
<1>5. 0 - Diff(r) \in Int /\ pos + (0 - Diff(r)) >= 0
  BY <1>2, <1>4
<1>6. /\ s \in [pos : Nat, eof : BOOLEAN, fail : BOOLEAN] /\ ~s.eof
      /\ mIStream.fail => s.fail
      /\ ~mIStream.fail /\ s.fail => pos + (0 - Diff(r)) > length
      /\ ~s.fail => s.pos = pos + (0 - Diff(r))
  BY <1>5, SeekIs
<1> HIDE DEF s
<1>7. /\ mIStream' \in [pos : Nat, eof : BOOLEAN, fail : BOOLEAN]
      /\ mIStream'.pos = s.pos /\ ~mIStream'.eof
      /\ mIStream'.fail <=> s.fail
  BY <1>3, <1>6, ClearedIs
<1>8. StreamInv' /\ RequestInv' /\ AnswerInv' /\ Got' = 0
  <2>1. length' \in Nat /\ seekable' \in BOOLEAN
    BY <1>1 DEF ReaderInv, StreamInv, fixed
  <2>2. RequestInv' /\ AnswerInv' /\ Got' = 0
    BY <1>1, <1>2 DEF ReaderInv, RequestInv, AnswerInv, Got, fixed
  <2> QED
    BY <1>7, <2>1, <2>2 DEF StreamInv
<1>9. BuffersInv'
  <2>1. BuffersInv
    BY DEF ReaderInv
  <2>2. 0 \in 0 .. BufferSize
    BY Sizes0
  <2>3. /\ mReadBuffer' \in [Readers -> Seq(Nat)] /\ mReadIndex' \in [Readers -> Nat]
        /\ mReadSize' \in [Readers -> 0 .. BufferSize]
        /\ mCleanExit' \in [Readers -> BOOLEAN] /\ reading' \in Readers \cup {Nobody}
    BY <1>1, <2>1, <2>2 DEF BuffersInv
  <2>4. ASSUME NEW q \in Readers
        PROVE  /\ mReadIndex'[q] = mReadSize'[q]
               /\ mReadIndex'[q] <= mReadSize'[q] /\ mReadSize'[q] <= Len(mReadBuffer'[q])
    <3>1. Len(mReadBuffer[q]) \in Nat
      BY <2>1, LenProperties DEF BuffersInv
    <3>2. CASE q = r
      BY <1>1, <2>1, <3>1, <3>2 DEF BuffersInv
    <3>3. CASE q # r
      <4>1. mReadIndex'[q] = mReadIndex[q] /\ mReadSize'[q] = mReadSize[q]
        BY <1>1, <2>1, <3>3 DEF BuffersInv
      <4>2. q \in Readers \ {reading}
        BY <1>1, <3>3, Sizes0
      <4> QED
        BY <1>1, <2>1, <4>1, <4>2 DEF BuffersInv
    <3> QED
      BY <3>2, <3>3
  <2> QED
    BY <2>3, <2>4 DEF BuffersInv
<1>10. Ahead' = 0
  BY <1>1 DEF Ahead, Reader!Ahead
<1>11. MirrorInv'
  BY <1>1, <1>8, <1>10 DEF MirrorInv
<1>12. P' = P
  <2>1. P' = IF s.fail THEN length ELSE IF length < s.pos - 0 - 0 THEN length ELSE s.pos - 0 - 0
    BY <1>1, <1>7, <1>8, <1>10 DEF P, Reader!Position, Reader!Smaller, Ahead, Got, fixed
  <2>2. P = IF mIStream.fail THEN length
            ELSE IF length < pos - Ahead - 0 THEN length ELSE pos - Ahead - 0
    BY <1>2 DEF P, Reader!Position, Reader!Smaller, Ahead, Got, pos
  <2> QED
    BY <1>2, <1>4, <1>6, <2>1, <2>2
<1> QED
  BY <1>1, <1>8, <1>9, <1>11, <1>12 DEF ReaderInv

-----------------------------------------------------------------------------
(***************************************************************************)
(* What the source of the bytes shows of all this.                         *)
(***************************************************************************)
Told == [answer EXCEPT !.bytes = [k \in DOMAIN @ |-> file[@[k]]]]
NoAnswer == [to |-> "nothing", bytes |-> <<>>]

LEMMA ToldNothing ==
  ASSUME answer = NoAnswer
  PROVE  Told = NoAnswer
<1>1. [k \in DOMAIN <<>> |-> file[(<<>>)[k]]] = <<>>
  OBVIOUS
<1> QED
  BY <1>1 DEF Told, NoAnswer

\* The readers' numbers for the bytes of the stream are those of the writers.
LEMMA ToldIs ==
  ASSUME IInv, PhaseInv, AnswerInv
  PROVE  Told = answer
<1>1. CASE ~opened
  BY <1>1, ToldNothing DEF PhaseInv, Reader!Unused, NoAnswer
<1>2. CASE opened
  <2> DEFINE b == answer.bytes
             t == [k \in DOMAIN b |-> file[b[k]]]
  <2>1. file = Bytes(1, written) /\ file \in Seq(Nat) /\ length = Len(file) /\ written \in Nat
    BY <1>2, VisibleIs DEF PhaseInv, AllVisible, IInv, TypeOK
  <2>2. Len(file) = written /\ \A i \in 1 .. written : file[i] = i
    BY <2>1, FirstBytes
  <2>3. answer \in [to : Kinds, bytes : Seq(1 .. length)]
    BY DEF AnswerInv, Kinds
  <2>4. b \in Seq(1 .. length) /\ DOMAIN b = 1 .. Len(b) /\ Len(b) \in Nat
    BY <2>3, LenProperties
  <2> HIDE DEF b
  <2>5. \A k \in 1 .. Len(b) : b[k] \in 1 .. length
    BY <2>4, ElementOfSeq
  <2>6. \A k \in 1 .. Len(b) : t[k] = b[k]
    BY <2>1, <2>2, <2>4, <2>5
  <2>7. t \in Seq(1 .. length) /\ Len(t) = Len(b)
    <3>1. t = [k \in 1 .. Len(b) |-> file[b[k]]]
      BY <2>4
    <3>2. \A k \in 1 .. Len(b) : file[b[k]] \in 1 .. length
      BY <2>1, <2>2, <2>5
    <3> HIDE DEF t
    <3> QED
      BY <2>4, <3>1, <3>2, IsASeq, LenProperties
  <2> HIDE DEF t
  <2>8. t = b
    BY <2>4, <2>6, <2>7, SeqEqual
  <2>9. Told = [answer EXCEPT !.bytes = t]
    BY DEF Told, t, b
  <2> QED
    BY <2>3, <2>8, <2>9 DEF b
<1> QED
  BY <1>1, <1>2 DEF PhaseInv

LEMMA ToldAlways == IInv /\ PhaseInv /\ AnswerInv => Told = answer
  BY ToldIs

\* Messages that have just been constructed.
LEMMA UnusedIs ==
  Reader!Unused /\ length \in Nat /\ seekable \in BOOLEAN => ReaderInv /\ P = 0 /\ answer = NoAnswer
<1> SUFFICES ASSUME Reader!Unused, length \in Nat, seekable \in BOOLEAN
             PROVE  ReaderInv /\ P = 0 /\ answer = NoAnswer
  OBVIOUS
<1>1. /\ mIStream = [pos |-> 0, eof |-> FALSE, fail |-> FALSE]
      /\ mReadBuffer = [r \in Readers |-> <<>>]
      /\ mReadIndex = [r \in Readers |-> 0] /\ mReadSize = [r \in Readers |-> 0]
      /\ mCleanExit = [r \in Readers |-> TRUE] /\ reading = Nobody
      /\ request = [open |-> FALSE, left |-> 0, got |-> <<>>]
      /\ answer = [to |-> "nothing", bytes |-> <<>>]
  BY DEF Reader!Unused, Reader!Fresh, Reader!NoRequest
<1>2. Got = 0 /\ Ahead = 0 /\ pos = 0
  BY <1>1, EmptySeq DEF Got, Ahead, Reader!Ahead, pos
<1>3. StreamInv
  BY <1>1, <1>2 DEF StreamInv
<1>4. BuffersInv
  BY <1>1, EmptySeq, Sizes0 DEF BuffersInv
<1>5. MirrorInv
  BY <1>1, <1>2 DEF MirrorInv
<1>6. RequestInv /\ AnswerInv
  BY <1>1, EmptySeq DEF RequestInv, AnswerInv
<1>7. P = 0
  <2>1. P = IF length < 0 - 0 - 0 THEN length ELSE 0 - 0 - 0
    BY <1>1, <1>2 DEF P, Reader!Position, Reader!Smaller, Ahead, Got
  <2> QED
    BY <2>1
<1> QED
  BY <1>1, <1>3, <1>4, <1>5, <1>6, <1>7 DEF ReaderInv, NoAnswer

\* What the source does while the readers do this.
SourceStep ==
  \/ UNCHANGED <<length, P, answer>>
  \/ /\ UNCHANGED length
     /\ \E n \in ReadSizes :
          \/ Delivers("read", n) /\ P + n <= length
          \/ Fails(n)
          \/ Reaches("block", n)
          \/ SkipsTo(n)

LEMMA ReaderStep ==
  ASSUME ReaderInv, Reader!Next
  PROVE  ReaderInv' /\ UNCHANGED fixed /\ SourceStep
<1>1. ASSUME NEW r \in Readers, NEW n \in ReadSizes, Reader!ReadPrimitive(r, n)
      PROVE  ReaderInv' /\ UNCHANGED fixed /\ SourceStep
  <2>1. UNCHANGED fixed
    BY <1>1 DEF Reader!ReadPrimitive, Reader!content, fixed
  <2> QED
    BY <1>1, <2>1, ReadPrimitiveStep DEF SourceStep, fixed
<1>2. ASSUME NEW r \in Readers, NEW n \in ReadSizes, Reader!ReadBytes(r, n)
      PROVE  ReaderInv' /\ UNCHANGED fixed /\ SourceStep
  BY <1>2, ReadBytesStep DEF SourceStep, fixed
<1>3. ASSUME NEW r \in Readers, NEW n \in ReadSizes, Reader!ReadBlock(r, n)
      PROVE  ReaderInv' /\ UNCHANGED fixed /\ SourceStep
  BY <1>3, ReadBlockStep DEF SourceStep, fixed
<1>4. ASSUME NEW r \in Readers, NEW n \in ReadSizes, Reader!Skip(r, n)
      PROVE  ReaderInv' /\ UNCHANGED fixed /\ SourceStep
  BY <1>4, SkipStep DEF SourceStep, fixed
<1>5. ASSUME NEW r \in Readers, Reader!FillReadBuffer(r)
      PROVE  ReaderInv' /\ UNCHANGED fixed /\ SourceStep
  <2>1. FillSize \in Nat
    BY Sizes0
  <2>2. Reader!Count(FillSize) = 0 \/ Reader!Count(FillSize) > 0
    BY <2>1, CountIs
  <2> QED
    BY <1>5, <2>2, FillFails, FillArrives DEF SourceStep, fixed
<1>6. ASSUME NEW r \in Readers, Reader!FinishReadBytes(r)
      PROVE  ReaderInv' /\ UNCHANGED fixed /\ SourceStep
  BY <1>6, FinishStep DEF SourceStep, fixed
<1>7. ASSUME NEW r \in Readers, Reader!ClearBuffer(r)
      PROVE  ReaderInv' /\ UNCHANGED fixed /\ SourceStep
  BY <1>7, ReaderClearStep DEF SourceStep, fixed
<1> QED
  BY <1>1, <1>2, <1>3, <1>4, <1>5, <1>6, <1>7 DEF Reader!Next, Reader!Step

-----------------------------------------------------------------------------
(***************************************************************************)
(* The invariant.                                                          *)
(***************************************************************************)
LEMMA StreamsStart == StreamsInit => StreamsInv /\ P = 0 /\ answer = NoAnswer
<1> SUFFICES ASSUME StreamsInit PROVE StreamsInv /\ P = 0 /\ answer = NoAnswer
  OBVIOUS
<1>1. Init /\ opened = FALSE /\ length = 0 /\ seekable = FALSE /\ Reader!Unused
  BY DEF StreamsInit
<1>2. length \in Nat /\ seekable \in BOOLEAN
  BY <1>1
<1>3. ReaderInv /\ P = 0 /\ answer = NoAnswer
  BY <1>1, <1>2, UnusedIs
<1>4. PhaseInv
  BY <1>1 DEF PhaseInv
<1> QED
  BY <1>1, <1>3, <1>4, WriterStarts DEF StreamsInv

LEMMA WriteStep ==
  ASSUME StreamsInv, Write
  PROVE  StreamsInv' /\ ~opened /\ ~opened' /\ UNCHANGED <<length, P, answer>>
<1>1. ~opened /\ Next /\ UNCHANGED <<opened, length, seekable, readerVars>>
  BY DEF Write
<1>2. IInv'
  BY <1>1, WriterStep DEF StreamsInv
<1>3. PhaseInv'
  BY <1>1 DEF StreamsInv, PhaseInv, Reader!Unused, readerVars
<1>4. ReaderInv' /\ P' = P
  BY <1>1 DEF StreamsInv, readerVars, ReaderInv, StreamInv, BuffersInv, MirrorInv,
    RequestInv, AnswerInv, pos, Ahead, Got, Reader!Ahead, Reader!Diff, P, Reader!Position
<1> QED
  BY <1>1, <1>2, <1>3, <1>4 DEF StreamsInv, readerVars

LEMMA OpenStep ==
  ASSUME StreamsInv, Open
  PROVE  /\ StreamsInv' /\ P = 0 /\ P' = 0 /\ answer = NoAnswer /\ answer' = NoAnswer
         /\ length = 0 /\ length' \in Nat
<1>1. /\ ~opened /\ opened' = TRUE /\ turn = Nobody /\ length' = Len(file) /\ seekable' \in BOOLEAN
      /\ UNCHANGED <<vars, readerVars>>
  BY DEF Open
<1>2. Reader!Unused /\ Reader!Unused' /\ length = 0 /\ opened \in BOOLEAN
  BY <1>1 DEF StreamsInv, PhaseInv, Reader!Unused, readerVars
<1>3. length' \in Nat
  BY <1>1, LenProperties DEF StreamsInv, IInv, TypeOK
<1>4. IInv'
  BY <1>1, WriterStep DEF StreamsInv
<1>5. PhaseInv'
  BY <1>1 DEF PhaseInv, vars
<1>6. P = 0 /\ answer = NoAnswer
  BY <1>2, UnusedIs DEF StreamsInv, ReaderInv, StreamInv
<1>7. (Reader!Unused /\ length \in Nat /\ seekable \in BOOLEAN)'
      => (ReaderInv /\ P = 0 /\ answer = NoAnswer)'
  BY UnusedIs, PTL
<1>8. ReaderInv' /\ P' = 0 /\ answer' = NoAnswer
  BY <1>1, <1>2, <1>3, <1>7 DEF NoAnswer
<1> QED
  BY <1>2, <1>3, <1>4, <1>5, <1>6, <1>8 DEF StreamsInv

LEMMA ReadStep ==
  ASSUME StreamsInv, Read
  PROVE  StreamsInv' /\ SourceStep
<1>1. opened /\ Reader!Next /\ UNCHANGED <<vars, opened>>
  BY DEF Read
<1>2. ReaderInv' /\ UNCHANGED fixed /\ SourceStep
  BY <1>1, ReaderStep DEF StreamsInv
<1>3. IInv'
  BY <1>1, WriterStep DEF StreamsInv
<1>4. PhaseInv'
  BY <1>1, <1>2 DEF StreamsInv, PhaseInv, vars, fixed
<1> QED
  BY <1>2, <1>3, <1>4 DEF StreamsInv

LEMMA StreamsStutter ==
  ASSUME StreamsInv, UNCHANGED streamsVars
  PROVE  StreamsInv' /\ UNCHANGED <<length, P, answer>>
<1>1. UNCHANGED vars
  BY DEF streamsVars
<1>2. IInv'
  BY <1>1, WriterStep DEF StreamsInv
<1>3. PhaseInv'
  BY DEF StreamsInv, PhaseInv, Reader!Unused, streamsVars, readerVars, vars
<1>4. ReaderInv' /\ P' = P
  BY DEF StreamsInv, streamsVars, readerVars, ReaderInv, StreamInv, BuffersInv, MirrorInv,
    RequestInv, AnswerInv, pos, Ahead, Got, Reader!Ahead, Reader!Diff, P, Reader!Position
<1> QED
  BY <1>2, <1>3, <1>4 DEF StreamsInv, streamsVars, readerVars

LEMMA StreamsStep == StreamsInv /\ [StreamsNext]_streamsVars => StreamsInv'
  BY WriteStep, OpenStep, ReadStep, StreamsStutter DEF StreamsNext

\* In every reachable state the writers' bytes are in order, the buffer of the
\* reader in use mirrors the stream, what a ReadBytes has taken included, and
\* nobody writes while others read.
THEOREM StreamsInvariant == StreamsSpec => []StreamsInv
<1>1. StreamsInit => StreamsInv
  BY StreamsStart
<1> QED
  BY <1>1, StreamsStep, PTL DEF StreamsSpec

-----------------------------------------------------------------------------
\* No buffer holds more than it can, on either side.
THEOREM StreamsTypes == StreamsSpec => []StreamsTypeOK
<1>1. StreamsInv => StreamsTypeOK
  <2> SUFFICES ASSUME StreamsInv PROVE StreamsTypeOK
    OBVIOUS
  <2>1. answer \in [to : Kinds, bytes : Seq(Nat)]
    <3>1. answer \in [to : Kinds, bytes : Seq(1 .. length)] /\ length \in Nat
      BY DEF StreamsInv, ReaderInv, AnswerInv, StreamInv, Kinds
    <3>2. answer.bytes \in Seq(Nat)
      <4> DEFINE b == answer.bytes
      <4>1. b \in Seq(1 .. length)
        BY <3>1
      <4> HIDE DEF b
      <4>2. \A k \in 1 .. Len(b) : b[k] \in 1 .. length
        BY <4>1, ElementOfSeq
      <4>3. b = [k \in 1 .. Len(b) |-> b[k]] /\ Len(b) \in Nat
        BY <4>1, LenProperties
      <4>4. \A k \in 1 .. Len(b) : b[k] \in Nat
        BY <3>1, <4>2
      <4>5. b \in Seq(Nat)
        BY <4>3, <4>4, SeqDef
      <4> QED
        BY <4>5 DEF b
    <3> QED
      BY <3>1, <3>2
  <2>2. Reader!TypeOK
    BY <2>1 DEF StreamsInv, ReaderInv, StreamInv, BuffersInv, RequestInv, Reader!TypeOK, Kinds
  <2> QED
    BY <2>2 DEF StreamsInv, IInv, PhaseInv, StreamsTypeOK
<1> QED
  BY <1>1, StreamsInvariant, PTL

\* While the messages write, and while they read, the bytes are in order, and
\* whoever opens the stream finds all of them in it.
THEOREM StreamsInOrder == StreamsSpec => [](InOrder /\ AllVisible)
<1>1. StreamsInv => InOrder /\ AllVisible
  BY VisibleIs DEF StreamsInv, IInv
<1> QED
  BY <1>1, StreamsInvariant, PTL

\* What is in the buffer of the message in use lies just before the get
\* position of the stream, and all other buffers are empty.
THEOREM StreamsMirror == StreamsSpec => []BufferMirrorsStream
<1>1. StreamsInv => BufferMirrorsStream
  <2> SUFFICES ASSUME StreamsInv PROVE BufferMirrorsStream
    OBVIOUS
  <2>1. ReaderInv /\ BuffersInv /\ MirrorInv
    BY DEF StreamsInv, ReaderInv
  <2>2. ASSUME NEW r \in Readers
        PROVE  /\ mReadIndex[r] <= mReadSize[r] /\ mReadSize[r] <= BufferSize
               /\ r # reading => Reader!Diff(r) = 0
    BY <2>1, DiffIs, Sizes0 DEF BuffersInv, Diff
  <2>3. ASSUME reading # Nobody, Reader!Diff(reading) > 0
        PROVE  /\ ~mIStream.fail
               /\ Reader!Buffered(reading, Reader!Diff(reading)) =
                    Reader!Bytes(mIStream.pos - Reader!Diff(reading) + 1, mIStream.pos)
    <3> DEFINE d == Diff(reading)
    <3>1. reading \in Readers
      BY <2>1, <2>3 DEF BuffersInv
    <3>2. d \in Nat /\ d > 0 /\ Ahead = d /\ d \in 0 .. d
      BY <2>1, <2>3, <3>1, DiffIs, AheadIs, Sizes0 DEF Diff
    <3>3. pos \in Nat /\ Got \in Nat /\ ~mIStream.fail /\ Ahead + Got <= pos
      BY <2>1, <3>2, PositionIs DEF ReaderInv, StreamInv, MirrorInv, pos
    <3>4. /\ Reader!Buffered(reading, d) \in Seq(Nat)
          /\ Len(Reader!Buffered(reading, d)) = d
          /\ \A k \in 1 .. d : Reader!Buffered(reading, d)[k] = pos - d + k
      BY <2>1, <3>1, <3>2, BufferedIs
    <3> HIDE DEF d
    <3>5. pos - d \in Nat /\ (pos - d) + d = pos
      BY <3>2, <3>3
    <3>6. Reader!Buffered(reading, d) = Reader!Bytes((pos - d) + 1, (pos - d) + d)
      BY <3>2, <3>4, <3>5, BytesAre
    <3> QED
      BY <3>3, <3>5, <3>6 DEF d, Diff, pos
  <2> QED
    BY <2>2, <2>3 DEF BufferMirrorsStream, Reader!BufferMirrorsStream
<1> QED
  BY <1>1, StreamsInvariant, PTL

-----------------------------------------------------------------------------
(***************************************************************************)
(* The refinement.                                                         *)
(***************************************************************************)
shown == <<length, P, Told>>

LEMMA SourceStarts == StreamsInit => Source!Init
<1> SUFFICES ASSUME StreamsInit PROVE Source!Init
  OBVIOUS
<1>1. length = 0 /\ P = 0 /\ answer = NoAnswer
  BY StreamsStart DEF StreamsInit
<1>2. Told = NoAnswer
  BY <1>1, ToldNothing
<1> QED
  BY <1>1, <1>2 DEF Source!Init, Source!NoAnswer, NoAnswer, Told, P

\* Every call of a reader is one of the source.
LEMMA SourceMoves ==
  ASSUME ReaderInv, SourceStep, Told = answer, Told' = answer'
  PROVE  Source!Next \/ UNCHANGED shown
<1>1. P \in 0 .. length /\ length \in Nat
  BY PositionIs DEF P, ReaderInv, StreamInv
<1>2. CASE UNCHANGED <<length, P, answer>>
  BY <1>2 DEF shown
<1>3. ASSUME NEW n \in ReadSizes, UNCHANGED length, Delivers("read", n), P + n <= length
      PROVE  Source!Next
  <2>1. Source!Read(n)
    BY <1>3 DEF Source!Read, Source!Bytes, Reader!Bytes, Delivers, Told, P
  <2> QED
    BY <1>3, <2>1 DEF Source!Next
<1>4. ASSUME NEW n \in ReadSizes, UNCHANGED length, Fails(n)
      PROVE  Source!Next
  <2>1. Source!Fail(n)
    BY <1>4 DEF Source!Fail, Fails, Told, P
  <2> QED
    BY <1>4, <2>1 DEF Source!Next
<1>5. ASSUME NEW n \in ReadSizes, UNCHANGED length, Reaches("block", n)
      PROVE  Source!Next
  <2>1. PICK m \in 0 .. n : /\ Delivers("block", m) /\ P + m <= length
                            /\ m < n => P + m = length
    BY <1>5 DEF Reaches
  <2>2. n \in Nat
    BY Sizes0
  <2>3. IF P + n < length THEN P + m = P + n ELSE P + m = length
    BY <1>1, <2>1, <2>2
  <2>4. Source!Reach(n) = P + m
    BY <2>3 DEF Source!Reach, P
  <2>5. /\ answer' = [to |-> "block", bytes |-> Source!Bytes(P + 1, Source!Reach(n))]
        /\ P' = Source!Reach(n)
    BY <2>1, <2>4 DEF Delivers, Source!Bytes, Reader!Bytes
  <2>6. Source!Block(n)
    BY <2>5 DEF Source!Block, Told, P
  <2> QED
    BY <1>5, <2>6 DEF Source!Next
<1>6. ASSUME NEW n \in ReadSizes, UNCHANGED length, SkipsTo(n)
      PROVE  Source!Next
  <2>1. n \in Nat
    BY Sizes0
  <2>2. P' = IF P + n < length THEN P + n ELSE length
    BY <1>1, <1>6, <2>1 DEF SkipsTo
  <2>3. P' = Source!Reach(n)
    BY <2>2 DEF Source!Reach, P
  <2>4. Source!Skip(n)
    BY <1>6, <2>3 DEF Source!Skip, SkipsTo, Told, P
  <2> QED
    BY <1>6, <2>4 DEF Source!Next
<1> QED
  BY <1>2, <1>3, <1>4, <1>5, <1>6 DEF SourceStep

LEMMA SourceFollows ==
  StreamsInv /\ StreamsInv' /\ [StreamsNext]_streamsVars => [Source!Next]_shown
<1> SUFFICES ASSUME StreamsInv, StreamsInv', [StreamsNext]_streamsVars
             PROVE  Source!Next \/ UNCHANGED shown
  OBVIOUS
<1>1. Told = answer
  BY ToldIs DEF StreamsInv, ReaderInv
<1>2. Told' = answer'
  <2>1. (IInv /\ PhaseInv /\ AnswerInv)' => (Told = answer)'
    BY ToldAlways, PTL
  <2> QED
    BY <2>1 DEF StreamsInv, ReaderInv
<1>3. CASE Write
  BY <1>1, <1>2, <1>3, WriteStep DEF shown
<1>4. CASE Open
  <2>1. /\ P = 0 /\ P' = 0 /\ Told = NoAnswer /\ Told' = NoAnswer
        /\ length = 0 /\ length' \in Nat
    BY <1>1, <1>2, <1>4, OpenStep
  <2>2. CASE length' = 0
    BY <2>1, <2>2 DEF shown
  <2>3. CASE length' # 0
    <3>1. length' > length
      BY <2>1, <2>3
    <3>2. Source!Fill
      BY <2>1, <3>1 DEF Source!Fill, Source!NoAnswer, NoAnswer, Told, P
    <3> QED
      BY <3>2 DEF Source!Next
  <2> QED
    BY <2>2, <2>3
<1>5. CASE Read
  <2>1. SourceStep
    BY <1>5, ReadStep
  <2> QED
    BY <1>1, <1>2, <2>1, SourceMoves DEF StreamsInv
<1>6. CASE UNCHANGED streamsVars
  BY <1>1, <1>2, <1>6, StreamsStutter DEF shown
<1> QED
  BY <1>3, <1>4, <1>5, <1>6 DEF StreamsNext

\* The readers together are one source of the bytes that the writers together
\* have written: calls deliver consecutive bytes from one call, one buffer and
\* one message to the next, wherever the stream ends.
THEOREM StreamsRefineSource == StreamsSpec => RefinesSource
<1>1. Source!Init /\ [][Source!Next]_shown => Source!Spec
  BY PTL DEF Source!Spec, shown, Told, P
<1>2. StreamsInit => Source!Init
  BY SourceStarts
<1> QED
  BY <1>1, <1>2, SourceFollows, StreamsInvariant, PTL DEF StreamsSpec, RefinesSource

=============================================================================
