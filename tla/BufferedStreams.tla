--------------------------- MODULE BufferedStreams ---------------------------
(***************************************************************************)
(* Serialising messages write a stream, and deserialising ones read it, as *)
(* in test/streamTest.cpp:28.  The writers are those of                    *)
(* BufferedStreamWriter; when all of them have cleared their buffers, the  *)
(* stream may be opened for the readers of BufferedStreamReader, who find  *)
(* in it what the writers have made visible.                               *)
(***************************************************************************)
EXTENDS BufferedStreamWriter

CONSTANTS
  Readers, FillSize, ReadSizes,
  Lengths         \* bound: how long a stream is that is opened

VARIABLES
  opened,
  length, seekable, mIStream,
  mReadBuffer, mReadIndex, mReadSize, mCleanExit,
  reading, request, answer

Reader == INSTANCE BufferedStreamReader
  WITH Sizes <- ReadSizes, mStream <- mIStream, turn <- reading

ASSUME StreamsAssumption == Reader!ReaderAssumption /\ Lengths \subseteq Nat

readerVars == <<mIStream, mReadBuffer, mReadIndex, mReadSize, mCleanExit,
                reading, request, answer>>
streamsVars == <<vars, opened, length, seekable, readerVars>>

StreamsInit ==
  /\ Init
  /\ opened = FALSE
  /\ length = 0 /\ seekable = FALSE
  /\ Reader!Unused

Write == ~opened /\ Next /\ UNCHANGED <<opened, length, seekable, readerVars>>

Open ==
  /\ ~opened /\ turn = Nobody /\ Len(file) \in Lengths
  /\ opened' = TRUE
  /\ length' = Len(file)
  /\ seekable' \in BOOLEAN
  /\ UNCHANGED <<vars, readerVars>>

Read == opened /\ Reader!Next /\ UNCHANGED <<vars, opened>>

StreamsNext == Write \/ Open \/ Read

StreamsSpec == StreamsInit /\ [][StreamsNext]_streamsVars

Step(r) == opened /\ Reader!Step(r) /\ UNCHANGED <<vars, opened>>
\* A call of ReadBytes that has begun goes on.
FairSpec == StreamsSpec /\ \A r \in Readers : WF_streamsVars(Step(r))

-----------------------------------------------------------------------------
(***************************************************************************)
(* Properties.                                                             *)
(***************************************************************************)
\* No buffer holds more than it can, on either side.
StreamsTypeOK == TypeOK /\ Reader!TypeOK /\ opened \in BOOLEAN

\* What is in the buffer of the message in use is what lies just before the
\* get position of the stream, so that seeking back lands on the first byte
\* nobody has used; all other buffers are empty (bufferedStreamReader.h:53).
BufferMirrorsStream == Reader!BufferMirrorsStream

\* The readers together are one source of the bytes that the writers together
\* have written, from the first to the last: calls deliver consecutive bytes
\* from one call, one buffer and one message to the next, whatever is read,
\* read as a block or skipped, and wherever the stream ends
\* (bufferedStreamReader.h:64, 86, 169).
Source == INSTANCE ByteSource WITH
  Sizes <- ReadSizes,
  position <- Reader!Position,
  answer <- [answer EXCEPT !.bytes = [k \in DOMAIN @ |-> file[@[k]]]]
RefinesSource == Source!Spec

\* ReadBytes returns or throws: its loop ends, at the end of the stream too.
ReadBytesEnds == request.open ~> ~request.open

=============================================================================
