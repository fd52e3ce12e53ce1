---------------------------- MODULE BooleanCodec ----------------------------
(***************************************************************************)
(* Vectors of booleans (binarySerMessage.h:189, binaryDeserMessage.h:453,  *)
(* 671).  Packed ones go through a buffer of BlockBytes bytes (1024), with *)
(* ByteBits booleans in each byte; what is left after the last whole       *)
(* byte makes a byte of its own.                                           *)
(***************************************************************************)
EXTENDS IntegerCodec

CONSTANT BlockBytes

-----------------------------------------------------------------------------
Rounds(size) == (size + BlockBytes - 1) \div BlockBytes

\* The whole bytes of all rounds, each of which takes what fits the buffer.
WholeBytes(size) ==
  LET taken[k \in Nat] ==
        IF k = 0 THEN 0
        ELSE LET left == (size - taken[k - 1] * ByteBits) \div ByteBits
             IN  taken[k - 1] + (IF left < BlockBytes THEN left ELSE BlockBytes)
  IN  taken[Rounds(size)]

\* The byte of count booleans from the one after first.
ByteOf(values, first, count) ==
  LET byte[k \in 0 .. count] ==
        IF k = 0 THEN 0
        ELSE byte[k - 1] + (IF values[first + k] THEN 2 ^ (k - 1) ELSE 0)
  IN  byte[count] % ByteModulus

PackedBody(values) ==
  LET whole == WholeBytes(Len(values))
      rest == Len(values) - whole * ByteBits
  IN  [b \in 1 .. whole |-> ByteOf(values, (b - 1) * ByteBits, ByteBits)]
        \o (IF rest > 0 THEN <<ByteOf(values, whole * ByteBits, rest)>> ELSE <<>>)

WriteVectorBody(values, packed) ==
  IF packed THEN PackedBody(values)
  ELSE [i \in 1 .. Len(values) |-> IF values[i] THEN 1 ELSE 0]

\* The bytes the reader takes, and the booleans it makes of them.
BodyLength(size, packed) ==
  IF packed THEN WholeBytes(size) + (IF WholeBytes(size) * ByteBits < size THEN 1 ELSE 0)
  ELSE size

BitOf(body, size, j) ==
  LET whole == WholeBytes(size)
      b == IF j < whole * ByteBits THEN j \div ByteBits ELSE whole
  IN  (body[b + 1] \div 2 ^ (j - b * ByteBits)) % 2 = 1

ReadVectorBody(body, size, packed) ==
  [j \in 1 .. size |-> IF packed THEN BitOf(body, size, j - 1) ELSE body[j] > 0]

\* Slip: the byte that is only partly used is not skipped.
SkippedLength_Down(size, packed) == IF packed THEN size \div ByteBits ELSE size

\* Slip: one more byte is skipped, whether or not booleans are left over.
SkippedLength_OneMore(size, packed) ==
  IF packed THEN size \div ByteBits + 1 ELSE size

SkippedLength(size, packed) ==
  IF packed THEN (size + ByteBits - 1) \div ByteBits ELSE size

=============================================================================
