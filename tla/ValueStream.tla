---------------------------- MODULE ValueStream ----------------------------
(***************************************************************************)
(* One value, from a serialising message to a deserialising one            *)
(* (WritePrimitive, WriteVectorBody, ReadPrimitive, ReadPrimitiveVector,   *)
(* SkipVariable): written behind its header, and then either read by a     *)
(* member of any type of its kind, or skipped because no member has its    *)
(* index.                                                                  *)
(*                                                                         *)
(* The wire is a sequence of bytes, except that a word of any width is one *)
(* element of it: words are copied as they are in memory.                  *)
(***************************************************************************)
EXTENDS BooleanCodec

CONSTANTS
  SingleExpBits, SinglePrecision, SingleBoost,
  DoubleExpBits, DoublePrecision, DoubleBoost,
  Sizes, Numbers, Singles, Doubles, BooleanVectors, \* what is written
  IntegerTypes                                        \* of the members

Single == INSTANCE FloatCodec
  WITH ExpBits <- SingleExpBits, Precision <- SinglePrecision, Boost <- SingleBoost
Double == INSTANCE FloatCodec
  WITH ExpBits <- DoubleExpBits, Precision <- DoublePrecision, Boost <- DoubleBoost

VARIABLES item, wire, position, received

ASSUME ValueAssumption ==
  /\ BlockBytes \in Nat \ {0}
  /\ Single!FormatFits /\ Double!FormatFits
  /\ Sizes \subseteq 0 .. (SizeModulus - 1)
  /\ IntegerTypes \subseteq UInt8 .. UInt64
  /\ \A i \in Numbers : /\ i.type \in UInt8 .. UInt64 /\ i.signed \in BOOLEAN
                         /\ i.value \in RangeOf(i.type, i.signed)
  /\ Singles \subseteq Single!Floats /\ Doubles \subseteq Double!Floats
  /\ BooleanVectors \subseteq Seq(BOOLEAN)
  /\ \A v \in BooleanVectors : Len(v) < SizeModulus

vars == <<item, wire, position, received>>
Nothing == [kind |-> "nothing"]
Indices == 0 .. (2 ^ (ByteBits - TypeBits) - 1)

Init == item = Nothing /\ wire = <<>> /\ position = 1 /\ received = Nothing

-----------------------------------------------------------------------------
(***************************************************************************)
(* The writer.                                                             *)
(***************************************************************************)
Write(i, bytes) ==
  /\ item = Nothing
  /\ item' = i /\ wire' = bytes
  /\ UNCHANGED <<position, received>>

WriteSizeValue(n) == Write([kind |-> "size", value |-> n], WriteSize(n))

WriteInteger(i, index) ==
  Write([kind |-> "integer", index |-> index, type |-> i.type, signed |-> i.signed,
         value |-> i.value],
        <<CreateHeader(index, i.type), i.value % ModulusOf(i.type)>>)

WriteSingle(f, undefined) ==
  Write([kind |-> "float", value |-> f],
        <<CreateHeader(0, UInt32), Single!ToWord(f, undefined)>>)
WriteDouble(f, undefined) ==
  Write([kind |-> "double", value |-> f],
        <<CreateHeader(0, UInt64), Double!ToWord(f, undefined)>>)

WriteBooleans(values, packed) ==
  Write([kind |-> "booleans", value |-> values],
        <<CreateHeader(0, Array), CreateHeader(IF packed THEN 1 ELSE 0, UInt8)>>
          \o WriteSize(Len(values)) \o WriteVectorBody(values, packed))

-----------------------------------------------------------------------------
(***************************************************************************)
(* The reader.  It finds the kind of a value in its header.                *)
(***************************************************************************)
Receive(r, length) ==
  /\ received = Nothing
  /\ received' = r
  /\ position' = position + length
  /\ UNCHANGED <<item, wire>>

Type == GetHeaderType(wire[position])

ReadSizeValue ==
  /\ item.kind = "size"
  /\ Receive([kind |-> "size", value |-> ReadSize(wire, position)],
             SizeLength(wire, position))

ReadInteger(type, signed) ==
  /\ item.kind = "integer"
  /\ Receive([kind |-> "integer", index |-> GetHeaderIndex(wire[position]),
              type |-> type, signed |-> signed,
              value |-> Cast(wire[position + 1], Type, type, signed)],
             2)

\* A float that was a double is rounded, a double that was a float exact; no
\* word stands for an infinity.
ToSingle(d) == Single!Nearest(d.neg, Double!Mantissa(d), Double!Scale(d))
ToDouble(f) == Double!Nearest(f.neg, Single!Mantissa(f), Single!Scale(f))

ReadFloat ==
  /\ item.kind \in {"float", "double"}
  /\ LET d == Double!FromWord(wire[position + 1])
         f == Single!FromWord(wire[position + 1])
     IN  Receive([kind |-> "float",
                  value |-> IF Type = UInt64 THEN ToSingle(d) ELSE f],
                 2)

ReadDouble ==
  /\ item.kind \in {"float", "double"}
  /\ LET d == Double!FromWord(wire[position + 1])
         f == Single!FromWord(wire[position + 1])
     IN  Receive([kind |-> "double",
                  value |-> IF Type = UInt32 THEN ToDouble(f) ELSE d],
                 2)

\* Where the body of an array starts, how many elements it has, and whether
\* they are packed.
ArraySize == ReadSize(wire, position + 2)
ArrayBody == position + 2 + SizeLength(wire, position + 2)
ArrayPacked == GetHeaderIndex(wire[position + 1]) % 2 = 1

ReadBooleans ==
  /\ item.kind = "booleans"
  /\ LET length == BodyLength(ArraySize, ArrayPacked)
         body == SubSeq(wire, ArrayBody, ArrayBody + length - 1)
     IN  Receive([kind |-> "booleans",
                  value |-> ReadVectorBody(body, ArraySize, ArrayPacked)],
                 ArrayBody + length - position)

SkipVariable ==
  /\ item.kind \notin {"nothing", "size"}
  /\ Receive([kind |-> "skipped"],
             IF Type = Array
             THEN ArrayBody + SkippedLength(ArraySize, ArrayPacked) - position
             ELSE 2)

Done == received # Nothing /\ UNCHANGED vars

WriteNext ==
  \/ \E n \in Sizes : WriteSizeValue(n)
  \/ \E i \in Numbers, index \in Indices : WriteInteger(i, index)
  \/ \E f \in Singles : \E u \in Single!Undefined : WriteSingle(f, u)
  \/ \E f \in Doubles : \E u \in Double!Undefined : WriteDouble(f, u)
  \/ \E v \in BooleanVectors, packed \in BOOLEAN : WriteBooleans(v, packed)

Next ==
  \/ WriteNext
  \/ ReadSizeValue \/ ReadFloat \/ ReadDouble \/ ReadBooleans \/ SkipVariable
  \/ \E type \in IntegerTypes, signed \in BOOLEAN : ReadInteger(type, signed)
  \/ Done

Spec == Init /\ [][Next]_vars

-----------------------------------------------------------------------------
(***************************************************************************)
(* Properties.                                                             *)
(***************************************************************************)
\* One value is written and then received, by a position within the wire.
TypeOK ==
  /\ item.kind \in {"nothing", "size", "integer", "float", "double", "booleans"}
  /\ wire \in Seq(Nat)
  /\ position \in 1 .. (Len(wire) + 1)
  /\ received.kind \in {"nothing", "skipped", item.kind}
       \cup (IF item.kind \in {"float", "double"} THEN {"float", "double"} ELSE {})

\* A size, a vector of booleans and the index of a header are read as they
\* were written, over any number of bytes, rounds of the buffer and bits left
\* over.  An integer is read as it was written by exactly the members that can
\* hold it, unless it is negative and the member wider: then it becomes
\* positive (exceptions.h:152, binaryDeserMessage.h:333).
ValuesKept ==
  /\ received.kind \in {"size", "booleans"} => received.value = item.value
  /\ received.kind = "integer" => received.index = item.index
  /\ received.kind = "integer" =>
       (received.value = item.value
          <=> /\ item.value \in RangeOf(received.type, received.signed)
              /\ item.value >= 0 \/ received.type <= item.type)

\* A float or a double is read as it was written but for the lowest bit of its
\* significand, the sign of a zero and the smallest denormals; as a double or
\* a float, it is the number of that type nearest to this one (util.cpp:168,
\* binaryDeserMessage.h:406).
FloatsKept ==
  /\ item.kind = "float" /\ Single!Kept(item.value) =>
       LET f == Single!Shortened(item.value)
       IN  /\ received.kind = "float" => received.value = f
           /\ received.kind = "double" => received.value = ToDouble(f)
  /\ item.kind = "double" /\ Double!Kept(item.value) =>
       LET d == Double!Shortened(item.value)
       IN  /\ received.kind = "double" => received.value = d
           /\ received.kind = "float" => received.value = ToSingle(d)

\* Whether a value was read or skipped, the next one starts where it ends:
\* writer, reader and skipper count the same bytes, each in its own way
\* (binarySerMessage.h:202, binaryDeserMessage.h:468, 671).
WireInStep == received.kind # "nothing" => position = Len(wire) + 1

\* What the compiler makes of a size is what WriteSize makes of it, and the
\* compiler gets it back; but of a size with one byte more than the first part
\* has, the first byte is lost (serialisation.h:66).
CompiledAgrees ==
  item.kind = "size" /\ received.kind = "nothing" =>
    LET first == VarInt(item.value)[1]
        second == VarInt(item.value)[2]
        n == Len(WriteSize(item.value))
        inFirst == IF n < FirstBytes THEN n ELSE FirstBytes
        byte(i) ==
          IF i < FirstBytes
          THEN (first \div 2 ^ (ByteBits * (inFirst - 1 - i))) % ByteModulus
          ELSE (second \div 2 ^ (ByteBits * (n - 1 - i))) % ByteModulus
    IN  /\ VarIntSize(item.value) = n
        /\ (n # FirstBytes + 1) <=> (\A i \in 0 .. (n - 1) : byte(i) = WriteSize(item.value)[i + 1])
        /\ (n # FirstBytes + 1) <=> (FromVarInt(first, second) = item.value)

\* LDExp and FRExp do what the functions of the library do, denormals and
\* results out of range included; LDExp, which rounds up to three times, may
\* be one number off where the result is a denormal (extraTest.cpp:65).
ScaledAsByTheLibrary ==
  received.kind = "nothing" =>
    /\ item.kind = "float" => Single!Scales(item.value)
    /\ item.kind = "double" => Double!Scales(item.value)

\* Violated: what the tests expect of a float that has been through a stream,
\* EXPECT_FLOAT_EQ(f1, f2) (helper.h:72), four numbers off at most.
FloatsAsTested ==
  item.kind = "float" /\ received.kind = "float" /\ Single!IsFinite(item.value) =>
    Single!Distance(item.value, received.value) <= 4

=============================================================================
