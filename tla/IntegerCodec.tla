---------------------------- MODULE IntegerCodec ----------------------------
(***************************************************************************)
(* Integers on the wire (util.h, types.h, bufferedStreamWriter.h,          *)
(* bufferedStreamReader.h, serialisation.h): the header byte, sizes of     *)
(* variable length, their counterpart for the compiler, and the conversion *)
(* of a number into a type of another width or sign.                       *)
(*                                                                         *)
(* A byte has ByteBits bits (8 in the code), a size_t SizeBits (64), the   *)
(* first part of a VarInt FirstBytes bytes (8).                            *)
(***************************************************************************)
EXTENDS ZigZag, Sequences

CONSTANTS ByteBits, TypeBits, SizeBits, FirstBytes

\* The eight types take three bits of a header.  The second part of a VarInt
\* holds two bytes, and no size needs more.
ASSUME IntegerAssumption ==
  /\ ByteBits \in Nat /\ TypeBits \in 3 .. (ByteBits - 1)
  /\ FirstBytes \in Nat \ {0}
  /\ SizeBits \in Nat /\ SizeBits <= (ByteBits - 1) * (FirstBytes + 2)

ByteModulus == 2 ^ ByteBits
SizeModulus == 2 ^ SizeBits
More == 2 ^ (ByteBits - 1)        \* the bit of a byte that says: more follow

-----------------------------------------------------------------------------
(***************************************************************************)
(* The header: the type in the lowest bits, the index above it.            *)
(***************************************************************************)
CreateHeader(index, type) ==
  ((index * 2 ^ TypeBits) % ByteModulus) + (type % 2 ^ TypeBits)
GetHeaderType(header) == header % 2 ^ TypeBits
GetHeaderIndex(header) == header \div 2 ^ TypeBits

-----------------------------------------------------------------------------
(***************************************************************************)
(* Sizes: the lowest bits first.                                           *)
(***************************************************************************)
SizeBytes[n \in 0 .. (SizeModulus - 1)] ==
  IF n >= More THEN <<(n % More) + More>> \o SizeBytes[n \div More] ELSE <<n>>

WriteSize(n) == SizeBytes[n]

\* How many bytes ReadSize takes, and what it makes of them.
SizeLength(wire, at) ==
  CHOOSE k \in 1 .. (Len(wire) - at + 1) :
    /\ k = Len(wire) - at + 1 \/ wire[at + k - 1] < More
    /\ \A j \in 1 .. (k - 1) : wire[at + j - 1] >= More
ReadSize(wire, at) ==
  LET sum[k \in 0 .. SizeLength(wire, at)] ==
        IF k = 0 THEN 0
        ELSE sum[k - 1] + (wire[at + k - 1] % More) * 2 ^ ((ByteBits - 1) * (k - 1))
  IN  sum[SizeLength(wire, at)] % SizeModulus

-----------------------------------------------------------------------------
(***************************************************************************)
(* The same for constants.  The first bytes are packed into one integer,   *)
(* the last two into another; the recursion over templates stops when no   *)
(* further byte follows, whatever the number of bytes so far.              *)
(***************************************************************************)
FirstModulus == 2 ^ (ByteBits * FirstBytes)
Remaining(n, i) == n \div 2 ^ ((ByteBits - 1) * i)

FirstPart(n, i) ==
  LET first[k \in Nat] ==
        IF k = 0 THEN 0
        ELSE (first[k - 1] * ByteModulus + (Remaining(n, k - 1) % More) + More)
               % FirstModulus
  IN  first[i]

VarIntSecond(rest) ==
  ((rest % More) + More) * ByteModulus + ((rest \div More) % More)

LastIndex(n) ==
  CHOOSE i \in 0 .. FirstBytes :
    /\ i = FirstBytes \/ Remaining(n, i) < More
    /\ \A j \in 0 .. (i - 1) : Remaining(n, j) >= More

VarInt(n) ==
  LET i == LastIndex(n)
  IN  IF Remaining(n, i) < More
      THEN <<(FirstPart(n, i) * ByteModulus + Remaining(n, i)) % FirstModulus, 0>>
      ELSE <<FirstPart(n, i), VarIntSecond(Remaining(n, i))>>

\* One step of FromVarIntHelper: a byte of the second part while it has one.
Unpacked(value, first, second) ==
  IF second # 0
  THEN <<(value * More + (second % More)) % SizeModulus, first, second \div ByteModulus>>
  ELSE <<(value * More + (first % More)) % SizeModulus, first \div ByteModulus, 0>>

\* Slip: the first part is taken before the second.
FromVarInt_FirstPartFirst(first, second) ==
  LET run[k \in Nat] ==
        IF k = 0 THEN <<0, second, first>>
        ELSE LET r == run[k - 1]
             IN  IF r[2] = 0 /\ r[3] = 0 THEN r ELSE Unpacked(r[1], r[2], r[3])
  IN  run[FirstBytes + 2][1]

FromVarInt(first, second) ==
  LET run[k \in Nat] ==
        IF k = 0 THEN <<0, first, second>>
        ELSE LET r == run[k - 1]
             IN  IF r[2] = 0 /\ r[3] = 0 THEN r ELSE Unpacked(r[1], r[2], r[3])
  IN  run[FirstBytes + 2][1]

VarIntSize(n) ==
  CHOOSE k \in 1 .. (FirstBytes + 2) :
    Remaining(n, k - 1) < More /\ \A j \in 1 .. (k - 1) : Remaining(n, j - 1) >= More

-----------------------------------------------------------------------------
(***************************************************************************)
(* Integer types, by the header type of their width (types.h:68) and       *)
(* whether they are signed.  Signed ones travel as unsigned ones.          *)
(***************************************************************************)
Array == 1
UInt8 == 4
UInt32 == 6
UInt64 == 7
ModulusOf(type) == 2 ^ (ByteBits * 2 ^ (type - UInt8))
RangeOf(type, signed) ==
  IF signed THEN (- (ModulusOf(type) \div 2)) .. (ModulusOf(type) \div 2 - 1)
  ELSE 0 .. (ModulusOf(type) - 1)

\* Slip: a number on the wire is taken for a signed one.
Cast_SignExtended(u, from, type, signed) ==
  LET v == Signed(u, ModulusOf(from)) % ModulusOf(type)
  IN  IF signed THEN Signed(v, ModulusOf(type)) ELSE v

\* static_cast from the unsigned type of the stream.
Cast(u, from, type, signed) ==
  LET v == u % ModulusOf(type)
  IN  IF signed THEN Signed(v, ModulusOf(type)) ELSE v

=============================================================================
