---------------------------- MODULE BinaryFormat ----------------------------
(***************************************************************************)
(* What the two binary messages agree on: how a class describes itself,    *)
(* and what a stream is made of (types.h, util.h).                         *)
(*                                                                         *)
(* A class is the sequence of the Store calls its OnSerialise makes.  A    *)
(* value is known by its path: the indices and the element numbers that    *)
(* lead to it from the number of the message it is in.  A stream is a      *)
(* sequence of tokens: headers, sizes and values, where a value carries    *)
(* the path it was written from in place of its bytes.                     *)
(***************************************************************************)
EXTENDS Integers, Sequences, FiniteSets

CONSTANTS
  Class,      \* names of serialisable classes
  Members     \* Members[c]: the Store calls of class c, in order

IntegerTypes == {"UInt8", "UInt16", "UInt32", "UInt64"}
HeaderTypes == IntegerTypes \cup {"Terminator", "Array", "Object", "String"}
PrimitiveTypes == IntegerTypes \cup {"Float", "Double", "String"}

(***************************************************************************)
(* index: the index the class gives the member; type: its declared type;   *)
(* sub: the declared type of the elements of a vector; class: the class    *)
(* of an object, or of the objects of a vector; size: how many elements    *)
(* a vector has when it is written; packed: whether the flag of a vector   *)
(* of objects is set when it is written.                                   *)
(***************************************************************************)
Member ==
  {m \in [index : 0 .. 27, type : PrimitiveTypes \cup {"Array", "Object"},
          sub : PrimitiveTypes \cup {"Object", "None"}, class : Class, size : Nat,
          packed : BOOLEAN] : m.type = "Array" => m.sub # "None"}


\* Float and double travel as unsigned integers.
GetHeaderEnum(type) ==
  CASE type = "Float" -> "UInt32" [] type = "Double" -> "UInt64" [] OTHER -> type

\* Slip: floats are read from any integer.
Accepted_FloatFromAny(type) == IF type \in {"String", "Array", "Object"} THEN {type} ELSE IntegerTypes

\* The header types a member of a declared type is read from: integers widen
\* and narrow, float and double convert into each other, the rest is strict.
Accepted(type) ==
  CASE type \in IntegerTypes -> IntegerTypes
    [] type \in {"Float", "Double"} -> {"UInt32", "UInt64"}
    [] OTHER -> {type}

Header(index, type) == [token |-> "header", index |-> index, type |-> type]
Terminator == Header(0, "Terminator")
Size(n) == [token |-> "size", n |-> n]
Value(path) == [token |-> "value", of |-> path]

HeaderToken == [token : {"header"}, index : 0 .. 27, type : HeaderTypes]
Token == HeaderToken
         \cup [token : {"size"}, n : Nat]
         \cup [token : {"value"}, of : Seq(Nat)]

IsObjects(m) == m.type = "Array" /\ m.sub = "Object"
IsVector(m) == m.type = "Array" /\ m.sub # "Object"
IsObject(m) == m.type = "Object"
IsPrimitive(m) == m.type \in PrimitiveTypes

MembersOf(c) == {Members[c][i] : i \in 1 .. Len(Members[c])}

\* StoreVector of the value message does not compile (binarySerMessage.h:364),
\* so no class with a vector of primitives is the class of a vector's elements.
ASSUME FormatAssumption ==
  /\ Members \in [Class -> Seq(Member)]
  /\ \A c \in Class : \A i, j \in 1 .. Len(Members[c]) :
        Members[c][i].index = Members[c][j].index => i = j
  /\ \A c \in Class : \A m \in MembersOf(c) :
        IsObjects(m) => ~\E n \in MembersOf(m.class) : IsVector(n)

=============================================================================
