-------------------------- MODULE BinarySerMessage --------------------------
(***************************************************************************)
(* BinarySerialisationMessage (binary/binarySerMessage.h): a message the   *)
(* caller Enters with one object after the other.  OnSerialise of the      *)
(* object's class calls the message back, once per member, and nested      *)
(* objects recurse: calls is the stack of the calls of OnSerialise in      *)
(* progress, the innermost first, and what each has still to store.        *)
(*                                                                         *)
(* The elements of a packed vector share one list of headers, from         *)
(* BinarySerialisationHeaderMessage, and BinarySerialisationValueMessage   *)
(* stores their bare values.  as says how an object is stored:             *)
(*   "object"  by the message itself; a Terminator follows                 *)
(*   "value"   by the value message                                        *)
(*   "inner"   by the message itself, as element of a vector that is       *)
(*             inside a packed one; nothing follows                        *)
(***************************************************************************)
EXTENDS BinaryFormat

CONSTANTS
  Sendable,       \* classes the caller Enters with
  MaxMessages     \* bound on the messages written

VARIABLES
  stream,         \* what has been written
  calls,
  sent,           \* the classes entered with (history)
  ends            \* length of the stream at the end of each message (history)

writerVars == <<stream, calls, sent, ends>>

Call(c, path, as) == [path |-> path, todo |-> Members[c], as |-> as]

Calls == [path : Seq(Nat), todo : Seq(Member), as : {"object", "value", "inner"}]

Init ==
  /\ stream = <<>> /\ calls = <<>>
  /\ sent = <<>> /\ ends = <<>>

\* The call in progress has made one Store more.
Advanced == <<[Head(calls) EXCEPT !.todo = Tail(@)]>> \o Tail(calls)

StoreEntryPoint(c) ==
  /\ calls = <<>>
  /\ Len(sent) < MaxMessages
  /\ sent' = Append(sent, c)
  /\ calls' = <<Call(c, <<Len(sent')>>, "object")>>
  /\ UNCHANGED <<stream, ends>>

As == Head(calls).as

MemberHeader(m) == Header(m.index, GetHeaderEnum(m.type))

\* Slip: a header in front of every value.
OwnHeader_Always(m) == <<MemberHeader(m)>>
\* The value message stores no headers.
OwnHeader(m) == IF As = "value" THEN <<>> ELSE <<MemberHeader(m)>>

Flags(m) == IF m.packed THEN 1 ELSE 0
ArrayHeader(m) == <<Header(Flags(m), GetHeaderEnum(m.sub)), Size(m.size)>>

Store(m, path) ==
  /\ IsPrimitive(m)
  /\ stream' = stream \o OwnHeader(m) \o <<Value(path)>>
  /\ calls' = Advanced
  /\ UNCHANGED <<sent, ends>>

StoreVector(m, path) ==
  /\ IsVector(m)
  /\ stream' = stream \o OwnHeader(m) \o ArrayHeader(m)
                      \o [k \in 1 .. m.size |-> Value(Append(path, k))]
  /\ calls' = Advanced
  /\ UNCHANGED <<sent, ends>>

StoreObject(m, path) ==
  /\ IsObject(m)
  /\ stream' = stream \o OwnHeader(m)
  /\ calls' = <<Call(m.class, path, "object")>> \o Advanced
  /\ UNCHANGED <<sent, ends>>

Elements(m, path, as) == [k \in 1 .. m.size |-> Call(m.class, Append(path, k), as)]

\* Without the Packed flag: the objects follow each other, as in Enter.
StoreObjectVector(m, path) ==
  /\ IsObjects(m) /\ As # "value" /\ ~m.packed
  /\ stream' = stream \o OwnHeader(m) \o ArrayHeader(m)
  /\ calls' = Elements(m, path, "object") \o Advanced
  /\ UNCHANGED <<sent, ends>>

\* With it: the headers once, taken from value[0] even if there is none.
StorePackedVector(m, path) ==
  /\ IsObjects(m) /\ As # "value" /\ m.packed
  /\ LET todo == Members[m.class]
         headers == [i \in 1 .. Len(todo) |-> MemberHeader(todo[i])]
     IN  stream' = stream \o OwnHeader(m) \o ArrayHeader(m) \o headers \o <<Terminator>>
  /\ calls' = Elements(m, path, "value") \o Advanced
  /\ UNCHANGED <<sent, ends>>

\* In the value message, whatever the flag.
StoreInnerVector(m, path) ==
  /\ IsObjects(m) /\ As = "value"
  /\ stream' = stream \o ArrayHeader(m)
  /\ calls' = Elements(m, path, "inner") \o Advanced
  /\ UNCHANGED <<sent, ends>>

\* OnSerialise has returned.
Return ==
  /\ calls # <<>> /\ Head(calls).todo = <<>>
  /\ stream' = IF As = "object" THEN Append(stream, Terminator) ELSE stream
  /\ calls' = Tail(calls)
  /\ ends' = IF calls' = <<>> THEN Append(ends, Len(stream')) ELSE ends
  /\ UNCHANGED sent

\* OnSerialise of the innermost object stores its next member.
StoreMember ==
  /\ calls # <<>> /\ Head(calls).todo # <<>>
  /\ LET m == Head(Head(calls).todo)
         path == Append(Head(calls).path, m.index)
     IN  \/ Store(m, path)
         \/ StoreVector(m, path)
         \/ StoreObject(m, path)
         \/ StoreObjectVector(m, path)
         \/ StorePackedVector(m, path)
         \/ StoreInnerVector(m, path)

Next ==
  \/ \E c \in Sendable : StoreEntryPoint(c)
  \/ StoreMember
  \/ Return

TypeOK ==
  /\ stream \in Seq(Token)
  /\ calls \in Seq(Calls)
  /\ sent \in Seq(Sendable)
  /\ ends \in Seq(Nat)

=============================================================================
