-------------------------- MODULE MCBinaryRoundTrip --------------------------
(***************************************************************************)
(* Classes for TLC.  A class is named by the indices of its members in     *)
(* the order of its Store calls, and those of the objects inside it:       *)
(* <<"outer", <<1, 0>>, <<2, 0>>>> stores 2 and 0, and 2 stores 1 and 0.   *)
(***************************************************************************)
EXTENDS BinaryRoundTrip, SequencesExt

Distinct(S, n) == UNION {{s \in [1 .. k -> S] : Cardinality({s[i] : i \in 1 .. k}) = k} :
                         k \in 0 .. n}

\* Members without a class of their own name any.
AnyClass == CHOOSE c \in Class : TRUE
Prim(i, type) ==
  [index |-> i, type |-> type, sub |-> "None", class |-> AnyClass, size |-> 0, packed |-> FALSE]
Vector(i, sub, n) ==
  [index |-> i, type |-> "Array", sub |-> sub, class |-> AnyClass, size |-> n, packed |-> FALSE]
Object(i, c) ==
  [index |-> i, type |-> "Object", sub |-> "None", class |-> c, size |-> 0, packed |-> FALSE]
Objects(i, c, n) ==
  [index |-> i, type |-> "Array", sub |-> "Object", class |-> c, size |-> n, packed |-> FALSE]
Packed(i, c, n) == [Objects(i, c, n) EXCEPT !.packed = TRUE]

\* Every order and every subset: 0 a number, 1 an object, 2 two objects; or 2
\* two packed objects, of two numbers and an object, or with a vector inside.
OrderInner == {<<"inner", <<>>, s>> : s \in Distinct({0, 1}, 2)}
OrderElement == {<<"element", <<>>, s>> : s \in Distinct({0, 1, 2}, 3) \cup {<<3>>, <<3, 0>>}}
OrderOuter == {<<"outer", c[3], s>> : c \in OrderInner, s \in Distinct({0, 1, 2}, 3)}
OrderPacked == {<<"packed", c[3], s>> : c \in OrderElement, s \in {<<0, 2>>, <<2, 0>>}}
OrderSent == OrderOuter \cup OrderPacked
OrderClass == OrderInner \cup OrderElement \cup OrderSent
OrderLeaf == <<"inner", <<>>, <<0>>>>
InnerOf(c) == <<IF c[1] = "outer" THEN "inner" ELSE "element", <<>>, c[2]>>
OrderMember(c, i) ==
  CASE c[1] = "inner" -> Prim(i, "UInt8")
    [] c[1] = "element" /\ i < 2 -> Prim(i, "UInt8")
    [] c[1] = "element" /\ i = 2 -> Object(i, OrderLeaf)
    [] c[1] = "element" /\ i = 3 -> Objects(i, OrderLeaf, 1)
    [] c[1] \in {"outer", "packed"} /\ i = 0 -> Prim(i, "UInt32")
    [] c[1] = "outer" /\ i = 1 -> Object(i, InnerOf(c))
    [] c[1] = "outer" /\ i = 2 -> Objects(i, InnerOf(c), 2)
    [] c[1] = "packed" /\ i = 2 -> Packed(i, InnerOf(c), 2)
OrderMembers == [c \in OrderClass |-> [k \in 1 .. Len(c[3]) |-> OrderMember(c, c[3][k])]]

\* Two members of every two kinds, read as every two kinds, in the other
\* order or only the first.
Kinds == {"UInt8", "UInt64", "Double", "String", "bytes", "strings", "object", "objects"}
Leaf == <<"leaf">>
Kinded(i, kind) ==
  CASE kind = "bytes" -> Vector(i, "UInt8", 2)
    [] kind = "strings" -> Vector(i, "String", 2)
    [] kind = "object" -> Object(i, Leaf)
    [] kind = "objects" -> Objects(i, Leaf, 2)
    [] OTHER -> Prim(i, kind)
TypeWritten == {<<"12", a, b>> : a, b \in Kinds}
TypeRead == {<<"21", a, b>> : a, b \in Kinds} \cup {<<"1", a>> : a \in Kinds}
TypeClass == TypeWritten \cup TypeRead \cup {Leaf}
TypeMembers ==
  [c \in TypeClass |->
     CASE c[1] = "12" -> <<Kinded(1, c[2]), Kinded(2, c[3])>>
       [] c[1] = "21" -> <<Kinded(2, c[2]), Kinded(1, c[3])>>
       [] c[1] = "1" -> <<Kinded(1, c[2])>>
       [] c = Leaf -> <<Prim(1, "UInt8")>>]

\* One class with a member of every kind, a reordered one, and one that
\* skips; their streams end anywhere.
LongClass == {"written", "reordered", "short", "inner", "leaf"}
LongMembers ==
  [c \in LongClass |->
     LET prim == Prim(0, "UInt16")
         bytes == Vector(1, "UInt8", 2)
         strings == Vector(2, "String", 2)
         objects == Objects(3, "inner", 2)
     IN  CASE c = "written" -> <<objects, prim, bytes, strings>>
           [] c = "reordered" -> <<strings, prim, objects, bytes>>
           [] c = "short" -> <<prim>>
           [] c = "inner" -> <<Object(1, "leaf"), prim>>
           [] c = "leaf" -> <<prim>>]

\* A packed vector, read by a class that lacks it and by one whose elements
\* have a string for the number.
PackedClass == {"written", "lacking", "other", "number", "string"}
PackedMembers ==
  [c \in PackedClass |->
     CASE c = "written" -> <<Packed(1, "number", 2), Prim(0, "UInt8")>>
       [] c = "lacking" -> <<Prim(0, "UInt8")>>
       [] c = "other" -> <<Packed(1, "string", 2), Prim(0, "UInt8")>>
       [] c = "number" -> <<Prim(0, "UInt8")>>
       [] c = "string" -> <<Prim(0, "String")>>]

\* Both at once.
MixedClass == OrderClass \cup TypeClass
MixedMembers == [c \in MixedClass |-> IF c \in TypeClass THEN TypeMembers[c] ELSE OrderMembers[c]]
MixedWritten == OrderSent \cup TypeWritten
MixedRead == OrderSent \cup TypeRead

=============================================================================
