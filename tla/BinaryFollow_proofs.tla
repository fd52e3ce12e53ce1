------------------------ MODULE BinaryFollow_proofs -------------------------
(***************************************************************************)
(* What is read is what was written: proofs about the two messages         *)
(* together, for classes of any number, size and nesting, also of two      *)
(* versions, and streams that end anywhere.                                *)
(*                                                                         *)
(* Every state of the reader has a moment of the writer's history and a    *)
(* chain of contexts (BinaryFollow).  A step keeps the chain: the rest of  *)
(* the actions follow here, first those of vectors.  As the chain says     *)
(* what the writer wrote next, a reader in step gets no other token than   *)
(* the one it wants (AheadFits), and when OnSerialise returns the last     *)
(* context says what has been read.  From there on the proof is about      *)
(* whole messages: Enter starts each at the end of the one before, the     *)
(* paths keep apart what belongs to different messages, and Sound says     *)
(* what is known of a message that has ended.  Last, the history grows     *)
(* with the writer, and WholeInv holds of both ends.                       *)
(***************************************************************************)
EXTENDS BinaryRoundTrip_proofs


-----------------------------------------------------------------------------
(*****************************************************************************)
(* ReadObject and the vectors of objects.                                  *)
(*****************************************************************************)
\* What a member that is read leads to.
LEMMA ReadLeads ==
  ASSUME NEW x, NEW y, NEW W, NEW n, NEW m, NEW path, NEW T, NEW R, NEW wr \in ClassPairs,
         ReadsAt(x, y, W, n, m, path, T, R, wr), Fitting(m, n)
  PROVE  /\ m.class \in Class /\ n.class \in Class /\ m.size \in Nat /\ m.packed \in BOOLEAN
         /\ Goes(m, n) => <<m.class, n.class>> \in Pairs[wr]
         /\ m.packed /\ m.size > 0 => <<m.class, n.class>> \in PackedPairs[wr]
         /\ R.clean <=> (Goes(m, n) => ~Mismatched[<<m.class, n.class>>])
         /\ Head(x.calls).as # "inner"
         /\ IsObjects(m) /\ Head(x.calls).as = "value" /\ ~Unsupported[wr] => m.size = 0 /\ ~m.packed
<1>1. /\ ItemRead(x.calls, T, R, n, path, wr) /\ m = Item(x.calls) /\ m \in Member /\ (R.clean <=> ~Bad(m, n))
  BY DEF ReadsAt
<1>2. PICK pr \in Pairs[wr] :
        /\ pr \in ClassPairs /\ m \in MembersOf(pr[1]) /\ n \in MembersOf(pr[2])
        /\ Head(x.calls).as # "inner"
        /\ Head(x.calls).as = "value" => pr \in PackedPairs[wr]
  BY <1>1 DEF ItemRead
<1>3. m.index = n.index
  BY <1>1 DEF ReadsAt
<1>4. /\ m.class \in Class /\ n.class \in Class
      /\ Goes(m, n) => <<m.class, n.class>> \in Pairs[wr]
      /\ m.packed /\ m.size > 0 => <<m.class, n.class>> \in PackedPairs[wr]
  BY <1>2, <1>3, LeadsIn
<1>5. m.size \in Nat /\ m.packed \in BOOLEAN
  BY <1>1 DEF Member
<1>6. R.clean <=> (Goes(m, n) => ~Mismatched[<<m.class, n.class>>])
  BY <1>1 DEF Bad
<1>7. IsObjects(m) /\ Head(x.calls).as = "value" /\ ~Unsupported[wr] => m.size = 0 /\ ~m.packed
  BY <1>2, <1>5 DEF Unsupported
<1> QED BY <1>2, <1>4, <1>5, <1>6, <1>7

\* An object is read.
LEMMA ReadObjectOn ==
  ASSUME NEW x, NEW y, NEW W, NEW g, IsAt(x, y, W, g), Kindly, Reader!ReadObject
  PROVE  Onwards(x, y, W)'
<1>f. PICK f, T, R, n, m, wr, p : /\ f = frames[1] /\ T = g[1] /\ R = g[2] /\ n = f.member
                                 /\ m = Item(x.calls) /\ wr = PairNow /\ p = f.path
  OBVIOUS
<1>1. /\ Reader!Running("read") /\ Reader!Got /\ Reader!IsObject(Reader!Top.member)
      /\ frames' = <<Reader!ObjectFrame(Reader!Top.member.class, Reader!Top.path)>> \o Tail(frames)
      /\ UNCHANGED Reader!messageVars /\ stream' = stream /\ result' = result /\ pos' = pos
  BY DEF Reader!ReadObject, Reader!Become
<1>2. /\ frames # <<>> /\ Reader!Top = f /\ f.what = "read"
      /\ Reads(n, p, g[1], R, PairNow) /\ f.type = GetHeaderEnum(m.type)
      /\ Reached(x.at + Own(x.calls)) /\ ReaderTypes /\ wr \in ClassPairs
  BY <1>1, <1>f, ValueFrame, PresentIs
<1>3. ReadsAt(x, y, W, n, m, p, T, R, wr) /\ ~mObjectSkipping
  BY <1>2, <1>f, ReadsThere
<1>4. /\ m \in Member /\ n \in Member /\ m = Item(x.calls) /\ StoresNext(x, y, W) /\ p \in Seq(Nat)
      /\ p = ItemPath(x.calls)
      /\ x.at + Own(x.calls) \in Nat /\ TakesItem(T, R) /\ (Fitting(m, n) => Adds(x.calls, T, R, n, p))
  BY <1>3 DEF ReadsAt
<1>5. IsObject(n) /\ GetHeaderEnum(m.type) \in Accepted(n.type)
  BY <1>1, <1>2, <1>f, ReaderKinds DEF Reader!Got, Reader!WrongType
<1>6. Fitting(m, n) /\ IsObject(m)
  <2>1. n.type # "Array"
    BY <1>5 DEF IsObject
  <2>2. Fitting(m, n)
    BY <1>4, <1>5, <2>1, AcceptedFits
  <2> QED BY <1>4, <1>5, <2>2, FittingKinds
<1>7. y.at = x.at + Own(x.calls)
      /\ y.calls = <<CallOf(m.class, p, "object")>> \o AfterStore(x.calls)
  BY <1>4, <1>6 DEF StoresNext, ObjectStored
<1>8. /\ m.class \in Class /\ n.class \in Class /\ <<m.class, n.class>> \in Pairs[wr]
      /\ (R.clean <=> ~Mismatched[<<m.class, n.class>>])
  BY <1>2, <1>3, <1>5, <1>6, ReadLeads DEF Goes
<1>9. R.got = T.got \cup Owed(p, Common[<<m.class, n.class>>])
  BY <1>4, <1>5, <1>6 DEF Adds
<1>10. PICK places, N, w, r : places = [k \in 1 .. 1 |-> p] /\ N = 1 /\ w = m.class /\ r = n.class
  OBVIOUS
<1>11. places \in [1 .. N -> Seq(Nat)] /\ places[1] = p
  BY <1>4, <1>10
<1>12. Heads(w, N, places, "object") = <<CallOf(m.class, p, "object")>>
  BY <1>10 DEF Heads
<1>13. PlacesOwed(places, N, Common[<<w, r>>]) = Owed(p, Common[<<m.class, n.class>>])
  <2>1. PICK P : P = Common[<<w, r>>]
    OBVIOUS
  <2>2. {Owed(places[k], P) : k \in 1 .. N} = {Owed(p, P)}
    BY <1>10, <1>11
  <2>3. PlacesOwed(places, N, P) = Owed(p, P)
    BY <2>2 DEF PlacesOwed
  <2> QED BY <1>10, <2>1, <2>3
<1>14. ToRead(x, y, g[1], R, N, w, r, places, PairNow)
  <2>1. y.calls = Heads(w, N, places, "object") \o AfterStore(x.calls)
    BY <1>7, <1>12
  <2>2. R.got = g[1].got \cup PlacesOwed(places, N, Common[<<w, r>>])
    BY <1>9, <1>13, <1>f
  <2>3. /\ N \in Nat /\ w \in Class /\ r \in Class
        /\ (N > 0 => <<w, r>> \in Pairs[PairNow]) /\ (R.clean <=> (N > 0 => ~Mismatched[<<w, r>>]))
    BY <1>8, <1>10, <1>f
  <2> QED BY <1>11, <2>1, <2>2, <2>3 DEF ToRead
<1>15. frames' = ReadObjects(r, N, places) \o Tail(frames)
  <2>1. ReadObjects(r, N, places) = <<Reader!ObjectFrame(r, p)>>
    BY <1>10 DEF ReadObjects
  <2> QED BY <1>1, <1>2, <1>10, <1>f, <2>1
<1>16. R = g[2] /\ TakesItem(g[1], R) /\ ~mObjectSkipping /\ Reached(y.at) /\ frames[1].what \in {"read", "body"}
  BY <1>2, <1>3, <1>4, <1>7, <1>f
<1> QED BY <1>1, <1>14, <1>15, <1>16, ObjectsOn

\* The body of a vector of objects, that the reader has just reached.
BodyAt(x, y, W, T, R, f, n, m, p, wr) ==
  /\ f = frames[1] /\ frames # <<>> /\ Reader!Top = f /\ f.what = "body"
  /\ n = f.member /\ m = Item(x.calls) /\ p = f.path
  /\ ReadsAt(x, y, W, n, m, p, T, R, wr) /\ ~mObjectSkipping
  /\ Fitting(m, n) /\ IsObjects(m) /\ IsObjects(n)
  /\ f.n = m.size /\ f.flags = FlagsOf(m) /\ Reached(x.at + Own(x.calls) + 2)

\* The body of a vector of objects is next.
LEMMA ObjectsBody ==
  ASSUME NEW x, NEW y, NEW W, NEW g, IsAt(x, y, W, g),
         Reader!Running("body"), Reader!Got, Reader!IsObjects(Reader!Top.member)
  PROVE  BodyAt(x, y, W, g[1], g[2], frames[1], frames[1].member, Item(x.calls), frames[1].path, PairNow)
<1>f. PICK f, T, R, n, m, wr, p : /\ f = frames[1] /\ T = g[1] /\ R = g[2] /\ n = f.member
                                 /\ m = Item(x.calls) /\ wr = PairNow /\ p = f.path
  OBVIOUS
<1>2. /\ frames # <<>> /\ Reader!Top = f /\ f.what = "body"
      /\ Reads(n, p, g[1], R, PairNow)
      /\ m.type = "Array" /\ n.type = "Array" /\ f.type = GetHeaderEnum(m.sub) /\ f.n = m.size
      /\ f.flags = FlagsOf(m)
      /\ Reached(x.at + Own(x.calls) + 2) /\ ReaderTypes
  BY <1>f, ValueFrame, PresentIs
<1>3. ReadsAt(x, y, W, n, m, p, T, R, wr) /\ ~mObjectSkipping
  BY <1>2, <1>f, ReadsThere
<1>4. m \in Member /\ n \in Member
  BY <1>3 DEF ReadsAt
<1>5. IsObjects(n) /\ f.type = GetHeaderEnum(n.sub)
  BY <1>2, <1>f, ReaderKinds DEF Reader!Got, Reader!WrongType
<1>6. Fitting(m, n) /\ IsObjects(m)
  <2>1. GetHeaderEnum(m.type) \in Accepted(n.type)
    BY <1>2 DEF GetHeaderEnum, Accepted, IntegerTypes
  <2>2. Fitting(m, n)
    BY <1>2, <1>4, <1>5, <2>1, AcceptedFits
  <2> QED BY <1>4, <1>5, <2>2, FittingKinds
<1> QED BY <1>2, <1>3, <1>5, <1>6, <1>f DEF BodyAt

\* A vector of objects that is not packed is read.
LEMMA ReadObjectVectorOn ==
  ASSUME NEW x, NEW y, NEW W, NEW g, IsAt(x, y, W, g), Kindly, Reader!ReadObjectVector
  PROVE  Onwards(x, y, W)'
<1>f. PICK f, T, R, n, m, wr, p : /\ f = frames[1] /\ T = g[1] /\ R = g[2] /\ n = f.member
                                 /\ m = Item(x.calls) /\ wr = PairNow /\ p = f.path
  OBVIOUS
<1>1. /\ Reader!Running("body") /\ Reader!Got /\ Reader!IsObjects(Reader!Top.member)
      /\ Reader!Top.flags % 2 = 0
      /\ frames' = [k \in 1 .. Reader!Top.n |->
                      Reader!ObjectFrame(Reader!Top.member.class, Append(Reader!Top.path, k))] \o Tail(frames)
      /\ UNCHANGED Reader!messageVars /\ stream' = stream /\ result' = result /\ pos' = pos
  BY DEF Reader!ReadObjectVector
<1>2. BodyAt(x, y, W, T, R, f, n, m, p, wr)
  BY <1>1, <1>f, ObjectsBody
<1>3. /\ Reader!Top = f /\ f.what = "body" /\ ReadsAt(x, y, W, n, m, p, T, R, wr) /\ ~mObjectSkipping
      /\ Fitting(m, n) /\ IsObjects(m) /\ IsObjects(n)
      /\ f.n = m.size /\ f.flags = FlagsOf(m) /\ Reached(x.at + Own(x.calls) + 2)
  BY <1>2 DEF BodyAt
<1>4. /\ m \in Member /\ n \in Member /\ m = Item(x.calls) /\ StoresNext(x, y, W) /\ p \in Seq(Nat)
      /\ p = ItemPath(x.calls)
      /\ x.at + Own(x.calls) \in Nat /\ TakesItem(T, R) /\ Adds(x.calls, T, R, n, p)
  BY <1>3 DEF ReadsAt
<1>5. wr \in ClassPairs /\ ~Unsupported[wr]
  BY <1>f, PresentIs
<1>6. /\ m.class \in Class /\ n.class \in Class /\ m.size \in Nat /\ m.packed \in BOOLEAN
      /\ (m.size > 0 => <<m.class, n.class>> \in Pairs[wr])
      /\ (R.clean <=> (m.size > 0 => ~Mismatched[<<m.class, n.class>>]))
      /\ Head(x.calls).as # "inner"
      /\ (Head(x.calls).as = "value" => m.size = 0)
  <2>1. Goes(m, n) <=> m.size > 0
    BY <1>3 DEF Goes, IsObjects, IsObject
  <2> QED BY <1>3, <1>5, <2>1, ReadLeads
<1>7. ~m.packed
  BY <1>1, <1>3, <1>6 DEF FlagsOf
<1>8. Head(x.calls).as \in {"object", "value"}
  <2>1. x.calls \in Seq(CallRecord) /\ x.calls # <<>>
    <3>1. TakesItem(g[1], R)
      BY <1>4, <1>f
    <3> QED BY <3>1, ItemNow
  <2>2. Head(x.calls).as \in {"object", "value", "inner"}
    BY <2>1, CallTypes
  <2> QED BY <1>6, <2>2
<1>9. PICK as : as = ElementsAs(m, Head(x.calls).as)
  OBVIOUS
<1>10. as # "value" /\ (Head(x.calls).as = "object" => as = "object")
  BY <1>7, <1>8, <1>9 DEF ElementsAs
<1>11. /\ y.at = x.at + Own(x.calls) + 2
       /\ y.calls = [k \in 1 .. m.size |-> CallOf(m.class, Append(p, k), as)] \o AfterStore(x.calls)
  BY <1>3, <1>4, <1>9, <1>10 DEF StoresNext, ObjectsStored
<1>12. R.got = T.got \cup ElementsOwed(p, 1 .. m.size, Common[<<m.class, n.class>>])
  BY <1>3, <1>4 DEF Adds
<1>13. PICK places, N, w, r : /\ places = [k \in 1 .. m.size |-> Append(p, k)] /\ N = m.size
                             /\ w = m.class /\ r = n.class
  OBVIOUS
<1>14. places \in [1 .. N -> Seq(Nat)] /\ \A k \in 1 .. N : places[k] = Append(p, k)
  <2>1. \A k \in 1 .. m.size : Append(p, k) \in Seq(Nat)
    BY <1>4, <1>6, AppendProperties
  <2> QED BY <1>13, <2>1
<1>15. [k \in 1 .. m.size |-> CallOf(m.class, Append(p, k), as)] = Heads(w, N, places, "object")
  <2>1. CASE m.size = 0
    <3>1. 1 .. m.size = {} /\ N = 0
      BY <1>13, <2>1
    <3> QED BY <1>13, <3>1 DEF Heads
  <2>2. CASE m.size # 0
    <3>1. as = "object"
      BY <1>6, <1>8, <1>10, <2>2
    <3> QED BY <1>13, <3>1 DEF Heads
  <2> QED BY <2>1, <2>2
<1>16. PlacesOwed(places, N, Common[<<w, r>>]) = ElementsOwed(p, 1 .. m.size, Common[<<m.class, n.class>>])
  BY <1>13, <1>14 DEF PlacesOwed, ElementsOwed
<1>17. ToRead(x, y, g[1], R, N, w, r, places, PairNow)
  BY <1>6, <1>11, <1>12, <1>13, <1>14, <1>15, <1>16, <1>f, Zenon DEF ToRead
<1>18. frames' = ReadObjects(r, N, places) \o Tail(frames)
  <2>1. ReadObjects(r, N, places) = [k \in 1 .. m.size |-> Reader!ObjectFrame(n.class, Append(p, k))]
    BY <1>13 DEF ReadObjects
  <2> QED BY <1>1, <1>3, <1>f, <2>1
<1>19. R = g[2] /\ TakesItem(g[1], R) /\ Reached(y.at) /\ frames[1].what \in {"read", "body"}
  BY <1>3, <1>4, <1>11, <1>f
<1> QED BY <1>1, <1>3, <1>17, <1>18, <1>19, ObjectsOn

-----------------------------------------------------------------------------
(*****************************************************************************)
(* Packed vectors.                                                         *)
(*****************************************************************************)
\* A packed vector is read: its headers come first.
LEMMA ReadPackedVectorOn ==
  ASSUME NEW x, NEW y, NEW W, NEW g, IsAt(x, y, W, g), Kindly, Reader!ReadPackedVector
  PROVE  Onwards(x, y, W)'
<1>f. PICK f, T, R, n, m, wr, p : /\ f = frames[1] /\ T = g[1] /\ R = g[2] /\ n = f.member
                                 /\ m = Item(x.calls) /\ wr = PairNow /\ p = f.path
  OBVIOUS
<1>1. /\ Reader!Running("body") /\ Reader!Got /\ Reader!IsObjects(Reader!Top.member)
      /\ Reader!Top.flags % 2 = 1
      /\ frames' = <<Reader!CacheFrame(Reader!Top.member.class, Reader!Top.path, Reader!Top.n, <<>>)>>
                     \o Tail(frames)
      /\ stream' = stream /\ result' = result /\ pos' = pos
      /\ mCurrentIndexPending' = mCurrentIndexPending
      /\ mCurrentPendingVariables' = mCurrentPendingVariables /\ mVariableHistory' = mVariableHistory
      /\ mObjectSkipping' = mObjectSkipping
  BY DEF Reader!ReadPackedVector, Reader!Become, Reader!streamFlags
<1>2. BodyAt(x, y, W, T, R, f, n, m, p, wr)
  BY <1>1, <1>f, ObjectsBody
<1>3. /\ Reader!Top = f /\ f.what = "body" /\ ReadsAt(x, y, W, n, m, p, T, R, wr) /\ ~mObjectSkipping
      /\ Fitting(m, n) /\ IsObjects(m) /\ IsObjects(n)
      /\ f.n = m.size /\ f.flags = FlagsOf(m) /\ Reached(x.at + Own(x.calls) + 2)
  BY <1>2, <1>f DEF BodyAt
<1>4. /\ m \in Member /\ n \in Member /\ m = Item(x.calls) /\ StoresNext(x, y, W) /\ p \in Seq(Nat)
      /\ p = ItemPath(x.calls)
      /\ x.at + Own(x.calls) \in Nat /\ TakesItem(T, R) /\ Adds(x.calls, T, R, n, p)
  BY <1>3 DEF ReadsAt
<1>5. /\ wr \in ClassPairs /\ ~Unsupported[wr] /\ T \in Context /\ R \in Context /\ T.calls = x.calls
      /\ T.skipping = mObjectSkipping /\ T.clean /\ ReaderTypes
  BY <1>f, PresentIs
<1>6. /\ m.class \in Class /\ n.class \in Class /\ m.size \in Nat /\ m.packed \in BOOLEAN
      /\ (m.size > 0 => <<m.class, n.class>> \in Pairs[wr])
      /\ (m.packed /\ m.size > 0 => <<m.class, n.class>> \in PackedPairs[wr])
      /\ (R.clean <=> (m.size > 0 => ~Mismatched[<<m.class, n.class>>]))
      /\ Head(x.calls).as # "inner"
      /\ (Head(x.calls).as = "value" => ~m.packed)
  <2>1. Goes(m, n) <=> m.size > 0
    BY <1>3 DEF Goes, IsObjects, IsObject
  <2> QED BY <1>3, <1>5, <2>1, ReadLeads
<1>7. m.packed
  BY <1>1, <1>3, <1>6 DEF FlagsOf
<1>8. Head(x.calls).as = "object"
  <2>1. x.calls \in Seq(CallRecord) /\ x.calls # <<>>
    <3>1. TakesItem(g[1], R)
      BY <1>4, <1>f
    <3> QED BY <3>1, ItemNow
  <2>2. Head(x.calls).as \in {"object", "value", "inner"}
    BY <2>1, CallTypes
  <2> QED BY <1>6, <1>7, <2>2
<1>12. R.got = T.got \cup ElementsOwed(p, 1 .. m.size, Common[<<m.class, n.class>>])
  BY <1>3, <1>4 DEF Adds
<1>13. PICK e : e = Reader!CacheFrame(n.class, p, m.size, <<>>)
  OBVIOUS
<1>14. /\ e.what = "cache" /\ e.class = n.class /\ e.path = p /\ e.n = m.size /\ e.headers = <<>>
  BY <1>13 DEF Reader!CacheFrame
<1>15. e \in Reader!Frame
  <2>1. <<>> \in Seq(Reader!HeaderToken)
    OBVIOUS
  <2> QED BY <1>4, <1>6, <1>13, <2>1 DEF Reader!CacheFrame, Reader!Frame, Reader!CacheFrames
<1>16. Stands(e, T, R, wr)
  <2>1. Len(e.headers) = 0 /\ Len(Members[m.class]) \in Nat
    BY <1>6, <1>14, ClassMembers
  <2>2. Caches(e.headers, m.class)
    BY <2>1 DEF Caches
  <2>3. R.clean \in BOOLEAN /\ T.clean \in BOOLEAN
    BY <1>5, ContextTypes
  <2>4. R.clean = (T.clean /\ (m.size > 0 => ~Mismatched[<<m.class, n.class>>]))
    BY <1>5, <1>6, <2>3
  <2>5. TakesItem(T, R) /\ ~T.skipping /\ Head(T.calls).as = "object" /\ p = ItemPath(T.calls)
        /\ m = Item(T.calls)
    BY <1>3, <1>4, <1>5, <1>8
  <2>6. StandsCache(e, T, R, wr)
    BY <1>3, <1>6, <1>7, <1>12, <1>14, <2>1, <2>2, <2>4, <2>5 DEF StandsCache
  <2> QED BY <1>14, <2>6 DEF Stands
<1>17. frames' = <<e>> \o Tail(frames)
  BY <1>1, <1>3, <1>13, <1>f
<1>18. Present(T, x)'
  <2>1. Present(T, x)
    BY <1>f, PresentIs DEF Present
  <2> QED BY <1>1, <2>1 DEF Present
<1>19. TakenSince(e, x)' /\ ~HeaderSeen(e)'
  <2>1. Reached(x.at + Own(x.calls) + 2 + Len(e.headers))'
    BY <1>1, <1>3, <1>4, <1>14 DEF Reached
  <2> QED BY <1>14, <2>1 DEF TakenSince, HeaderSeen
<1>20. Goal(x, y, W)'
  BY <1>1, <1>5, <1>15, <1>16, <1>17, <1>18, <1>19, <1>f, Stays DEF Kindly, IInv
<1> QED BY <1>20 DEF Onwards

\* The part of a sequence from one element on.
LEMMA SubSeqFrom ==
  ASSUME NEW S, NEW c \in Seq(S), NEW a \in Nat, a >= 1, a <= Len(c) + 1,
         NEW s, s = SubSeq(c, a, Len(c))
  PROVE  /\ s \in Seq(S) /\ Len(s) = Len(c) - a + 1
         /\ \A i \in 1 .. Len(c) - a + 1 : s[i] = c[a + i - 1]
OBVIOUS

\* The elements of a packed vector.
LEMMA ElementsAhead ==
  ASSUME NEW w \in Class, NEW path \in Seq(Nat), NEW n \in Nat, NEW rest \in Seq(CallRecord),
         NEW cs, cs = [k \in 1 .. n |-> CallOf(w, Append(path, k), "value")] \o rest
  PROVE  cs \in Seq(CallRecord) /\ Ahead(cs, path, 0, n, w, rest)
<1>1. PICK hs : hs = [k \in 1 .. n |-> CallOf(w, Append(path, k), "value")]
  OBVIOUS
<1>2. \A k \in 1 .. n : CallOf(w, Append(path, k), "value") \in CallRecord
  <2> TAKE k \in 1 .. n
  <2>1. PICK p : p = Append(path, k)
    OBVIOUS
  <2>2. p \in Seq(Nat)
    BY <2>1, AppendProperties
  <2> QED BY <2>1, <2>2, CallOfType
<1>3. hs \in [1 .. n -> CallRecord]
  BY <1>1, <1>2
<1>4. hs \in Seq(CallRecord) /\ Len(hs) = n
  BY <1>3, FunctionIsSeq, LenProperties
<1>5. cs = hs \o rest
  BY <1>1
<1>7. Len(rest) \in Nat
  BY LenProperties
<1>6. /\ cs \in Seq(CallRecord) /\ Len(cs) = n + Len(rest)
      /\ \A i \in 1 .. n : cs[i] = hs[i]
      /\ \A i \in 1 .. Len(rest) : cs[n + i] = rest[i]
  <2>1. /\ cs \in Seq(CallRecord) /\ Len(cs) = Len(hs) + Len(rest)
        /\ \A i \in 1 .. Len(hs) + Len(rest) : cs[i] = IF i <= Len(hs) THEN hs[i] ELSE rest[i - Len(hs)]
    BY <1>4, <1>5, ConcatProperties
  <2>2. \A i \in 1 .. n : cs[i] = hs[i]
    BY <1>4, <1>7, <2>1
  <2>3. \A i \in 1 .. Len(rest) : cs[n + i] = rest[i]
    <3> TAKE i \in 1 .. Len(rest)
    <3>1. n + i \in 1 .. Len(hs) + Len(rest) /\ ~(n + i <= Len(hs)) /\ n + i - Len(hs) = i
      BY <1>4, <1>7
    <3> QED BY <2>1, <3>1
  <2> QED BY <1>4, <2>1, <2>2, <2>3
<1>8. rest = SubSeq(cs, n + 1, Len(cs))
  <2>0. n + 1 \in Nat /\ n + 1 >= 1 /\ n + 1 <= Len(cs) + 1 /\ cs \in Seq(CallRecord)
    BY <1>6, <1>7
  <2>1. PICK s, N : s = SubSeq(cs, n + 1, N) /\ N = Len(cs)
    OBVIOUS
  <2>2. /\ s \in Seq(CallRecord) /\ Len(s) = N - (n + 1) + 1
        /\ \A i \in 1 .. N - (n + 1) + 1 : s[i] = cs[n + 1 + i - 1]
    BY <2>0, <2>1, SubSeqFrom
  <2>5. Len(s) = Len(rest)
    BY <1>6, <1>7, <2>1, <2>2
  <2>3. \A i \in 1 .. Len(s) : s[i] = rest[i]
    <3> TAKE i \in 1 .. Len(s)
    <3>1. i \in Nat /\ i \in 1 .. Len(rest) /\ i \in 1 .. N - (n + 1) + 1 /\ n + 1 + i - 1 = n + i
      BY <1>6, <1>7, <2>1, <2>5
    <3> QED BY <1>6, <2>2, <3>1
  <2>4. s = rest
    BY <2>2, <2>3, <2>5, SeqEqual
  <2> QED BY <2>1, <2>4
<1>9. \A i \in 1 .. (n - 0) : cs[i] = CallOf(w, Append(path, 0 + i), "value")
  BY <1>1, <1>6
<1> QED BY <1>6, <1>7, <1>8, <1>9 DEF Ahead

\* The headers of a packed vector, and what is behind them.
Headers(y, W, m, b, path, rest) ==
  /\ y.at = b + Len(Members[m.class]) + 1 /\ W[y.at] = Terminator
  /\ y.calls = [k \in 1 .. m.size |-> CallOf(m.class, Append(path, k), "value")] \o rest
  /\ \A j \in 1 .. Len(Members[m.class]) : W[b + j] = HeaderOf(Members[m.class][j])

\* The writer has put them in front of the elements.
LEMMA HeadersWritten ==
  ASSUME NEW x, NEW y, NEW W, StoresNext(x, y, W), x.calls # <<>>, IsObjects(Item(x.calls)),
         Head(x.calls).as = "object", NEW m, m = Item(x.calls), m.packed,
         NEW b, b = x.at + Own(x.calls) + 2
  PROVE  Headers(y, W, m, b, ItemPath(x.calls), AfterStore(x.calls))
<1>1. ElementsAs(m, Head(x.calls).as) = "value"
  BY DEF ElementsAs
<1> QED BY <1>1 DEF StoresNext, ObjectsStored, Headers

\* A packed vector of which the headers are being read.
CacheAt(x, y, W, T, R, f, m, wr) ==
  /\ f = frames[1] /\ frames # <<>> /\ Reader!Top = f /\ f.what = "cache"
  /\ f \in Reader!CacheFrames
  /\ StandsCache(f, T, R, wr) /\ m = Item(x.calls) /\ m \in Member /\ m.class \in Class
  /\ StoresNext(x, y, W) /\ y.n = x.n /\ x.calls # <<>> /\ T.calls = x.calls
  /\ x.at \in Nat /\ y.at \in Nat /\ x.at <= y.at /\ x.at + Own(x.calls) \in Nat
  /\ AfterStore(x.calls) \in Seq(CallRecord) /\ R.calls = AfterStore(x.calls)
  /\ ItemPath(x.calls) \in Seq(Nat)
  /\ Reached(x.at + Own(x.calls) + 2 + Len(f.headers))

\* Some of the headers are cached.
LEMMA CacheNow ==
  ASSUME NEW x, NEW y, NEW W, NEW g, IsAt(x, y, W, g), Reader!Running("cache")
  PROVE  CacheAt(x, y, W, g[1], g[2], frames[1], Item(x.calls), PairNow)
<1>f. PICK f, T, R, m, wr : /\ f = frames[1] /\ T = g[1] /\ R = g[2]
                           /\ m = Item(x.calls) /\ wr = PairNow
  OBVIOUS
<1>1. frames # <<>> /\ Reader!Top = f /\ f \in Reader!Frame /\ f.what = "cache"
      /\ Stands(f, T, R, wr) /\ TakenSince(f, x)
  BY <1>f, Innermost DEF Reader!Running
<1>2. f \in Reader!CacheFrames /\ StandsCache(f, T, R, wr)
      /\ Reached(x.at + Own(x.calls) + 2 + Len(f.headers))
  BY <1>1, Kinds DEF Stands, TakenSince
<1>3. TakesItem(g[1], R)
  BY <1>2, <1>f DEF StandsCache
<1>4. /\ m \in Member /\ StoresNext(x, y, W) /\ y.n = x.n /\ x.calls # <<>> /\ x.at \in Nat /\ y.at \in Nat
      /\ x.at <= y.at /\ x.at + Own(x.calls) \in Nat /\ R.calls = AfterStore(x.calls)
      /\ x.calls \in Seq(CallRecord) /\ Head(x.calls).todo # <<>> /\ ItemPath(x.calls) \in Seq(Nat)
  <2>1. /\ Item(x.calls) \in Member /\ StoresNext(x, y, W) /\ y.n = x.n /\ x.calls # <<>>
        /\ x.at \in Nat /\ y.at \in Nat
        /\ x.at <= y.at /\ x.at + Own(x.calls) \in Nat /\ R.calls = AfterStore(x.calls)
        /\ x.calls \in Seq(CallRecord) /\ Head(x.calls).todo # <<>> /\ ItemPath(x.calls) \in Seq(Nat)
    BY <1>3, ItemNow
  <2> QED BY <1>f, <2>1
<1>5. AfterStore(x.calls) \in Seq(CallRecord)
  BY <1>4, CallTypes
<1>6. T.calls = x.calls
  BY <1>f, PresentIs
<1>7. m.class \in Class
  BY <1>4 DEF Member
<1> QED BY <1>1, <1>2, <1>4, <1>5, <1>6, <1>7, <1>f DEF CacheAt

\* The next token is a header.
LEMMA NextHeaderTaken ==
  ASSUME ReaderTypes, frames # <<>>, Reader!Got, Reader!AtPoint("header") \/ Reader!Running("cache"),
         NEW b \in Nat, Reached(b)
  PROVE  /\ stream[pos] \in Reader!HeaderToken /\ pos = b + 1 /\ b + 1 \in 1 .. Len(stream)
         /\ Reader!Wanted = <<"header">> /\ Len(Reader!Wanted) = 1
<1>1. Reader!Wanted = <<"header">>
  BY DEF Reader!Wanted, Reader!AtPoint, Reader!Running
<1>2. Len(Reader!Wanted) = 1
  BY <1>1
<1>3. stream[pos] \in Reader!HeaderToken
  BY TakenHeader
<1>4. pos = b + 1 /\ b + 1 <= Len(stream) /\ Len(stream) \in Nat
  <2>1. /\ Len(stream) \in Nat
        /\ Len(Reader!Wanted) >= 1 => pos = b + 1 /\ b + Len(Reader!Wanted) <= Len(stream)
    BY Taking
  <2> QED BY <1>2, <2>1
<1> QED BY <1>1, <1>2, <1>3, <1>4

\* One more is cached, or the Terminator ends them.
LEMMA CacheHeadersOn ==
  ASSUME NEW x, NEW y, NEW W, NEW g, IsAt(x, y, W, g), Kindly, Reader!CacheHeaders
  PROVE  Onwards(x, y, W)'
<1>f. PICK f, T, R, m, wr, c, L : /\ f = frames[1] /\ T = g[1] /\ R = g[2]
                           /\ m = Item(x.calls) /\ wr = PairNow /\ c = m.class /\ L = Len(f.headers)
  OBVIOUS
<1>1. /\ Reader!Running("cache") /\ Reader!Got
      /\ frames' = <<IF stream[pos].type = "Terminator"
                     THEN Reader!PackedFrame(Reader!Top.class, Reader!Top.path, Reader!Top.n, Reader!Top.headers)
                     ELSE [Reader!Top EXCEPT !.headers = Append(@, stream[pos])]>> \o Tail(frames)
      /\ pos' = pos + Len(Reader!Wanted) /\ UNCHANGED Reader!messageVars
      /\ stream' = stream /\ result' = result
  BY DEF Reader!CacheHeaders, Reader!Become, Reader!Take
<1>2. CacheAt(x, y, W, T, R, f, m, wr)
  BY <1>1, <1>f, CacheNow
<1>3. /\ frames # <<>> /\ Reader!Top = f /\ f.what = "cache"
      /\ f \in Reader!CacheFrames
      /\ StandsCache(f, T, R, wr) /\ m = Item(x.calls) /\ m \in Member /\ c \in Class
      /\ StoresNext(x, y, W) /\ y.n = x.n /\ x.calls # <<>> /\ T.calls = x.calls
      /\ x.at \in Nat /\ y.at \in Nat /\ x.at <= y.at /\ x.at + Own(x.calls) \in Nat
      /\ AfterStore(x.calls) \in Seq(CallRecord) /\ R.calls = AfterStore(x.calls)
      /\ ItemPath(x.calls) \in Seq(Nat)
      /\ Reached(x.at + Own(x.calls) + 2 + L)
  BY <1>2, <1>f DEF CacheAt
<1>4. /\ TakesItem(T, R) /\ ~T.skipping
      /\ Head(T.calls).as = "object" /\ f.path = ItemPath(T.calls)
      /\ IsObjects(m) /\ m.packed /\ f.n = m.size
      /\ Len(f.headers) <= Len(Members[c]) /\ Caches(f.headers, c)
      /\ f.n > 0 => <<c, f.class>> \in Pairs[wr] \cap PackedPairs[wr]
      /\ R.got = T.got \cup ElementsOwed(f.path, 1 .. f.n, Common[<<c, f.class>>])
      /\ R.clean = (T.clean /\ (f.n > 0 => ~Mismatched[<<c, f.class>>]))
  BY <1>3, <1>f DEF StandsCache
<1>5. /\ wr \in ClassPairs /\ T \in Context /\ R \in Context
      /\ T.skipping = mObjectSkipping /\ T.clean /\ ReaderTypes /\ Present(T, x)
      /\ T.arrays = <<mCurrentPendingVariables>> \o mVariableHistory
      /\ (x.at <= Len(stream) => T.got = result)
  BY <1>f, PresentIs DEF Present
<1>6. L \in Nat /\ Len(Members[c]) \in Nat /\ f.headers \in Seq(Reader!HeaderToken)
  BY <1>3, <1>f, ClassMembers, LenProperties DEF Reader!CacheFrames
<1>7. PICK b \in Nat : b = x.at + Own(x.calls) + 2
  BY <1>3
<1>8. /\ stream[pos] \in Reader!HeaderToken /\ pos = b + L + 1 /\ b + L + 1 \in 1 .. Len(stream)
      /\ pos' = pos + 1
  <2>1. PICK d \in Nat : d = b + L
    BY <1>6
  <2>2. Reached(d)
    BY <1>3, <1>7, <2>1
  <2>3. /\ stream[pos] \in Reader!HeaderToken /\ pos = d + 1 /\ d + 1 \in 1 .. Len(stream)
        /\ Len(Reader!Wanted) = 1
    BY <1>1, <1>3, <1>5, <2>2, NextHeaderTaken
  <2> QED BY <1>1, <2>1, <2>3
<1>9. stream[pos] = W[b + L + 1]
  <2>1. PICK i : i = b + L + 1
    OBVIOUS
  <2>2. stream[i] = W[i]
    BY <1>8, <2>1, TakenWritten
  <2> QED BY <1>8, <2>1, <2>2
<1>10. /\ y.at = b + Len(Members[c]) + 1 /\ W[y.at] = Terminator
       /\ y.calls = [k \in 1 .. m.size |-> CallOf(c, Append(f.path, k), "value")] \o AfterStore(x.calls)
       /\ \A j \in 1 .. Len(Members[c]) : W[b + j] = HeaderOf(Members[c][j])
  <2>1. Head(x.calls).as = "object" /\ m = Item(x.calls) /\ IsObjects(Item(x.calls)) /\ f.path = ItemPath(x.calls)
    BY <1>3, <1>4
  <2>2. Headers(y, W, m, b, ItemPath(x.calls), AfterStore(x.calls))
    BY <1>3, <1>4, <1>7, <2>1, HeadersWritten
  <2> QED BY <1>f, <2>1, <2>2 DEF Headers
<1>11. Present(T, x)'
  BY <1>1, <1>5 DEF Present, Reader!messageVars
<1>12. ReaderTypes' /\ sent' = sent /\ entered' = entered /\ stream' = stream
  BY DEF Kindly, IInv
<1>13. CASE L < Len(Members[c])
  <2>1. L + 1 \in 1 .. Len(Members[c]) /\ b + (L + 1) = b + L + 1
    BY <1>6, <1>7, <1>13
  <2>2. stream[pos] = HeaderOf(Members[c][L + 1])
    BY <1>9, <1>10, <2>1
  <2>3. stream[pos].type # "Terminator"
    <3>1. PICK mb : mb = Members[c][L + 1]
      OBVIOUS
    <3>2. mb \in Member
      BY <1>3, <2>1, <3>1, ClassMembers, ElementOfSeq
    <3> QED BY <2>2, <3>1, <3>2, HeaderKinds
  <2>4. PICK h : h = stream[pos]
    OBVIOUS
  <2>5. PICK e : e = [f EXCEPT !.headers = Append(@, h)]
    OBVIOUS
  <2>6. frames' = <<e>> \o Tail(frames)
    BY <1>1, <1>3, <2>3, <2>4, <2>5
  <2>7. Append(f.headers, h) \in Seq(Reader!HeaderToken) /\ Len(Append(f.headers, h)) = L + 1
        /\ \A j \in 1 .. L : Append(f.headers, h)[j] = f.headers[j]
        /\ Append(f.headers, h)[L + 1] = h
    <3>1. f.headers \in Seq(Reader!HeaderToken) /\ h \in Reader!HeaderToken /\ L = Len(f.headers)
      BY <1>6, <1>8, <1>f, <2>4
    <3>2. PICK S, hs : S = Reader!HeaderToken /\ hs = f.headers
      OBVIOUS
    <3>3. /\ Append(hs, h) \in Seq(S) /\ Len(Append(hs, h)) = Len(hs) + 1
          /\ \A j \in 1 .. Len(hs) : Append(hs, h)[j] = hs[j]
          /\ Append(hs, h)[Len(hs) + 1] = h
      <4>1. hs \in Seq(S) /\ h \in S
        BY <3>1, <3>2
      <4> QED BY <4>1, AppendProperties
    <3> QED BY <3>1, <3>2, <3>3
  <2>8. /\ e.what = "cache" /\ e.class = f.class /\ e.path = f.path /\ e.n = f.n
        /\ e.headers = Append(f.headers, h) /\ e \in Reader!Frame
    <3>1. PICK hs \in Seq(Reader!HeaderToken) : hs = Append(f.headers, h)
      BY <2>7
    <3>2. f \in Reader!CacheFrames /\ e = [f EXCEPT !.headers = hs]
      BY <1>3, <2>5, <3>1
    <3>3. /\ e.what = "cache" /\ e.class = f.class /\ e.path = f.path /\ e.n = f.n
          /\ e.headers = hs /\ e \in Reader!CacheFrames
      BY <3>2 DEF Reader!CacheFrames
    <3>4. e \in Reader!Frame
      BY <3>3 DEF Reader!Frame
    <3> QED BY <3>1, <3>3, <3>4
  <2>9. Caches(e.headers, c)
    <3>1. \A j \in 1 .. (L + 1) : e.headers[j] = HeaderOf(Members[c][j])
      <4> TAKE j \in 1 .. (L + 1)
      <4>1. CASE j = L + 1
        BY <2>2, <2>4, <2>7, <2>8, <4>1
      <4>2. CASE j # L + 1
        <5>1. j \in 1 .. L
          BY <1>6, <4>2
        <5> QED BY <1>4, <1>f, <2>7, <2>8, <5>1 DEF Caches
      <4> QED BY <4>1, <4>2
    <3> QED BY <2>7, <2>8, <3>1 DEF Caches
  <2>10. Len(e.headers) <= Len(Members[c])
    BY <1>6, <1>13, <2>7, <2>8
  <2>11. StandsCache(e, T, R, wr)
    BY <1>3, <1>4, <1>f, <2>8, <2>9, <2>10 DEF StandsCache
  <2>12. Stands(e, T, R, wr)
    BY <2>8, <2>11 DEF Stands
  <2>13. TakenSince(e, x)' /\ ~HeaderSeen(e)'
    <3>1. pos' = b + (L + 1) + 1 /\ b + (L + 1) <= Len(stream')
      BY <1>6, <1>7, <1>8, <1>12
    <3>2. Reached(b + Len(e.headers))'
      BY <2>7, <2>8, <3>1 DEF Reached
    <3>3. Reached(x.at + Own(x.calls) + 2 + Len(e.headers))'
      BY <1>7, <3>2
    <3> QED BY <2>8, <3>3 DEF TakenSince, HeaderSeen
  <2>14. Goal(x, y, W)'
    BY <1>5, <1>11, <1>12, <1>f, <2>6, <2>8, <2>12, <2>13, Stays
  <2> QED BY <2>14 DEF Onwards
<1>14. CASE L = Len(Members[c])
  <2>1. stream[pos] = Terminator /\ y.at = b + L + 1
    BY <1>9, <1>10, <1>14
  <2>2. stream[pos].type = "Terminator"
    BY <2>1, HeaderKinds DEF Terminator, Header
  <2>3. PICK e : e = Reader!PackedFrame(f.class, f.path, f.n, f.headers)
    OBVIOUS
  <2>4. frames' = <<e>> \o Tail(frames)
    BY <1>1, <1>3, <2>2, <2>3
  <2>5. /\ e.what = "packed" /\ e.at = "next" /\ e.class = f.class /\ e.path = f.path /\ e.n = f.n
        /\ e.k = 0 /\ e.headers = f.headers /\ e \in Reader!Frame
    BY <1>3, <2>3 DEF Reader!Frame, Reader!CacheFrames, Reader!PackedFrames, Reader!PackedFrame
  <2>6. PICK cs, U : cs = y.calls /\ U = Being(T, cs, FALSE, T.got, T.clean)
    OBVIOUS
  <2>7. m.size \in Nat /\ f.path \in Seq(Nat)
    BY <1>3, <1>4 DEF Member
  <2>8. cs \in Seq(CallRecord) /\ Ahead(cs, f.path, 0, f.n, c, R.calls)
    <3>1. PICK rest, p, n : rest = AfterStore(x.calls) /\ p = f.path /\ n = m.size
      OBVIOUS
    <3>2. cs = [k \in 1 .. n |-> CallOf(c, Append(p, k), "value")] \o rest
      BY <1>10, <2>6, <3>1
    <3>3. cs \in Seq(CallRecord) /\ Ahead(cs, p, 0, n, c, rest)
      BY <1>3, <2>7, <3>1, <3>2, ElementsAhead
    <3> QED BY <1>3, <1>4, <3>1, <3>3
  <2>9. U \in Context /\ U.calls = cs /\ U.arrays = T.arrays /\ U.skipping = FALSE /\ U.got = T.got
        /\ U.clean = T.clean
    <3>1. PICK got, clean, s : got = T.got /\ clean = T.clean /\ s = FALSE
      OBVIOUS
    <3>2. got \in SUBSET (Seq(Nat) \X Seq(Nat)) /\ clean \in BOOLEAN /\ s \in BOOLEAN
      BY <1>5, <3>1, ContextTypes
    <3>3. IsBeing(Being(T, cs, s, got, clean), T, cs, s, got, clean)
      BY <1>5, <2>8, <3>2, BeingTypes
    <3> QED BY <2>6, <3>1, <3>3 DEF IsBeing
  <2>10. StandsNext(e, U, R, c)
    BY <1>4, <2>5, <2>8, <2>9 DEF StandsNext
  <2>11. StandsPacked(e, U, R, wr)
    <3>1. R.arrays = U.arrays /\ ~R.skipping /\ ~U.skipping
      BY <1>4, <2>9 DEF TakesItem
    <3> QED BY <1>3, <1>4, <1>14, <1>f, <2>5, <2>10, <3>1 DEF StandsPacked
  <2>12. Stands(e, U, R, wr)
    BY <2>5, <2>11 DEF Stands
  <2>13. Present(U, y)'
    <3>1. y.at <= Len(stream) => T.got = result
      BY <1>3, <1>5, <1>8, SMTT(30) DEF Moment
    <3>2. mObjectSkipping' = FALSE
      BY <1>1, <1>4, <1>5 DEF Reader!messageVars, ReaderTypes
    <3>3. mVariableHistory' = mVariableHistory /\ mCurrentPendingVariables' = mCurrentPendingVariables
      BY <1>1 DEF Reader!messageVars
    <3> QED BY <1>1, <1>5, <2>6, <2>9, <3>1, <3>2, <3>3 DEF Present
  <2>14. TakenSince(e, y)' /\ ~HeaderSeen(e)'
    <3>1. pos' = y.at + 1 /\ y.at <= Len(stream')
      BY <1>8, <1>12, <2>1
    <3> QED BY <2>5, <3>1 DEF TakenSince, HeaderSeen, Reached
  <2>15. Goal(x, y, W)'
    BY <1>3, <1>12, <1>f, <2>4, <2>5, <2>9, <2>12, <2>13, <2>14, Stays
  <2> QED BY <2>15 DEF Onwards
<1> QED BY <1>4, <1>6, <1>13, <1>14, <1>f

\* A packed vector of which the elements are of class w, and the contexts
\* between which it is read.
PackedVector(f, T, R, w, wr) ==
  /\ ~T.skipping /\ ~R.skipping /\ R.arrays = T.arrays
  /\ w \in Class /\ Len(f.headers) = Len(Members[w]) /\ Caches(f.headers, w)
  /\ f.n > 0 => <<w, f.class>> \in Pairs[wr] \cap PackedPairs[wr]
\* The reader is at one.
VectorAt(x, y, T, R, f, w, wr) ==
  /\ f = frames[1] /\ frames # <<>> /\ Reader!Top = f /\ f.what = "packed"
  /\ f \in Reader!PackedFrames /\ f.class \in Class /\ f.k \in Nat /\ f.n \in Nat /\ f.h \in Nat \ {0}
  /\ f.path \in Seq(Nat)
  /\ T \in Context /\ R \in Context /\ wr \in ClassPairs
  /\ PackedVector(f, T, R, w, wr)
  /\ f.at = "next" => StandsNext(f, T, R, w)
  /\ f.at # "next" => StandsElement(f, T, R, w)
  /\ x.calls = T.calls /\ Reached(x.at) /\ ~mCurrentIndexPending

\* A packed vector is being read.
LEMMA VectorNow ==
  ASSUME NEW x, NEW y, NEW W, NEW g, IsAt(x, y, W, g), NEW locs, Reader!PackedAt(locs)
  PROVE  \E w : VectorAt(x, y, g[1], g[2], frames[1], w, PairNow)
<1>f. PICK f, T, R, wr : f = frames[1] /\ T = g[1] /\ R = g[2] /\ wr = PairNow
  OBVIOUS
<1>1. IInv /\ T \in Context /\ R \in Context /\ wr \in ClassPairs /\ T.calls = x.calls
  BY <1>f, PresentIs
<1>2. /\ frames # <<>> /\ Reader!Top = f /\ f \in Reader!PackedFrames /\ f.what = "packed"
      /\ ~Stores(f)
  BY <1>1, <1>f, PackedPoint
<1>3. ~mCurrentIndexPending
  BY <1>1, <1>2, <1>f DEF IInv, IsAt, KeptInv
<1>4. Stands(f, T, R, wr) /\ TakenSince(f, x)
  BY <1>f, Innermost
<1>5. StandsPacked(f, T, R, wr) /\ Reached(x.at)
  BY <1>2, <1>4 DEF Stands, TakenSince
<1>6. PICK w \in Class :
       /\ Len(f.headers) = Len(Members[w]) /\ Caches(f.headers, w)
       /\ f.n > 0 => <<w, f.class>> \in Pairs[wr] \cap PackedPairs[wr]
       /\ IF f.at = "next" THEN StandsNext(f, T, R, w) ELSE StandsElement(f, T, R, w)
  BY <1>5 DEF StandsPacked
<1>7. PackedVector(f, T, R, w, wr)
  BY <1>5, <1>6 DEF StandsPacked, PackedVector
<1>8. f.class \in Class /\ f.k \in Nat /\ f.n \in Nat /\ f.h \in Nat \ {0} /\ f.path \in Seq(Nat)
  BY <1>2 DEF Reader!PackedFrames
<1>9. VectorAt(x, y, T, R, f, w, wr)
  BY <1>1, <1>2, <1>3, <1>5, <1>6, <1>7, <1>8, <1>f DEF VectorAt
<1> QED BY <1>9, <1>f

\* The same vector, further on.
SameVector(f, e) ==
  /\ e \in Reader!Frame /\ e.what = "packed" /\ e.class = f.class /\ e.path = f.path
  /\ e.n = f.n /\ e.headers = f.headers

\* What changes within it leaves the rest as it is.
LEMMA VectorStands ==
  ASSUME NEW f, NEW e, SameVector(f, e), NEW T, NEW R, NEW w, NEW wr, PackedVector(f, T, R, w, wr),
         NEW U, U.arrays = T.arrays, U.skipping = T.skipping,
         e.at = "next" => StandsNext(e, U, R, w),
         e.at # "next" => StandsElement(e, U, R, w)
  PROVE  Stands(e, U, R, wr)
<1>1. StandsPacked(e, U, R, wr)
  BY DEF SameVector, PackedVector, StandsPacked
<1> QED BY <1>1 DEF SameVector, Stands

\* The reader goes on with the vector.
VectorIs(e, U, R, w) == IF e.at = "next" THEN StandsNext(e, U, R, w) ELSE StandsElement(e, U, R, w)

\* A step within a packed vector.
LEMMA VectorGoesOn ==
  ASSUME NEW x, NEW y, NEW W, NEW g, IsAt(x, y, W, g), Kindly,
         NEW T, NEW R, NEW f, NEW w, NEW wr, T = g[1], R = g[2], VectorAt(x, y, T, R, f, w, wr), wr = PairNow,
         NEW e, SameVector(f, e), frames' = <<e>> \o Tail(frames),
         pos' = pos, UNCHANGED Reader!messageVars, result' = result,
         NEW z \in {x, y}, z.n = x.n, z.at = x.at,
         NEW U, IsBeing(U, T, z.calls, FALSE, T.got, T.clean),
         VectorIs(e, U, R, w)
  PROVE  Onwards(x, y, W)'
<1>1. /\ PackedVector(f, T, R, w, wr) /\ ~T.skipping /\ T \in Context /\ Reached(x.at) /\ ~mCurrentIndexPending
  BY DEF VectorAt, PackedVector
<1>2. T.skipping = FALSE
  BY <1>1, ContextTypes
<1>3. /\ U \in Context /\ U.calls = z.calls /\ U.arrays = T.arrays /\ U.skipping = FALSE
      /\ U.got = T.got /\ U.clean = T.clean
  BY DEF IsBeing
<1>4. Stands(e, U, R, wr)
  BY <1>1, <1>2, <1>3, VectorStands DEF VectorIs
<1>5. /\ T.arrays = <<mCurrentPendingVariables>> \o mVariableHistory
      /\ T.skipping = mObjectSkipping /\ T.clean
      /\ (x.at <= Len(stream) => T.got = result)
  BY PresentIs
<1>6. Present(U, z)'
  BY <1>2, <1>3, <1>5 DEF Present, Reader!messageVars, Kindly
<1>7. TakenSince(e, z)' /\ ~HeaderSeen(e)'
  BY <1>1 DEF TakenSince, HeaderSeen, SameVector, Reached, Kindly
<1>8. e \in Reader!Frame
  BY DEF SameVector
<1>9. ReaderTypes' /\ sent' = sent /\ entered' = entered /\ stream' = stream
  BY DEF Kindly, IInv
<1>10. Stands(e, U, g[2], PairNow)
  BY <1>4
<1>11. Goal(x, y, W)'
  BY <1>3, <1>6, <1>7, <1>8, <1>9, <1>10, Stays
<1> QED BY <1>11 DEF Onwards

\* The context does not change.
LEMMA BeingSame ==
  ASSUME NEW x, NEW y, NEW T, NEW R, NEW f, NEW w, NEW wr, VectorAt(x, y, T, R, f, w, wr)
  PROVE  IsBeing(T, T, x.calls, FALSE, T.got, T.clean)
<1>1. T \in Context /\ x.calls = T.calls /\ ~T.skipping
  BY DEF VectorAt, PackedVector
<1> QED BY <1>1, ContextTypes DEF IsBeing

\* From one element of a packed vector to the next.
AheadOnce(cs, path, k, n, w, rest) ==
  /\ k < n => /\ cs # <<>> /\ Head(cs) = CallOf(w, Append(path, k + 1), "value")
              /\ Ahead(Tail(cs), path, k + 1, n, w, rest)
  /\ k = n => rest = cs

\* One element less is ahead, or none is.
LEMMA AheadStep ==
  ASSUME NEW cs \in Seq(CallRecord), NEW path, NEW k \in Nat, NEW n \in Nat, NEW w, NEW rest,
         Ahead(cs, path, k, n, w, rest)
  PROVE  AheadOnce(cs, path, k, n, w, rest)
<1>1. /\ k <= n /\ n - k <= Len(cs) /\ rest = SubSeq(cs, n - k + 1, Len(cs))
      /\ \A i \in 1 .. (n - k) : cs[i] = CallOf(w, Append(path, k + i), "value")
  BY DEF Ahead
<1>2. Len(cs) \in Nat
  BY LenProperties
<1>3. CASE k = n
  <2>1. rest = SubSeq(cs, 1, Len(cs))
    BY <1>1, <1>3
  <2>2. SubSeq(cs, 1, Len(cs)) = cs
    BY SubSeqFull
  <2> QED BY <1>3, <2>1, <2>2 DEF AheadOnce
<1>4. CASE k < n
  <2>1. 1 \in 1 .. (n - k) /\ Len(cs) >= 1
    BY <1>1, <1>2, <1>4
  <2>2. cs # <<>> /\ Head(cs) = cs[1] /\ cs[1] = CallOf(w, Append(path, k + 1), "value")
    BY <1>1, <2>1
  <2>3. PICK t : t = Tail(cs)
    OBVIOUS
  <2>4. /\ t \in Seq(CallRecord) /\ Len(t) = Len(cs) - 1
        /\ \A i \in 1 .. Len(cs) - 1 : t[i] = cs[i + 1]
    BY <2>2, <2>3, HeadTailProperties
  <2>5. k + 1 <= n /\ n - (k + 1) <= Len(t)
    BY <1>1, <1>2, <1>4, <2>4
  <2>6. \A i \in 1 .. (n - (k + 1)) : t[i] = CallOf(w, Append(path, k + 1 + i), "value")
    <3> TAKE i \in 1 .. (n - (k + 1))
    <3>1. i \in 1 .. Len(cs) - 1 /\ i + 1 \in 1 .. (n - k) /\ k + (i + 1) = k + 1 + i
      BY <1>1, <1>2, <1>4
    <3> QED BY <1>1, <2>4, <3>1
  <2>7. rest = SubSeq(t, n - (k + 1) + 1, Len(t))
    <3>1. PICK j, N : j = n - k /\ N = Len(cs)
      OBVIOUS
    <3>2. j \in Nat /\ j >= 1 /\ N \in Nat /\ j <= N
      BY <1>1, <1>2, <1>4, <3>1
    <3>3. PICK s, u : s = SubSeq(cs, j + 1, N) /\ u = SubSeq(t, j, N - 1)
      OBVIOUS
    <3>4. /\ s \in Seq(CallRecord) /\ Len(s) = IF j + 1 <= N THEN N - (j + 1) + 1 ELSE 0
          /\ \A i \in 1 .. N - (j + 1) + 1 : s[i] = cs[j + 1 + i - 1]
      <4>1. j + 1 \in Int /\ N \in Int /\ \A i \in j + 1 .. N : cs[i] \in CallRecord
        BY <3>1, <3>2, ElementOfSeq
      <4> QED BY <3>3, <4>1, SubSeqProperties
    <3>5. /\ u \in Seq(CallRecord) /\ Len(u) = IF j <= N - 1 THEN N - 1 - j + 1 ELSE 0
          /\ \A i \in 1 .. N - 1 - j + 1 : u[i] = t[j + i - 1]
      <4>1. j \in Int /\ N - 1 \in Int /\ \A i \in j .. N - 1 : t[i] \in CallRecord
        BY <2>4, <3>1, <3>2, ElementOfSeq
      <4> QED BY <3>3, <4>1, SubSeqProperties
    <3>6. Len(s) = Len(u)
      BY <3>2, <3>4, <3>5
    <3>7. \A i \in 1 .. Len(s) : s[i] = u[i]
      <4> TAKE i \in 1 .. Len(s)
      <4>1. /\ i \in 1 .. N - (j + 1) + 1 /\ i \in 1 .. N - 1 - j + 1
            /\ j + i - 1 \in 1 .. N - 1 /\ j + 1 + i - 1 = (j + i - 1) + 1
        BY <3>2, <3>4
      <4>2. s[i] = cs[j + 1 + i - 1] /\ u[i] = t[j + i - 1]
        BY <3>4, <3>5, <4>1
      <4>3. t[j + i - 1] = cs[(j + i - 1) + 1]
        BY <2>4, <3>1, <4>1
      <4> QED BY <4>1, <4>2, <4>3
    <3>8. s = u
      BY <3>4, <3>5, <3>6, <3>7, SeqEqual
    <3>9. rest = s
      BY <1>1, <3>1, <3>3
    <3>10. n - (k + 1) + 1 = j /\ Len(t) = N - 1
      BY <2>4, <3>1
    <3> QED BY <3>3, <3>8, <3>9, <3>10
  <2>8. Ahead(t, path, k + 1, n, w, rest)
    BY <2>5, <2>6, <2>7 DEF Ahead
  <2> QED BY <1>4, <2>2, <2>3, <2>8 DEF AheadOnce
<1> QED BY <1>1, <1>3, <1>4

\* The next element begins.
LEMMA NextElementOn ==
  ASSUME NEW x, NEW y, NEW W, NEW g, IsAt(x, y, W, g), Kindly, Reader!NextElement
  PROVE  Onwards(x, y, W)'
<1>f. PICK f, T, R, wr : f = frames[1] /\ T = g[1] /\ R = g[2] /\ wr = PairNow
  OBVIOUS
<1>1. /\ Reader!PackedAt({"next"}) /\ Reader!Top.k < Reader!Top.n
      /\ frames' = <<[Reader!Top EXCEPT !.at = "store", !.k = @ + 1, !.todo = Members[Reader!Top.class],
                                       !.h = 1, !.pending = {}]>> \o Tail(frames)
      /\ pos' = pos /\ UNCHANGED Reader!messageVars /\ result' = result
  BY DEF Reader!NextElement, Reader!Become, Reader!Cleared
<1>2. PICK w : VectorAt(x, y, T, R, f, w, wr)
  BY <1>1, <1>f, VectorNow
<1>3. /\ Reader!Top = f /\ f.at = "next" /\ f \in Reader!PackedFrames
      /\ f.class \in Class /\ f.k \in Nat /\ f.n \in Nat /\ f.path \in Seq(Nat)
      /\ T \in Context /\ R \in Context /\ wr \in ClassPairs /\ PackedVector(f, T, R, w, wr)
      /\ StandsNext(f, T, R, w) /\ w \in Class
  BY <1>1, <1>2 DEF VectorAt, Reader!PackedAt, PackedVector
<1>4. PICK e : e = [f EXCEPT !.at = "store", !.k = @ + 1, !.todo = Members[f.class], !.h = 1, !.pending = {}]
  OBVIOUS
<1>5. frames' = <<e>> \o Tail(frames) /\ f.k < f.n
  BY <1>1, <1>3, <1>4
<1>6. /\ e.at = "store" /\ e.k = f.k + 1 /\ e.todo = Members[f.class] /\ e.h = 1 /\ e.pending = {}
      /\ SameVector(f, e)
  <2>1. PICK todo \in Seq(Reader!Member) : todo = Members[f.class]
    BY <1>3, ReaderFormat
  <2>3. PICK k \in Nat : k = f.k + 1
    BY <1>3
  <2>4. e = [f EXCEPT !.at = "store", !.k = k, !.todo = todo, !.h = 1, !.pending = {}]
    BY <1>4, <2>1, <2>3
  <2>5. 1 \in Nat \ {0} /\ {} \in SUBSET Reader!PendingMember
    OBVIOUS
  <2>2. e \in Reader!Frame
    BY <1>3, <2>4, <2>5, ChangedPacked, Zenon
  <2> QED BY <1>3, <1>4, <2>2 DEF SameVector, Reader!PackedFrames
<1>7. PICK cs, p, P : cs = T.calls /\ p = Append(f.path, f.k + 1) /\ P = Common[<<w, f.class>>]
  OBVIOUS
<1>8. /\ Ahead(cs, f.path, f.k, f.n, w, R.calls)
      /\ R.got = T.got \cup ElementsOwed(f.path, (f.k + 1) .. f.n, P)
      /\ R.clean = (T.clean /\ (f.n > f.k => ~Mismatched[<<w, f.class>>]))
  BY <1>3, <1>7 DEF StandsNext
<1>9. /\ cs # <<>> /\ Head(cs) = CallOf(w, p, "value")
      /\ Ahead(Tail(cs), f.path, f.k + 1, f.n, w, R.calls)
  <2>1. cs \in Seq(CallRecord)
    BY <1>3, <1>7, ContextTypes
  <2>2. AheadOnce(cs, f.path, f.k, f.n, w, R.calls)
    BY <1>3, <1>8, <2>1, AheadStep
  <2> QED BY <1>5, <1>7, <2>2 DEF AheadOnce
<1>10. Head(cs).path = p /\ Head(cs).todo = Members[w] /\ Head(cs).as = "value"
  BY <1>9 DEF CallOf
<1>11. /\ Rest(Members[w], f.class) = P
       /\ Good(Members[w], f.class) <=> ~Mismatched[<<w, f.class>>]
  BY <1>3, <1>7, RestAll
<1>12. Members[w] = From(w, 1)
  BY <1>3, AllLeft
<1>13. Meets(<<w, f.class>>, Members[w], p, e.todo, {}, {})
  <2>1. PICK pr : pr = <<w, f.class>>
    OBVIOUS
  <2>2. pr \in ClassPairs /\ pr[1] = w /\ pr[2] = f.class
    BY <1>3, <2>1 DEF ClassPairs
  <2>3. Meets(pr, Members[pr[1]], p, Members[pr[2]], {}, {})
    BY <2>2, MeetsFirst
  <2> QED BY <1>6, <2>1, <2>2, <2>3
<1>14. ElementsOwed(f.path, (f.k + 1) .. f.n, P) = Owed(p, P) \cup ElementsOwed(f.path, (f.k + 1 + 1) .. f.n, P)
  BY <1>3, <1>5, <1>7, ElementsOwedStep
<1>15. StandsElement(e, T, R, w)
  <2>1. e.k > 0 /\ e.k <= e.n /\ e.path = f.path /\ e.class = f.class /\ e.n = f.n /\ e.headers = f.headers
    BY <1>3, <1>5, <1>6 DEF SameVector
  <2>2. Len(e.headers) \in Nat
    BY <1>3, <2>1, LenProperties DEF Reader!PackedFrames
  <2>3. \E d \in {e.h, e.h + 1} :
          /\ e.at = "drain" => d = e.h
          /\ e.at = "returned" => d = e.h + 1
          /\ d <= Len(e.headers) + 1
          /\ Head(T.calls).todo = From(w, d)
    BY <1>6, <1>7, <1>10, <1>12, <2>2
  <2>4. T.clean \in BOOLEAN /\ Mismatched[<<w, f.class>>] \in BOOLEAN
    <3>1. PICK pr : pr = <<w, f.class>>
      OBVIOUS
    <3>2. pr \in ClassPairs
      BY <1>3, <3>1 DEF ClassPairs
    <3> QED BY <1>3, <3>1, <3>2, ContextTypes, MismatchedBy
  <2>5. R.clean = (/\ T.clean /\ Good(Head(T.calls).todo, e.class)
                   /\ e.n > e.k => ~Mismatched[<<w, e.class>>])
    BY <1>5, <1>7, <1>8, <1>10, <1>11, <2>1, <2>4
  <2>6. R.got = T.got \cup Owed(Append(e.path, e.k), Rest(Head(T.calls).todo, e.class))
                      \cup ElementsOwed(e.path, (e.k + 1) .. e.n, Common[<<w, e.class>>])
    BY <1>6, <1>7, <1>8, <1>10, <1>11, <1>14, <2>1
  <2>7. Meets(<<w, e.class>>, Head(T.calls).todo, Append(e.path, e.k), e.todo, e.pending,
              IF e.at = "returned" THEN {e.headers[e.h].index} ELSE {})
    BY <1>6, <1>7, <1>10, <1>13, <2>1
  <2> QED BY <1>6, <1>7, <1>9, <1>10, <2>1, <2>3, <2>5, <2>6, <2>7 DEF StandsElement
<1>16. IsBeing(T, T, x.calls, FALSE, T.got, T.clean)
  BY <1>2, BeingSame
<1>18. VectorIs(e, T, R, w)
  BY <1>6, <1>15 DEF VectorIs
<1>17. Onwards(x, y, W)'
  BY <1>1, <1>2, <1>5, <1>6, <1>15, <1>16, <1>18, <1>f, VectorGoesOn
<1> QED BY <1>17

\* The last one has been read.
LEMMA LeavePackedVectorOn ==
  ASSUME NEW x, NEW y, NEW W, NEW g, IsAt(x, y, W, g), Kindly, Reader!LeavePackedVector
  PROVE  Onwards(x, y, W)'
<1>f. PICK f, T, R, wr : f = frames[1] /\ T = g[1] /\ R = g[2] /\ wr = PairNow
  OBVIOUS
<1>1. /\ Reader!PackedAt({"next"}) /\ Reader!Top.k = Reader!Top.n
      /\ frames' = Tail(frames) /\ pos' = pos /\ result' = result
      /\ mObjectSkipping' = mObjectSkipping /\ mCurrentIndexPending' = mCurrentIndexPending
      /\ mCurrentPendingVariables' = mCurrentPendingVariables /\ mVariableHistory' = mVariableHistory
  BY DEF Reader!LeavePackedVector, Reader!Leave, Reader!streamFlags
<1>2. PICK w : VectorAt(x, y, T, R, f, w, wr)
  BY <1>1, <1>f, VectorNow
<1>3. /\ Reader!Top = f /\ f.at = "next" /\ f.what = "packed"
      /\ f.k \in Nat /\ f.n \in Nat
      /\ T \in Context /\ R \in Context /\ PackedVector(f, T, R, w, wr)
      /\ StandsNext(f, T, R, w) /\ Reached(x.at) /\ ~mCurrentIndexPending
  BY <1>1, <1>2 DEF VectorAt, Reader!PackedAt
<1>4. /\ Ahead(T.calls, f.path, f.k, f.n, w, R.calls)
      /\ R.got = T.got \cup ElementsOwed(f.path, (f.k + 1) .. f.n, Common[<<w, f.class>>])
      /\ R.clean = (T.clean /\ (f.n > f.k => ~Mismatched[<<w, f.class>>]))
  BY <1>3 DEF StandsNext
<1>5. f.k = f.n
  BY <1>1, <1>3
<1>6. R.calls = T.calls
  <2>1. PICK cs : cs = T.calls
    OBVIOUS
  <2>2. cs \in Seq(CallRecord)
    BY <1>3, <2>1, ContextTypes
  <2>3. AheadOnce(cs, f.path, f.k, f.n, w, R.calls)
    BY <1>3, <1>4, <2>1, <2>2, AheadStep
  <2> QED BY <1>5, <2>1, <2>3 DEF AheadOnce
<1>7. ElementsOwed(f.path, (f.k + 1) .. f.n, Common[<<w, f.class>>]) = {}
  BY <1>3, <1>5, ElementsOwedStep
<1>8. R.got = T.got /\ R.clean = T.clean
  <2>1. T.clean \in BOOLEAN
    BY <1>3, ContextTypes
  <2> QED BY <1>3, <1>4, <1>5, <1>7, <2>1
<1>9. Present(R, x)'
  <2>1. /\ T.calls = x.calls /\ T.arrays = <<mCurrentPendingVariables>> \o mVariableHistory
        /\ T.skipping = mObjectSkipping /\ T.clean
        /\ (x.at <= Len(stream) => T.got = result)
    BY <1>f, PresentIs
  <2>2. R.arrays = T.arrays /\ ~R.skipping /\ ~T.skipping
    BY <1>3 DEF PackedVector
  <2>3. R.skipping = T.skipping
    BY <1>3, <2>2, ContextTypes
  <2> QED BY <1>1, <1>6, <1>8, <2>1, <2>2, <2>3 DEF Present, Kindly
<1>10. Reached(x.at)' /\ ~mCurrentIndexPending' /\ Present(g[2], x)'
  BY <1>1, <1>3, <1>9, <1>f DEF Reached, Kindly
<1>11. frames[1].what # "object" /\ ReaderTypes' /\ sent' = sent /\ entered' = entered /\ stream' = stream
  BY <1>3, <1>f DEF Kindly, IInv
<1>12. Goal(x, y, W)'
  BY <1>1, <1>10, <1>11, ReturnsTo
<1> QED BY <1>12 DEF Onwards

-----------------------------------------------------------------------------
(***************************************************************************)
(* An element of a packed vector.                                          *)
(***************************************************************************)
\* The first d - 1 members of it have been read or passed.
Passed(f, d) ==
  /\ d \in {f.h, f.h + 1} /\ d <= Len(f.headers) + 1
  /\ f.at = "drain" => d = f.h
  /\ f.at = "returned" => d = f.h + 1
GoneFrom(f) == IF f.at = "returned" THEN {f.headers[f.h].index} ELSE {}
ElementAt(f, T, R, w, d) ==
  /\ f.k > 0 /\ f.k <= f.n
  /\ T.calls # <<>> /\ Head(T.calls).as = "value" /\ Head(T.calls).path = Append(f.path, f.k)
  /\ Ahead(Tail(T.calls), f.path, f.k, f.n, w, R.calls)
  /\ Passed(f, d) /\ Head(T.calls).todo = From(w, d)
  /\ Meets(<<w, f.class>>, From(w, d), Append(f.path, f.k), f.todo, f.pending, GoneFrom(f))
  /\ R.got = T.got \cup Owed(Append(f.path, f.k), Rest(From(w, d), f.class))
                   \cup ElementsOwed(f.path, (f.k + 1) .. f.n, Common[<<w, f.class>>])
  /\ R.clean = (/\ T.clean /\ Good(From(w, d), f.class)
                /\ f.n > f.k => ~Mismatched[<<w, f.class>>])

\* An element stands at one of the cached headers.
LEMMA ElementIs ==
  ASSUME NEW f, NEW T, NEW R, NEW w
  PROVE  StandsElement(f, T, R, w) <=> \E d : ElementAt(f, T, R, w, d)
<1>1. ASSUME StandsElement(f, T, R, w)
      PROVE  \E d : ElementAt(f, T, R, w, d)
  <2>1. PICK d : Passed(f, d) /\ Head(T.calls).todo = From(w, d)
    BY <1>1 DEF StandsElement, Passed
  <2>2. ElementAt(f, T, R, w, d)
    BY <1>1, <2>1 DEF StandsElement, ElementAt, GoneFrom
  <2> QED BY <2>2
<1>2. ASSUME NEW d, ElementAt(f, T, R, w, d)
      PROVE  StandsElement(f, T, R, w)
  <2>1. /\ d \in {f.h, f.h + 1} /\ d <= Len(f.headers) + 1
        /\ f.at = "drain" => d = f.h
        /\ f.at = "returned" => d = f.h + 1
        /\ Head(T.calls).todo = From(w, d)
    BY <1>2 DEF ElementAt, Passed
  <2>2. /\ f.k > 0 /\ f.k <= f.n
        /\ T.calls # <<>> /\ Head(T.calls).as = "value" /\ Head(T.calls).path = Append(f.path, f.k)
        /\ Ahead(Tail(T.calls), f.path, f.k, f.n, w, R.calls)
        /\ Meets(<<w, f.class>>, Head(T.calls).todo, Append(f.path, f.k), f.todo, f.pending, GoneFrom(f))
        /\ R.got = T.got \cup Owed(Append(f.path, f.k), Rest(Head(T.calls).todo, f.class))
                         \cup ElementsOwed(f.path, (f.k + 1) .. f.n, Common[<<w, f.class>>])
        /\ R.clean = (/\ T.clean /\ Good(Head(T.calls).todo, f.class)
                      /\ f.n > f.k => ~Mismatched[<<w, f.class>>])
    BY <1>2, <2>1 DEF ElementAt
  <2> QED BY <2>1, <2>2 DEF StandsElement, GoneFrom
<1> QED BY <1>1, <1>2

\* The facts of an element that is being read.
ElementFacts(f, w, d, pr, wr) ==
  /\ pr = <<w, f.class>> /\ pr \in ClassPairs /\ pr[1] = w /\ pr[2] = f.class
  /\ pr \in Pairs[wr] /\ pr \in PackedPairs[wr]
  /\ w \in Class /\ f.class \in Class /\ f.h \in Nat \ {0} /\ Len(f.headers) \in Nat
  /\ d \in 1 .. (Len(Members[w]) + 1) /\ Len(f.headers) = Len(Members[w])
  /\ LeftOf(From(w, d), w)

\* What is known of an element.
LEMMA ElementHas ==
  ASSUME NEW x, NEW y, NEW T, NEW R, NEW f, NEW w, NEW wr, VectorAt(x, y, T, R, f, w, wr),
         NEW d, ElementAt(f, T, R, w, d), NEW pr, pr = <<w, f.class>>
  PROVE  ElementFacts(f, w, d, pr, wr)
<1>1. /\ w \in Class /\ f.class \in Class /\ f.h \in Nat \ {0} /\ f.k \in Nat /\ f.n \in Nat
      /\ f \in Reader!PackedFrames /\ Len(f.headers) = Len(Members[w])
      /\ f.n > 0 => pr \in Pairs[wr] \cap PackedPairs[wr]
  BY DEF VectorAt, PackedVector
<1>2. f.n > 0
  BY <1>1 DEF ElementAt
<1>3. Len(Members[w]) \in Nat
  BY <1>1, ClassMembers
<1>4. d \in 1 .. (Len(Members[w]) + 1)
  BY <1>1, <1>3 DEF ElementAt, Passed
<1>5. pr \in ClassPairs /\ pr[1] = w /\ pr[2] = f.class
  BY <1>1 DEF ClassPairs
<1>6. LeftOf(From(w, d), w)
  BY <1>4 DEF LeftOf
<1> QED BY <1>1, <1>2, <1>3, <1>4, <1>5, <1>6 DEF ElementFacts

\* The next header of an element is that of a member of the writer's class.
HeaderIs(f, w, m, i) ==
  /\ m = Members[w][f.h] /\ m \in MembersOf(w) /\ m \in Member
  /\ f.headers[f.h].index = i /\ m.index = i
  /\ f.headers[f.h].type = GetHeaderEnum(m.type) /\ f.headers[f.h].type \in Reader!HeaderTypes

\* The cached header at an element is that of the member of the writer.
LEMMA ElementHeader ==
  ASSUME NEW f, NEW w, NEW d, NEW pr, NEW wr, ElementFacts(f, w, d, pr, wr), f.h <= Len(f.headers),
         Caches(f.headers, w), NEW m, m = Members[w][f.h]
  PROVE  HeaderIs(f, w, m, m.index)
<1>1. f.h \in 1 .. Len(Members[w]) /\ f.h \in 1 .. Len(f.headers) /\ w \in Class
  BY DEF ElementFacts
<1>2. m \in Member /\ m \in MembersOf(w)
  BY <1>1, ClassMembers, ElementOfSeq DEF MembersOf
<1>3. f.headers[f.h] = HeaderOf(m)
  BY <1>1 DEF Caches
<1>4. GetHeaderEnum(m.type) \in Reader!HeaderTypes
  BY <1>2, HeaderKinds, ReaderKinds
<1> QED BY <1>2, <1>3, <1>4, HeaderKinds DEF HeaderIs

\* A member that is waited for has not been passed.
LEMMA NotPassed ==
  ASSUME NEW f, NEW T, NEW R, NEW w, NEW d, NEW pr, NEW wr, ElementFacts(f, w, d, pr, wr),
         ElementAt(f, T, R, w, d), f.at \in {"store", "drain"}, f.h <= Len(f.headers),
         Caches(f.headers, w), NEW n \in Waiting(f.todo, f.pending, {}), n.index = f.headers[f.h].index
  PROVE  d = f.h
<1>1. PICK m : m = Members[w][f.h]
  OBVIOUS
<1>2. m \in MembersOf(w) /\ m.index = n.index
  BY <1>1, ElementHeader DEF HeaderIs
<1>3. Meets(pr, From(w, d), Append(f.path, f.k), f.todo, f.pending, {})
  BY DEF ElementAt, GoneFrom, ElementFacts
<1>4. pr \in ClassPairs /\ pr[1] = w
  BY DEF ElementFacts
<1>5. n \in MembersOf(pr[2])
  <2>1. Waiting(f.todo, f.pending, {}) \subseteq MembersOf(pr[2])
    BY <1>3, <1>4, MeetsTypes
  <2> QED BY <2>1
<1>6. m \in Items(From(w, d))
  BY <1>2, <1>3, <1>4, <1>5 DEF Meets
<1>7. w \in Class /\ d \in 1 .. (Len(Members[w]) + 1) /\ Len(Members[w]) \in Nat
      /\ f.h \in Nat /\ f.h <= Len(Members[w]) /\ f.h >= 1
  BY DEF ElementFacts
<1>8. PICK i \in d .. Len(Members[w]) : m = Members[w][i]
  BY <1>6, <1>7, LeftFrom
<1>9. i = f.h
  <2>1. i \in 1 .. Len(Members[w]) /\ f.h \in 1 .. Len(Members[w])
    BY <1>7
  <2>2. Members[w][i].index = Members[w][f.h].index
    BY <1>1, <1>8
  <2> QED BY <1>7, <2>1, <2>2, FormatAssumption
<1>10. d \in {f.h, f.h + 1}
  BY DEF ElementAt, Passed
<1> QED BY <1>7, <1>8, <1>9, <1>10

\* The element stays the same.
SameElement(f, e) == SameVector(f, e) /\ e.k = f.k

\* An element that goes on at the same member.
LEMMA ElementGoesOn ==
  ASSUME NEW f, NEW e, SameElement(f, e), NEW T, NEW R, NEW w, NEW d, ElementAt(f, T, R, w, d),
         Passed(e, d), NEW pr, pr = <<w, f.class>>,
         Meets(pr, From(w, d), Append(f.path, f.k), e.todo, e.pending, GoneFrom(e))
  PROVE  StandsElement(e, T, R, w)
<1>1. ElementAt(e, T, R, w, d)
  BY DEF SameElement, SameVector, ElementAt
<1> QED BY <1>1, ElementIs

\* A member of it is read.
MemberTaken(T, R, w, wr, n, m, e, path) ==
  /\ AfterRead(T, n) \in Context
  /\ Reads(n, path, T, AfterRead(T, n), wr)
  /\ Item(T.calls) = m
  /\ StandsElement(e, AfterRead(T, n), R, w)

\* An element of which a member is about to be read.
LEMMA ElementTakes ==
  ASSUME NEW x, NEW y, NEW T, NEW R, NEW f, NEW w, NEW wr, VectorAt(x, y, T, R, f, w, wr),
         NEW d, ElementAt(f, T, R, w, d), d <= Len(f.headers), NEW m, m = Members[w][d],
         NEW n \in MembersOf(f.class), n.index = m.index,
         NEW e, SameElement(f, e), NEW c, c = d + 1, Passed(e, c), NEW pr, pr = <<w, f.class>>,
         Meets(pr, Tail(From(w, d)), Append(f.path, f.k), e.todo, e.pending, GoneFrom(e)),
         NEW path, path = Append(Append(f.path, f.k), n.index)
  PROVE  MemberTaken(T, R, w, wr, n, m, e, path)
<1>1. ElementFacts(f, w, d, pr, wr)
  BY ElementHas
<1>2. /\ pr \in ClassPairs /\ pr[1] = w /\ pr[2] = f.class
      /\ pr \in Pairs[wr] /\ pr \in PackedPairs[wr]
      /\ w \in Class /\ f.class \in Class /\ d \in 1 .. Len(Members[w]) /\ LeftOf(From(w, d), w)
      /\ d \in 1 .. (Len(Members[w]) + 1)
  BY <1>1, ClassMembers DEF ElementFacts
<1>3. From(w, d) # <<>> /\ Head(From(w, d)) = m /\ Tail(From(w, d)) = From(w, c)
  <2>1. Len(Members[w]) \in Nat
    BY <1>2, ClassMembers
  <2>2. d # Len(Members[w]) + 1
    BY <1>2, <2>1
  <2> QED BY <1>2, <2>2, LeftFrom
<1>4. /\ T \in Context /\ T.calls # <<>> /\ Head(T.calls).as = "value" /\ Head(T.calls).path = Append(f.path, f.k)
      /\ Head(T.calls).todo = From(w, d) /\ ~T.skipping /\ T.calls \in Seq(CallRecord)
  BY ContextTypes DEF ElementAt, VectorAt, PackedVector
<1>5. Item(T.calls) = m /\ m \in MembersOf(pr[1])
  BY <1>2, <1>3, <1>4 DEF Item, MembersOf
<1>6. Yield(m, n) \in SUBSET Seq(Nat)
  BY <1>2, <1>5, YieldTypes
<1>7. PICK U : U = AfterRead(T, n)
  OBVIOUS
<1>8. /\ U.calls = AfterStore(T.calls) /\ U.arrays = T.arrays /\ U.skipping = T.skipping
      /\ U.got = T.got \cup Owed(Append(f.path, f.k), Yield(m, n))
      /\ U.clean = (T.clean /\ ~Bad(m, n))
      /\ U \in Context
  <2>1. Head(T.calls).todo # <<>>
    BY <1>3, <1>4
  <2>2. /\ AfterRead(T, n).calls = AfterStore(T.calls) /\ AfterRead(T, n).arrays = T.arrays
        /\ AfterRead(T, n).skipping = T.skipping
        /\ AfterRead(T, n).got = T.got \cup Owed(Head(T.calls).path, Yield(Item(T.calls), n))
        /\ AfterRead(T, n).clean = (T.clean /\ ~Bad(Item(T.calls), n))
        /\ Yield(Item(T.calls), n) \in SUBSET Seq(Nat) => AfterRead(T, n) \in Context
    BY <1>4, <2>1, AfterItem
  <2>3. Yield(Item(T.calls), n) \in SUBSET Seq(Nat)
    BY <1>5, <1>6
  <2> QED BY <1>4, <1>5, <1>7, <2>2, <2>3
<1>9. /\ AfterStore(T.calls) # <<>> /\ Tail(AfterStore(T.calls)) = Tail(T.calls)
      /\ Head(AfterStore(T.calls)).todo = From(w, c)
      /\ Head(AfterStore(T.calls)).as = "value"
      /\ Head(AfterStore(T.calls)).path = Append(f.path, f.k)
  BY <1>3, <1>4, CallTypes
<1>10. Reads(n, path, T, U, wr)
  <2>1. TakesItem(T, U)
    BY <1>3, <1>4, <1>8 DEF TakesItem
  <2>2. ItemPath(T.calls) = path
    BY <1>4, <1>5 DEF ItemPath
  <2> QED BY <1>2, <1>4, <1>5, <1>8, <2>1, <2>2 DEF Reads
<1>11. /\ Rest(From(w, d), f.class) = Yield(m, n) \cup Rest(From(w, c), f.class)
       /\ Good(From(w, d), f.class) <=> (~Bad(m, n) /\ Good(From(w, c), f.class))
  <2>1. PICK s : s = From(w, d)
    OBVIOUS
  <2>2. LeftOf(s, w) /\ s # <<>> /\ Head(s) = m /\ Tail(s) = From(w, c)
    BY <1>2, <1>3, <2>1
  <2>3. /\ Rest(s, f.class) = Yield(Head(s), n) \cup Rest(Tail(s), f.class)
        /\ Good(s, f.class) <=> (~Bad(Head(s), n) /\ Good(Tail(s), f.class))
    BY <1>2, <2>2, RestTaken
  <2> QED BY <2>1, <2>2, <2>3
<1>12. ElementAt(e, U, R, w, c)
  <2>1. /\ e.class = f.class /\ e.path = f.path /\ e.n = f.n /\ e.headers = f.headers /\ e.k = f.k
    BY DEF SameElement, SameVector
  <2>2. /\ f.k > 0 /\ f.k <= f.n /\ Ahead(Tail(T.calls), f.path, f.k, f.n, w, R.calls)
        /\ R.got = T.got \cup Owed(Append(f.path, f.k), Rest(From(w, d), f.class))
                         \cup ElementsOwed(f.path, (f.k + 1) .. f.n, Common[pr])
        /\ R.clean = (/\ T.clean /\ Good(From(w, d), f.class)
                      /\ f.n > f.k => ~Mismatched[pr])
    BY DEF ElementAt
  <2>3. Owed(Append(f.path, f.k), Rest(From(w, d), f.class)) =
          Owed(Append(f.path, f.k), Yield(m, n)) \cup Owed(Append(f.path, f.k), Rest(From(w, c), f.class))
    BY <1>11, OwedUnion, SMTT(30)
  <2>4. R.got = U.got \cup Owed(Append(f.path, f.k), Rest(From(w, c), f.class))
                      \cup ElementsOwed(f.path, (f.k + 1) .. f.n, Common[pr])
    BY <1>8, <2>2, <2>3
  <2>5. R.clean = (/\ U.clean /\ Good(From(w, c), f.class)
                   /\ f.n > f.k => ~Mismatched[pr])
    <3>1. R.clean \in BOOLEAN /\ T.clean \in BOOLEAN /\ Mismatched[pr] \in BOOLEAN
      BY <1>2, ContextTypes, MismatchedBy DEF VectorAt
    <3> QED BY <1>8, <1>11, <2>2, <3>1
  <2>6. Meets(pr, From(w, c), Append(f.path, f.k), e.todo, e.pending, GoneFrom(e))
    BY <1>3
  <2> QED BY <1>8, <1>9, <2>1, <2>2, <2>4, <2>5, <2>6 DEF ElementAt
<1> QED BY <1>5, <1>7, <1>8, <1>10, <1>12, ElementIs DEF MemberTaken

InElement(x, y, T, R, f, w, d, pr, wr) ==
  /\ VectorAt(x, y, T, R, f, w, wr) /\ ElementAt(f, T, R, w, d) /\ ElementFacts(f, w, d, pr, wr)
  /\ Caches(f.headers, w) /\ f \in Reader!PackedFrames /\ Reader!Top = f /\ f.what = "packed"
  /\ T \in Context /\ R \in Context /\ f.h \in Nat \ {0} /\ Len(f.headers) \in Nat
  /\ Meets(pr, From(w, d), Append(f.path, f.k), f.todo, f.pending, GoneFrom(f))

\* An element is being read.
LEMMA ElementNow ==
  ASSUME NEW x, NEW y, NEW W, NEW g, IsAt(x, y, W, g), NEW locs, Reader!PackedAt(locs), "next" \notin locs
  PROVE  \E w, d, pr : InElement(x, y, g[1], g[2], frames[1], w, d, pr, PairNow)
<1>f. PICK f, T, R, wr : f = frames[1] /\ T = g[1] /\ R = g[2] /\ wr = PairNow
  OBVIOUS
<1>1. PICK w : VectorAt(x, y, T, R, f, w, wr)
  BY <1>f, VectorNow
<1>2. Reader!Top = f /\ f.at \in locs
  BY <1>1 DEF VectorAt, Reader!PackedAt
<1>3. PICK d : ElementAt(f, T, R, w, d)
  <2>1. StandsElement(f, T, R, w)
    BY <1>1, <1>2 DEF VectorAt
  <2> QED BY <2>1, ElementIs
<1>4. PICK pr : pr = <<w, f.class>>
  OBVIOUS
<1>5. ElementFacts(f, w, d, pr, wr)
  BY <1>1, <1>3, <1>4, ElementHas
<1>6. InElement(x, y, T, R, f, w, d, pr, wr)
  BY <1>1, <1>3, <1>4, <1>5 DEF InElement, VectorAt, PackedVector, ElementFacts, ElementAt
<1> QED BY <1>6, <1>f

\* The vector is gone on with at the same moment.
LEMMA VectorStays ==
  ASSUME NEW x, NEW y, NEW W, NEW g, IsAt(x, y, W, g), Kindly,
         NEW T, NEW R, NEW f, NEW w, NEW wr, T = g[1], R = g[2], VectorAt(x, y, T, R, f, w, wr), wr = PairNow,
         NEW e, SameVector(f, e), frames' = <<e>> \o Tail(frames), OnlyFrames, e.at # "next",
         StandsElement(e, T, R, w)
  PROVE  Onwards(x, y, W)'
<1>1. PICK z \in {x, y} : z = x
  OBVIOUS
<1>2. PICK U : U = T
  OBVIOUS
<1>3. IsBeing(U, T, z.calls, FALSE, T.got, T.clean)
  BY <1>1, <1>2, BeingSame
<1>5. pos' = pos /\ UNCHANGED Reader!messageVars /\ result' = result
  BY DEF OnlyFrames
<1>6. z.n = x.n /\ z.at = x.at
  BY <1>1
<1>7. VectorIs(e, U, R, w)
  BY <1>2 DEF VectorIs
<1> QED BY <1>3, <1>5, <1>6, <1>7, VectorGoesOn

\* The element is gone on with.
LEMMA ElementOn ==
  ASSUME NEW x, NEW y, NEW W, NEW g, IsAt(x, y, W, g), Kindly,
         NEW T, NEW R, NEW f, NEW w, NEW d, NEW pr, NEW wr, T = g[1], R = g[2],
         InElement(x, y, T, R, f, w, d, pr, wr), wr = PairNow,
         NEW e, SameElement(f, e), frames' = <<e>> \o Tail(frames), OnlyFrames, e.at # "next",
         Passed(e, d), Meets(pr, From(w, d), Append(f.path, f.k), e.todo, e.pending, GoneFrom(e))
  PROVE  Onwards(x, y, W)'
<1>1. VectorAt(x, y, T, R, f, w, wr) /\ ElementAt(f, T, R, w, d) /\ pr = <<w, f.class>>
  BY DEF InElement, ElementFacts
<1>2. StandsElement(e, T, R, w)
  BY <1>1, ElementGoesOn
<1>4. SameVector(f, e)
  BY DEF SameElement
<1> QED BY <1>1, <1>2, <1>4, VectorStays

\* A member of the element is read.
LEMMA ElementReads ==
  ASSUME NEW x, NEW y, NEW W, NEW g, IsAt(x, y, W, g), Kindly,
         NEW T, NEW R, NEW f, NEW w, NEW d, NEW pr, NEW wr, T = g[1], R = g[2],
         InElement(x, y, T, R, f, w, d, pr, wr), wr = PairNow,
         d = f.h, f.h <= Len(f.headers), NEW n \in MembersOf(f.class), n.index = f.headers[f.h].index,
         NEW e, SameElement(f, e), e.at # "next",
         NEW path \in Seq(Nat), path = Append(Append(f.path, f.k), n.index),
         NEW fr, fr = Reader!ReadFrame(n, path, f.headers[f.h].type),
         frames' = <<fr, e>> \o Tail(frames), OnlyFrames,
         NEW c, c = d + 1, Passed(e, c),
         Meets(pr, Tail(From(w, d)), Append(f.path, f.k), e.todo, e.pending, GoneFrom(e))
  PROVE  Onwards(x, y, W)'
<1>1. /\ VectorAt(x, y, T, R, f, w, wr) /\ ElementAt(f, T, R, w, d) /\ pr = <<w, f.class>>
      /\ ElementFacts(f, w, d, pr, wr) /\ Caches(f.headers, w) /\ PackedVector(f, T, R, w, wr)
      /\ T \in Context /\ f.class \in Class /\ x.calls = T.calls
  BY Zenon DEF InElement, ElementFacts, VectorAt
<1>2. PICK m : m = Members[w][d]
  OBVIOUS
<1>3. HeaderIs(f, w, m, m.index)
  BY <1>1, <1>2, ElementHeader
<1>4. n.index = m.index /\ f.headers[f.h].type = GetHeaderEnum(m.type) /\ f.headers[f.h].type \in Reader!HeaderTypes
  BY <1>3 DEF HeaderIs
<1>5. PICK U : U = AfterRead(T, n)
  OBVIOUS
<1>6. /\ U \in Context /\ Reads(n, path, T, U, wr) /\ Item(T.calls) = m /\ StandsElement(e, U, R, w)
  <2>1. d <= Len(f.headers)
    OBVIOUS
  <2>2. MemberTaken(T, R, w, wr, n, m, e, path)
    BY <1>1, <1>2, <1>4, <2>1, ElementTakes
  <2> QED BY <1>5, <2>2 DEF MemberTaken
<1>7. n \in Reader!Member
  <2>1. n \in Member
    BY <1>1, MemberTypes
  <2> QED BY <2>1, ReaderKinds
<1>8. fr \in Reader!Frame /\ fr.what = "read"
  BY <1>4, <1>7, ReadFrameType
<1>9. fr.member = n /\ fr.path = path /\ fr.type = f.headers[f.h].type
  BY DEF Reader!ReadFrame
<1>10. Stands(fr, T, U, wr)
  <2>1. StandsRead(fr, T, U, wr)
    BY <1>4, <1>6, <1>9 DEF StandsRead
  <2> QED BY <1>8, <2>1 DEF Stands
<1>11. Stands(e, U, R, wr)
  <2>1. U.arrays = T.arrays /\ U.skipping = T.skipping
    BY <1>6 DEF Reads, TakesItem
  <2> QED BY <1>1, <1>6, <2>1, VectorStands DEF SameElement
<1>12. Present(T, x)'
  BY PresentIs DEF Present, Kindly, OnlyFrames, Reader!messageVars
<1>13. TakenSince(fr, x)'
  <2>1. Own(x.calls) = 0
    <3>1. Head(x.calls).as = "value"
      BY <1>1, Zenon DEF ElementAt
    <3> QED BY <3>1, Zenon DEF Own, OneIf
  <2>2. Reached(x.at)' /\ x.at \in Nat
    BY <1>1 DEF VectorAt, Reached, OnlyFrames, Kindly, IsAt, Moment
  <2> QED BY <1>8, <2>1, <2>2 DEF TakenSince
<1>14. Waits(e)
  <2>1. e \in Reader!Frame /\ e.what = "packed"
    BY DEF SameElement, SameVector
  <2>2. e \in Reader!PackedFrames
    BY <2>1, Kinds
  <2> QED BY <2>1, <2>2 DEF Waits, Reader!PackedFrames
<1>15. ReaderTypes' /\ sent' = sent /\ entered' = entered /\ stream' = stream
  BY DEF Kindly, IInv
<1>16. Stands(e, U, g[2], PairNow) /\ Stands(fr, T, U, PairNow) /\ fr.what \notin {"object", "skip"}
       /\ e \in Reader!Frame
  <2>1. Stands(e, U, g[2], PairNow) /\ Stands(fr, T, U, PairNow)
    BY <1>10, <1>11, Zenon
  <2>2. fr.what \notin {"object", "skip"}
    BY <1>8
  <2>3. e \in Reader!Frame
    BY Zenon DEF SameElement, SameVector
  <2> QED BY <2>1, <2>2, <2>3
<1>17. Goal(x, y, W)'
  BY <1>1, <1>6, <1>8, <1>12, <1>13, <1>14, <1>15, <1>16, Invokes
<1> QED BY <1>17 DEF Onwards

\* Less is waited for, when nothing is left of what was written.
LEMMA MeetsLess ==
  ASSUME NEW pr \in ClassPairs, NEW path, NEW todo, NEW A,
         Meets(pr, <<>>, path, todo, A, {}), todo # <<>>
  PROVE  Meets(pr, <<>>, path, Tail(todo), A, {})
<1>1. pr[2] \in Class /\ LeftOf(todo, pr[2])
  BY MeetsTypes
<1>2. LeftOf(Tail(todo), pr[2]) /\ Items(Tail(todo)) \subseteq Items(todo)
  BY <1>1, SomeLeft
<1>3. Items(<<>>) = {}
  BY DEF Items
<1>4. Waiting(Tail(todo), A, {}) \subseteq Waiting(todo, A, {})
  BY <1>2 DEF Waiting
<1> QED BY <1>2, <1>3, <1>4 DEF Meets

\* What the steps of an element know.
LEMMA ElementOpen ==
  ASSUME NEW x, NEW y, NEW T, NEW R, NEW f, NEW w, NEW d, NEW pr, NEW wr,
         InElement(x, y, T, R, f, w, d, pr, wr)
  PROVE  /\ Reader!Top = f /\ f.what = "packed" /\ f \in Reader!PackedFrames
         /\ f.h \in Nat \ {0} /\ Len(f.headers) \in Nat /\ Passed(f, d) /\ d \in Nat
         /\ Len(f.headers) = Len(Members[w]) /\ w \in Class /\ f.class \in Class
         /\ pr \in ClassPairs /\ pr[1] = w /\ pr[2] = f.class
         /\ f.todo \in Seq(Reader!Member) /\ f.pending \in SUBSET Reader!PendingMember
         /\ f.path \in Seq(Nat) /\ f.k \in Nat /\ Append(f.path, f.k) \in Seq(Nat)
         /\ Meets(pr, From(w, d), Append(f.path, f.k), f.todo, f.pending, GoneFrom(f))
<1>1. f \in Reader!PackedFrames /\ Reader!Top = f /\ f.what = "packed" /\ ElementFacts(f, w, d, pr, wr)
      /\ Passed(f, d)
  BY DEF InElement, ElementAt
<1>2. f.path \in Seq(Nat) /\ f.k \in Nat /\ f.todo \in Seq(Reader!Member) /\ f.pending \in SUBSET Reader!PendingMember
  BY <1>1 DEF Reader!PackedFrames
<1>3. Append(f.path, f.k) \in Seq(Nat)
  BY <1>2, AppendProperties
<1>4. d \in Nat /\ f.h \in Nat \ {0} /\ Len(f.headers) \in Nat
      /\ Len(f.headers) = Len(Members[w]) /\ w \in Class /\ f.class \in Class
      /\ pr \in ClassPairs /\ pr[1] = w /\ pr[2] = f.class
  BY <1>1 DEF ElementFacts
<1> QED BY <1>1, <1>2, <1>3, <1>4 DEF InElement

\* What is left at the end of the headers.
LEMMA ElementEnd ==
  ASSUME NEW x, NEW y, NEW T, NEW R, NEW f, NEW w, NEW d, NEW pr, NEW wr,
         InElement(x, y, T, R, f, w, d, pr, wr), ~(f.h <= Len(f.headers))
  PROVE  d = f.h /\ From(w, d) = <<>>
<1>1. d = f.h /\ d = Len(Members[w]) + 1 /\ w \in Class /\ Len(Members[w]) \in Nat
  BY ElementOpen DEF Passed
<1>2. d \in 1 .. (Len(Members[w]) + 1)
  BY <1>1
<1> QED BY <1>1, <1>2, LeftFrom

\* The cached headers are used up.
LEMMA StoreMissingOn ==
  ASSUME NEW x, NEW y, NEW W, NEW g, IsAt(x, y, W, g), Kindly, Reader!StoreMissing
  PROVE  Onwards(x, y, W)'
<1>f. PICK f, T, R, wr : f = frames[1] /\ T = g[1] /\ R = g[2] /\ wr = PairNow
  OBVIOUS
<1>1. /\ Reader!PackedAt({"store"}) /\ Reader!Top.todo # <<>>
      /\ frames' = <<[Reader!Top EXCEPT !.todo = Tail(@)]>> \o Tail(frames) /\ OnlyFrames
  BY DEF Reader!StoreMissing, Reader!Become, OnlyFrames
<1>2. PICK w, d, pr : InElement(x, y, T, R, f, w, d, pr, wr)
  BY <1>1, <1>f, ElementNow
<1>3. /\ Reader!Top = f /\ f.what = "packed" /\ f \in Reader!PackedFrames
      /\ f.h \in Nat \ {0} /\ Len(f.headers) \in Nat /\ Passed(f, d)
      /\ pr \in ClassPairs
      /\ Meets(pr, From(w, d), Append(f.path, f.k), f.todo, f.pending, GoneFrom(f))
  BY <1>2, ElementOpen
<1>4. f.at = "store" /\ f.todo # <<>> /\ ~(f.h <= Len(f.headers))
  BY <1>1, <1>3 DEF Reader!StoreMissing, Reader!PackedAt, Reader!Within
<1>5. d = f.h /\ From(w, d) = <<>>
  BY <1>2, <1>4, ElementEnd
<1>6. PICK e : e = [f EXCEPT !.todo = Tail(@)]
  OBVIOUS
<1>7. frames' = <<e>> \o Tail(frames)
  BY <1>1, <1>3, <1>6
<1>8. e \in Reader!Frame
  <2>1. {} \in SUBSET Reader!PendingMember /\ 1 \in Nat \ {0}
    OBVIOUS
  <2> QED BY <1>3, <1>4, <1>6, <2>1, StoredPacked
<1>9. SameElement(f, e) /\ e.at = "store" /\ e.todo = Tail(f.todo) /\ e.pending = f.pending /\ e.h = f.h
      /\ e.headers = f.headers
  BY <1>3, <1>4, <1>6, <1>8 DEF SameElement, SameVector, Reader!PackedFrames
<1>10. Passed(e, d)
  BY <1>3, <1>4, <1>9 DEF Passed
<1>11. Meets(pr, From(w, d), Append(f.path, f.k), e.todo, e.pending, GoneFrom(e))
  <2>1. Meets(pr, <<>>, Append(f.path, f.k), f.todo, f.pending, {})
    BY <1>3, <1>4, <1>5 DEF GoneFrom
  <2>2. Meets(pr, <<>>, Append(f.path, f.k), Tail(f.todo), f.pending, {})
    BY <1>3, <1>4, <2>1, MeetsLess
  <2> QED BY <1>5, <1>9, <2>2 DEF GoneFrom
<1>12. e.at # "next"
  BY <1>9
<1> QED BY <1>1, <1>2, <1>7, <1>9, <1>10, <1>11, <1>12, <1>f, ElementOn

\* The next header is that of another member: this one becomes pending.
LEMMA StorePendingOn ==
  ASSUME NEW x, NEW y, NEW W, NEW g, IsAt(x, y, W, g), Kindly, Reader!StorePending
  PROVE  Onwards(x, y, W)'
<1>f. PICK f, T, R, wr : f = frames[1] /\ T = g[1] /\ R = g[2] /\ wr = PairNow
  OBVIOUS
<1>1. /\ Reader!PackedAt({"store", "drain"}) /\ Reader!Top.todo # <<>>
      /\ frames' = <<[Reader!Top EXCEPT !.todo = Tail(@), !.at = "store",
                        !.pending = @ \cup {Reader!Pending(Reader!Now, Append(Reader!Element, Reader!Now.index))}]>>
                     \o Tail(frames)
      /\ OnlyFrames
  BY DEF Reader!StorePending, Reader!Become, OnlyFrames
<1>2. PICK w, d, pr : InElement(x, y, T, R, f, w, d, pr, wr)
  BY <1>1, <1>f, ElementNow
<1>3. /\ Reader!Top = f /\ f.what = "packed" /\ f \in Reader!PackedFrames
      /\ f.h \in Nat \ {0} /\ Len(f.headers) \in Nat /\ Passed(f, d)
      /\ pr \in ClassPairs /\ f.pending \in SUBSET Reader!PendingMember
      /\ Meets(pr, From(w, d), Append(f.path, f.k), f.todo, f.pending, GoneFrom(f))
  BY <1>2, ElementOpen
<1>4. f.at \in {"store", "drain"} /\ f.todo # <<>>
  BY <1>1, <1>3 DEF Reader!PackedAt
<1>5. PICK q, pending : /\ q = Reader!Pending(Head(f.todo), Append(Append(f.path, f.k), Head(f.todo).index))
                        /\ pending = f.pending \cup {q}
  OBVIOUS
<1>6. PICK e : e = [f EXCEPT !.todo = Tail(@), !.at = "store", !.pending = pending]
  OBVIOUS
<1>7. frames' = <<e>> \o Tail(frames)
  BY <1>1, <1>3, <1>5, <1>6 DEF Reader!Now, Reader!Element
<1>8. e \in Reader!Frame
  <2>1. q \in Reader!PendingMember
    <3>1. Reader!Now \in Reader!Member /\ Append(Reader!Element, Reader!Now.index) \in Seq(Nat)
          /\ Reader!Element = Append(f.path, f.k)
      BY <1>3, <1>4, <1>f, PackedMember
    <3>2. Reader!Now = Head(f.todo)
      BY <1>3 DEF Reader!Now
    <3> QED BY <1>5, <3>1, <3>2 DEF Reader!Pending, Reader!PendingMember
  <2>2. pending \in SUBSET Reader!PendingMember /\ 1 \in Nat \ {0}
    BY <1>3, <1>5, <2>1
  <2> QED BY <1>3, <1>4, <1>6, <2>2, StoredPacked
<1>9. SameElement(f, e) /\ e.at = "store" /\ e.todo = Tail(f.todo) /\ e.pending = pending /\ e.h = f.h
      /\ e.headers = f.headers
  BY <1>3, <1>4, <1>6, <1>8 DEF SameElement, SameVector, Reader!PackedFrames
<1>10. Passed(e, d)
  BY <1>3, <1>4, <1>9 DEF Passed
<1>11. Meets(pr, From(w, d), Append(f.path, f.k), e.todo, e.pending, GoneFrom(e))
  <2>1. Meets(pr, From(w, d), Append(f.path, f.k), f.todo, f.pending, {})
    BY <1>3, <1>4 DEF GoneFrom
  <2>2. Meets(pr, From(w, d), Append(f.path, f.k), Tail(f.todo), f.pending \cup {q}, {})
    BY <1>3, <1>4, <1>5, <2>1, MeetsLater
  <2> QED BY <1>5, <1>9, <2>2 DEF GoneFrom
<1>12. e.at # "next"
  BY <1>9
<1> QED BY <1>1, <1>2, <1>7, <1>9, <1>10, <1>11, <1>12, <1>f, ElementOn

\* The closure of a pending member of an element returns.
LEMMA ReadPendingReturnsOn ==
  ASSUME NEW x, NEW y, NEW W, NEW g, IsAt(x, y, W, g), Kindly, Reader!ReadPendingReturns
  PROVE  Onwards(x, y, W)'
<1>f. PICK f, T, R, wr : f = frames[1] /\ T = g[1] /\ R = g[2] /\ wr = PairNow
  OBVIOUS
<1>1. /\ Reader!PackedAt({"returned"})
      /\ frames' = <<[Reader!Top EXCEPT !.at = "drain", !.h = @ + 1,
                        !.pending = @ \ Reader!NextPending]>> \o Tail(frames)
      /\ OnlyFrames
  BY DEF Reader!ReadPendingReturns, Reader!Become, OnlyFrames
<1>2. PICK w, d, pr : InElement(x, y, T, R, f, w, d, pr, wr)
  BY <1>1, <1>f, ElementNow
<1>3. /\ Reader!Top = f /\ f.what = "packed" /\ f \in Reader!PackedFrames
      /\ f.h \in Nat \ {0} /\ Len(f.headers) \in Nat /\ Passed(f, d)
      /\ pr \in ClassPairs /\ f.pending \in SUBSET Reader!PendingMember
      /\ Meets(pr, From(w, d), Append(f.path, f.k), f.todo, f.pending, GoneFrom(f))
  BY <1>2, ElementOpen
<1>4. f.at = "returned"
  BY <1>1, <1>3 DEF Reader!PackedAt
<1>5. PICK i, pending, h : /\ i = f.headers[f.h].index /\ pending = {p \in f.pending : p.member.index # i}
                           /\ h = f.h + 1
  OBVIOUS
<1>6. PICK e : e = [f EXCEPT !.at = "drain", !.h = h, !.pending = pending]
  OBVIOUS
<1>7. frames' = <<e>> \o Tail(frames)
  <2>1. f.pending \ Reader!NextPending = pending
    BY <1>3, <1>5 DEF Reader!NextPending, Reader!NextHeader
  <2> QED BY <1>1, <1>3, <1>5, <1>6, <2>1
<1>8. e \in Reader!Frame
  <2>1. pending \in SUBSET Reader!PendingMember /\ h \in Nat \ {0} /\ 1 \in Nat /\ <<>> \in Seq(Reader!Member)
    BY <1>3, <1>5
  <2> QED BY <1>3, <1>6, <2>1, ChangedPacked, Zenon
<1>9. SameElement(f, e) /\ e.at = "drain" /\ e.todo = f.todo /\ e.pending = pending /\ e.h = h
      /\ e.headers = f.headers
  BY <1>3, <1>4, <1>6, <1>8 DEF SameElement, SameVector, Reader!PackedFrames
<1>10. Passed(e, d)
  BY <1>3, <1>4, <1>5, <1>9 DEF Passed
<1>11. Meets(pr, From(w, d), Append(f.path, f.k), e.todo, e.pending, GoneFrom(e))
  <2>1. Meets(pr, From(w, d), Append(f.path, f.k), f.todo, f.pending, {i})
    BY <1>3, <1>4, <1>5 DEF GoneFrom
  <2>2. Meets(pr, From(w, d), Append(f.path, f.k), f.todo, pending, {})
    BY <1>5, <2>1, MeetsReturned
  <2> QED BY <1>9, <2>2 DEF GoneFrom
<1>12. e.at # "next"
  BY <1>9
<1> QED BY <1>1, <1>2, <1>7, <1>9, <1>10, <1>11, <1>12, <1>f, ElementOn

\* A member of the element that can be read.
ElementMember(f, n, path, c, i) ==
  /\ n \in MembersOf(c) /\ n \in Reader!Member /\ i = n.index /\ path \in Seq(Nat)
  /\ path = Append(Append(f.path, f.k), n.index)

\* A member of an element that has not been read.
LEMMA WaitingMember ==
  ASSUME NEW x, NEW y, NEW T, NEW R, NEW f, NEW w, NEW d, NEW pr, NEW wr,
         InElement(x, y, T, R, f, w, d, pr, wr), f.at \in {"store", "drain"},
         NEW n \in Waiting(f.todo, f.pending, {}), NEW path, path = Append(Append(f.path, f.k), n.index)
  PROVE  ElementMember(f, n, path, f.class, n.index)
<1>1. /\ pr \in ClassPairs /\ pr[2] = f.class /\ f.class \in Class /\ Append(f.path, f.k) \in Seq(Nat)
      /\ Meets(pr, From(w, d), Append(f.path, f.k), f.todo, f.pending, {})
  <2>1. /\ pr \in ClassPairs /\ pr[2] = f.class /\ f.class \in Class /\ Append(f.path, f.k) \in Seq(Nat)
        /\ Meets(pr, From(w, d), Append(f.path, f.k), f.todo, f.pending, GoneFrom(f))
    BY ElementOpen
  <2>2. GoneFrom(f) = {}
    BY DEF GoneFrom
  <2> QED BY <2>1, <2>2
<1>2. Waiting(f.todo, f.pending, {}) \subseteq MembersOf(f.class)
  BY <1>1, MeetsTypes
<1>3. n \in MembersOf(f.class)
  BY <1>2
<1>4. n \in Member /\ n.index \in Nat
  BY <1>1, <1>3, MemberTypes
<1> QED BY <1>1, <1>3, <1>4, ReaderKinds, AppendProperties DEF ElementMember

\* If the next header is that of such a member, it has not been passed yet.
LEMMA HeaderPassed ==
  ASSUME NEW x, NEW y, NEW T, NEW R, NEW f, NEW w, NEW d, NEW pr, NEW wr,
         InElement(x, y, T, R, f, w, d, pr, wr), f.at \in {"store", "drain"}, f.h <= Len(f.headers),
         NEW n \in Waiting(f.todo, f.pending, {}), n.index = f.headers[f.h].index
  PROVE  d = f.h /\ From(w, d) # <<>> /\ Head(From(w, d)).index = f.headers[f.h].index
<1>1. ElementFacts(f, w, d, pr, wr) /\ ElementAt(f, T, R, w, d) /\ Caches(f.headers, w)
  BY DEF InElement
<1>2. d = f.h
  BY <1>1, NotPassed
<1>3. PICK m : m = Members[w][f.h]
  OBVIOUS
<1>4. m.index = f.headers[f.h].index
  BY <1>1, <1>3, ElementHeader DEF HeaderIs
<1>5. w \in Class /\ d \in 1 .. (Len(Members[w]) + 1) /\ d # Len(Members[w]) + 1
  BY <1>1, <1>2, ClassMembers DEF ElementFacts
<1>6. From(w, d) # <<>> /\ Head(From(w, d)) = Members[w][d]
  BY <1>5, LeftFrom
<1> QED BY <1>2, <1>3, <1>4, <1>6

\* The next header is that of the member stored.
LEMMA StoreNextOn ==
  ASSUME NEW x, NEW y, NEW W, NEW g, IsAt(x, y, W, g), Kindly, Reader!StoreNext
  PROVE  Onwards(x, y, W)'
<1>f. PICK f, T, R, wr : f = frames[1] /\ T = g[1] /\ R = g[2] /\ wr = PairNow
  OBVIOUS
<1>1. /\ Reader!PackedAt({"store", "drain"}) /\ Reader!Top.todo # <<>> /\ Reader!Within
      /\ Reader!NextHeader.index = Reader!Now.index
      /\ frames' = <<Reader!ReadFrame(Reader!Now, Append(Reader!Element, Reader!Now.index), Reader!NextHeader.type),
                     [Reader!Top EXCEPT !.todo = Tail(@), !.h = Reader!PassedHeader, !.at = "store"]>>
                   \o Tail(frames)
      /\ OnlyFrames
  BY DEF Reader!StoreNext, OnlyFrames
<1>2. PICK w, d, pr : InElement(x, y, T, R, f, w, d, pr, wr)
  BY <1>1, <1>f, ElementNow
<1>3. /\ Reader!Top = f /\ f.what = "packed" /\ f \in Reader!PackedFrames
      /\ f.h \in Nat \ {0} /\ Len(f.headers) \in Nat /\ Passed(f, d) /\ d \in Nat
      /\ pr \in ClassPairs /\ pr[2] = f.class /\ f.todo \in Seq(Reader!Member)
      /\ Meets(pr, From(w, d), Append(f.path, f.k), f.todo, f.pending, GoneFrom(f))
  BY <1>2, ElementOpen
<1>4. f.at \in {"store", "drain"} /\ f.todo # <<>> /\ f.h <= Len(f.headers)
  BY <1>1, <1>3 DEF Reader!PackedAt, Reader!Within
<1>5. PICK n, path, c, h : /\ n = Head(f.todo) /\ path = Append(Append(f.path, f.k), n.index) /\ c = d + 1
                           /\ h = IF f.at = "store" THEN f.h + 1 ELSE f.h
  OBVIOUS
<1>6. n.index = f.headers[f.h].index
  BY <1>1, <1>3, <1>5 DEF Reader!NextHeader, Reader!Now
<1>7. n \in Waiting(f.todo, f.pending, {})
  <2>1. n \in Items(f.todo)
    BY <1>3, <1>4, <1>5, MeetsTypes
  <2> QED BY <2>1 DEF Waiting
<1>8. d = f.h /\ From(w, d) # <<>> /\ Head(From(w, d)).index = n.index
  BY <1>2, <1>4, <1>6, <1>7, HeaderPassed
<1>9. n \in MembersOf(f.class) /\ path \in Seq(Nat)
  BY <1>2, <1>4, <1>5, <1>7, WaitingMember DEF ElementMember
<1>10. PICK e : e = [f EXCEPT !.todo = Tail(@), !.h = h, !.at = "store"]
  OBVIOUS
<1>11. PICK fr : fr = Reader!ReadFrame(n, path, f.headers[f.h].type)
  OBVIOUS
<1>12. frames' = <<fr, e>> \o Tail(frames)
  BY <1>1, <1>3, <1>5, <1>10, <1>11 DEF Reader!Now, Reader!Element, Reader!NextHeader, Reader!PassedHeader
<1>13. e \in Reader!Frame
  <2>1. {} \in SUBSET Reader!PendingMember /\ h \in Nat \ {0}
    BY <1>3, <1>5
  <2> QED BY <1>3, <1>4, <1>10, <2>1, StoredPacked
<1>14. SameElement(f, e) /\ e.at = "store" /\ e.todo = Tail(f.todo) /\ e.pending = f.pending /\ e.h = h
       /\ e.headers = f.headers
  BY <1>3, <1>4, <1>10, <1>13 DEF SameElement, SameVector, Reader!PackedFrames
<1>15. Passed(e, c)
  BY <1>3, <1>4, <1>5, <1>8, <1>14 DEF Passed
<1>16. Meets(pr, Tail(From(w, d)), Append(f.path, f.k), e.todo, e.pending, GoneFrom(e))
  <2>1. Meets(pr, From(w, d), Append(f.path, f.k), f.todo, f.pending, {})
    BY <1>3, <1>4 DEF GoneFrom
  <2>2. Head(From(w, d)).index = Head(f.todo).index
    BY <1>5, <1>8
  <2>3. Meets(pr, Tail(From(w, d)), Append(f.path, f.k), Tail(f.todo), f.pending, {})
    BY <1>3, <1>4, <1>8, <2>1, <2>2, MeetsTaken
  <2> QED BY <1>14, <2>3 DEF GoneFrom
<1>17. e.at # "next"
  BY <1>14
<1> QED BY <1>1, <1>2, <1>4, <1>5, <1>6, <1>8, <1>9, <1>11, <1>12, <1>14, <1>15, <1>16, <1>17, <1>f, ElementReads, Zenon

\* It is that of a pending member.
LEMMA ReadPendingOn ==
  ASSUME NEW x, NEW y, NEW W, NEW g, IsAt(x, y, W, g), Kindly, Reader!ReadPending
  PROVE  Onwards(x, y, W)'
<1>f. PICK f, T, R, wr : f = frames[1] /\ T = g[1] /\ R = g[2] /\ wr = PairNow
  OBVIOUS
<1>1. /\ Reader!PackedAt({"store", "drain"}) /\ Reader!Within /\ OnlyFrames
  BY DEF Reader!ReadPending, OnlyFrames
<1>q. PICK q \in Reader!NextPending :
         frames' = <<Reader!ReadFrame(q.member, q.path, Reader!NextHeader.type),
                     [Reader!Top EXCEPT !.at = "returned"]>> \o Tail(frames)
  BY DEF Reader!ReadPending
<1>2. PICK w, d, pr : InElement(x, y, T, R, f, w, d, pr, wr)
  BY <1>1, <1>f, ElementNow
<1>3. /\ Reader!Top = f /\ f.what = "packed" /\ f \in Reader!PackedFrames
      /\ f.h \in Nat \ {0} /\ Len(f.headers) \in Nat /\ Passed(f, d) /\ d \in Nat
      /\ pr \in ClassPairs /\ pr[2] = f.class
      /\ Meets(pr, From(w, d), Append(f.path, f.k), f.todo, f.pending, GoneFrom(f))
  BY <1>2, ElementOpen
<1>4. f.at \in {"store", "drain"} /\ f.h <= Len(f.headers)
  BY <1>1, <1>3 DEF Reader!PackedAt, Reader!Within
<1>5. PICK n, path, c : n = q.member /\ path = Append(Append(f.path, f.k), n.index) /\ c = d + 1
  OBVIOUS
<1>6. q \in f.pending /\ n.index = f.headers[f.h].index
  BY <1>3, <1>5 DEF Reader!NextPending, Reader!NextHeader
<1>7. n \in Waiting(f.todo, f.pending, {})
  BY <1>5, <1>6 DEF Waiting
<1>8. d = f.h /\ From(w, d) # <<>> /\ Head(From(w, d)).index = n.index
  BY <1>2, <1>4, <1>6, <1>7, HeaderPassed
<1>9. n \in MembersOf(f.class) /\ path \in Seq(Nat)
  BY <1>2, <1>4, <1>5, <1>7, WaitingMember DEF ElementMember
<1>18. q.path = path
  BY <1>3, <1>5, <1>6 DEF Meets
<1>10. PICK e : e = [f EXCEPT !.at = "returned"]
  OBVIOUS
<1>11. PICK fr : fr = Reader!ReadFrame(n, path, f.headers[f.h].type)
  OBVIOUS
<1>12. frames' = <<fr, e>> \o Tail(frames)
  BY <1>q, <1>3, <1>5, <1>10, <1>11, <1>18 DEF Reader!NextHeader
<1>13. e \in Reader!Frame
  BY <1>3, <1>10 DEF Reader!Frame, Reader!PackedFrames
<1>14. SameElement(f, e) /\ e.at = "returned" /\ e.todo = f.todo /\ e.pending = f.pending /\ e.h = f.h
       /\ e.headers = f.headers
  BY <1>3, <1>10, <1>13 DEF SameElement, SameVector, Reader!PackedFrames
<1>15. Passed(e, c)
  BY <1>3, <1>4, <1>5, <1>8, <1>14 DEF Passed
<1>16. Meets(pr, Tail(From(w, d)), Append(f.path, f.k), e.todo, e.pending, GoneFrom(e))
  <2>1. Meets(pr, From(w, d), Append(f.path, f.k), f.todo, f.pending, {})
    BY <1>3, <1>4 DEF GoneFrom
  <2>2. q.member.index = Head(From(w, d)).index
    BY <1>5, <1>8
  <2>3. Meets(pr, Tail(From(w, d)), Append(f.path, f.k), f.todo, f.pending, {Head(From(w, d)).index})
    BY <1>3, <1>6, <1>8, <2>1, <2>2, MeetsNow
  <2> QED BY <1>6, <1>8, <1>14, <2>3 DEF GoneFrom
<1>17. e.at # "next"
  BY <1>14
<1> QED BY <1>1, <1>2, <1>4, <1>5, <1>6, <1>8, <1>9, <1>11, <1>12, <1>14, <1>15, <1>16, <1>17, <1>f, ElementReads, Zenon

\* Neither: it is passed.
LEMMA PassHeaderOn ==
  ASSUME NEW x, NEW y, NEW W, NEW g, IsAt(x, y, W, g), Kindly, Reader!PassHeader
  PROVE  Onwards(x, y, W)'
<1>f. PICK f, T, R, wr : f = frames[1] /\ T = g[1] /\ R = g[2] /\ wr = PairNow
  OBVIOUS
<1>1. /\ Reader!PackedAt({"store", "drain"}) /\ Reader!Top.todo = <<>> /\ Reader!Within
      /\ Reader!NextPending = {}
      /\ frames' = <<[Reader!Top EXCEPT !.h = @ + 1]>> \o Tail(frames) /\ OnlyFrames
  BY DEF Reader!PassHeader, Reader!Become, OnlyFrames
<1>2. PICK w, d, pr : InElement(x, y, T, R, f, w, d, pr, wr)
  BY <1>1, <1>f, ElementNow
<1>3. /\ Reader!Top = f /\ f.what = "packed" /\ f \in Reader!PackedFrames
      /\ f.h \in Nat \ {0} /\ Len(f.headers) \in Nat /\ Passed(f, d) /\ d \in Nat
      /\ pr \in ClassPairs /\ pr[1] = w /\ pr[2] = f.class /\ w \in Class
      /\ Len(f.headers) = Len(Members[w])
      /\ Meets(pr, From(w, d), Append(f.path, f.k), f.todo, f.pending, GoneFrom(f))
  BY <1>2, ElementOpen
<1>4. f.at \in {"store", "drain"} /\ f.todo = <<>> /\ f.h <= Len(f.headers) /\ GoneFrom(f) = {}
  BY <1>1, <1>3 DEF Reader!PackedAt, Reader!Within, GoneFrom
<1>5. ElementFacts(f, w, d, pr, wr) /\ Caches(f.headers, w)
  BY <1>2 DEF InElement
<1>6. PICK m : m = Members[w][f.h]
  OBVIOUS
<1>7. m \in MembersOf(w) /\ f.headers[f.h].index = m.index
  BY <1>4, <1>5, <1>6, ElementHeader DEF HeaderIs
<1>8. d # f.h
  <2> SUFFICES ASSUME d = f.h PROVE FALSE
    OBVIOUS
  <2>1. d \in 1 .. (Len(Members[w]) + 1) /\ d # Len(Members[w]) + 1
    BY <1>3, <1>4
  <2>2. From(w, d) # <<>> /\ Head(From(w, d)) = m
    BY <1>3, <1>6, <2>1, LeftFrom
  <2>3. ~\E p \in f.pending : p.member.index = Head(From(w, d)).index
    BY <1>1, <1>3, <1>7, <2>2 DEF Reader!NextPending, Reader!NextHeader
  <2>4. Meets(pr, From(w, d), Append(f.path, f.k), <<>>, f.pending, {})
    BY <1>3, <1>4
  <2>5. Counterparts(m, pr[2]) = {}
    <3>1. Counterparts(Head(From(w, d)), pr[2]) = {}
      BY <1>3, <2>2, <2>3, <2>4, MeetsUnknown
    <3> QED BY <2>2, <3>1
  <2>6. wr \in ClassPairs /\ ~Unsupported[wr]
    BY <1>f, PresentIs
  <2>7. pr \in PackedPairs[wr] /\ m \in MembersOf(pr[1])
    BY <1>3, <1>5, <1>7 DEF ElementFacts
  <2> QED BY <2>5, <2>6, <2>7 DEF Unsupported
<1>9. d = f.h + 1 /\ f.at = "store"
  BY <1>3, <1>4, <1>8 DEF Passed
<1>10. PICK h, e : h = f.h + 1 /\ e = [f EXCEPT !.h = h]
  OBVIOUS
<1>11. frames' = <<e>> \o Tail(frames)
  BY <1>1, <1>3, <1>10
<1>12. e \in Reader!Frame
  <2>1. h \in Nat \ {0} /\ 1 \in Nat /\ <<>> \in Seq(Reader!Member) /\ {} \in SUBSET Reader!PendingMember
    BY <1>3, <1>10
  <2> QED BY <1>3, <1>10, <2>1, ChangedPacked, Zenon
<1>13. SameElement(f, e) /\ e.at = "store" /\ e.todo = f.todo /\ e.pending = f.pending /\ e.h = h
       /\ e.headers = f.headers
  BY <1>3, <1>9, <1>10, <1>12 DEF SameElement, SameVector, Reader!PackedFrames
<1>14. Passed(e, d)
  BY <1>3, <1>4, <1>9, <1>10, <1>13 DEF Passed
<1>15. Meets(pr, From(w, d), Append(f.path, f.k), e.todo, e.pending, GoneFrom(e))
  <2>1. GoneFrom(e) = GoneFrom(f)
    BY <1>4, <1>13 DEF GoneFrom
  <2> QED BY <1>3, <1>13, <2>1
<1>16. e.at # "next"
  BY <1>13
<1> QED BY <1>1, <1>2, <1>11, <1>13, <1>14, <1>15, <1>16, <1>f, ElementOn

\* The element has been read.
LEMMA ElementReadOn ==
  ASSUME NEW x, NEW y, NEW W, NEW g, IsAt(x, y, W, g), Kindly, Reader!ElementRead
  PROVE  Onwards(x, y, W)'
<1>f. PICK f, T, R, wr : f = frames[1] /\ T = g[1] /\ R = g[2] /\ wr = PairNow
  OBVIOUS
<1>1. /\ Reader!PackedAt({"store", "drain"}) /\ Reader!Top.todo = <<>> /\ ~Reader!Within
      /\ frames' = <<[Reader!Top EXCEPT !.at = "next"]>> \o Tail(frames) /\ OnlyFrames
  BY DEF Reader!ElementRead, Reader!Move, Reader!Become, OnlyFrames
<1>2. PICK w, d, pr : InElement(x, y, T, R, f, w, d, pr, wr)
  BY <1>1, <1>f, ElementNow
<1>3. /\ Reader!Top = f /\ f.what = "packed" /\ f \in Reader!PackedFrames
      /\ f.h \in Nat \ {0} /\ Len(f.headers) \in Nat
      /\ pr \in ClassPairs /\ pr[1] = w /\ pr[2] = f.class
  BY <1>2, ElementOpen
<1>4. f.at \in {"store", "drain"} /\ ~(f.h <= Len(f.headers))
  BY <1>1, <1>3 DEF Reader!PackedAt, Reader!Within
<1>5. From(w, d) = <<>>
  BY <1>2, <1>4, ElementEnd
<1>6. /\ VectorAt(x, y, T, R, f, w, wr) /\ T \in Context /\ R \in Context /\ x.calls = T.calls
      /\ f.k > 0 /\ f.k <= f.n
      /\ T.calls # <<>> /\ Head(T.calls).as = "value" /\ Head(T.calls).todo = <<>>
      /\ Ahead(Tail(T.calls), f.path, f.k, f.n, w, R.calls)
      /\ R.got = T.got \cup Owed(Append(f.path, f.k), Rest(<<>>, f.class))
                       \cup ElementsOwed(f.path, (f.k + 1) .. f.n, Common[pr])
      /\ R.clean = (/\ T.clean /\ Good(<<>>, f.class)
                    /\ f.n > f.k => ~Mismatched[pr])
      /\ pr = <<w, f.class>>
  BY <1>2, <1>5 DEF InElement, ElementAt, VectorAt, ElementFacts
<1>7. y.calls = Tail(x.calls) /\ y.at = x.at /\ y.n = x.n
  <2>1. Returns(x, y, W) \/ StoresNext(x, y, W)
    BY <1>6 DEF IsAt
  <2>2. Returns(x, y, W)
    BY <1>6, <2>1 DEF StoresNext
  <2>3. x.at \in Nat
    BY DEF IsAt, Moment
  <2> QED BY <1>6, <2>2, <2>3 DEF Returns, OneIf
<1>8. PICK e : e = [f EXCEPT !.at = "next"]
  OBVIOUS
<1>9. frames' = <<e>> \o Tail(frames)
  BY <1>1, <1>3, <1>8
<1>10. e \in Reader!Frame
  BY <1>3, <1>8 DEF Reader!Frame, Reader!PackedFrames
<1>11. SameVector(f, e) /\ e.at = "next" /\ e.k = f.k /\ e.path = f.path /\ e.n = f.n /\ e.class = f.class
  BY <1>3, <1>8, <1>10 DEF SameVector, Reader!PackedFrames
<1>12. PICK cs, U, got, clean, s : /\ cs = y.calls /\ got = T.got /\ clean = T.clean /\ s = FALSE
                                  /\ U = Being(T, cs, s, got, clean)
  OBVIOUS
<1>13. IsBeing(U, T, cs, s, got, clean)
  <2>1. cs \in Seq(CallRecord)
    <3>1. T.calls \in Seq(CallRecord)
      BY <1>6, ContextTypes
    <3> QED BY <1>6, <1>7, <1>12, <3>1, HeadTailProperties
  <2>2. got \in SUBSET (Seq(Nat) \X Seq(Nat)) /\ clean \in BOOLEAN /\ s \in BOOLEAN
    BY <1>6, <1>12, ContextTypes
  <2> QED BY <1>6, <1>12, <2>1, <2>2, BeingTypes
<1>14. U.calls = Tail(T.calls) /\ U.got = T.got /\ U.clean = T.clean
  BY <1>6, <1>7, <1>12, <1>13 DEF IsBeing
<1>15. StandsNext(e, U, R, w)
  <2>1. Rest(<<>>, f.class) = {} /\ Good(<<>>, f.class)
    BY RestNone
  <2>2. Owed(Append(f.path, f.k), {}) = {}
    BY OwedUnion
  <2>3. R.got = U.got \cup ElementsOwed(f.path, (f.k + 1) .. f.n, Common[pr])
    BY <1>6, <1>14, <2>1, <2>2
  <2>4. R.clean = (U.clean /\ (f.n > f.k => ~Mismatched[pr]))
    <3>1. R.clean \in BOOLEAN /\ U.clean \in BOOLEAN
      BY <1>6, <1>14, ContextTypes
    <3> QED BY <1>6, <1>14, <2>1, <3>1
  <2> QED BY <1>6, <1>11, <1>14, <2>3, <2>4 DEF StandsNext
<1>16. VectorIs(e, U, R, w)
  BY <1>11, <1>15 DEF VectorIs
<1>17. IsBeing(U, T, y.calls, FALSE, T.got, T.clean)
  BY <1>12, <1>13
<1>18. pos' = pos /\ UNCHANGED Reader!messageVars /\ result' = result
  BY <1>1 DEF OnlyFrames
<1>19. PICK z \in {x, y} : z = y
  OBVIOUS
<1>20. IsBeing(U, T, z.calls, FALSE, T.got, T.clean) /\ z.n = x.n /\ z.at = x.at
  BY <1>7, <1>17, <1>19
<1>21. Onwards(x, y, W)'
  BY <1>6, <1>9, <1>11, <1>16, <1>18, <1>20, <1>f, VectorGoesOn
<1> QED BY <1>21

\* The cached headers are overrun only if an element lacks a member.
LEMMA OverrunLacks ==
  ASSUME NEW x, NEW y, NEW W, NEW g, IsAt(x, y, W, g), Reader!Overrun
  PROVE  ElementLacks[PairNow]
<1>f. PICK f, T, R, wr : f = frames[1] /\ T = g[1] /\ R = g[2] /\ wr = PairNow
  OBVIOUS
<1>1. /\ Reader!PackedAt({"drain"}) /\ Reader!Top.todo # <<>> /\ ~Reader!Within
  BY DEF Reader!Overrun
<1>2. PICK w, d, pr : InElement(x, y, T, R, f, w, d, pr, wr)
  BY <1>1, <1>f, ElementNow
<1>3. /\ Reader!Top = f /\ pr \in ClassPairs /\ pr[1] = w /\ pr[2] = f.class
      /\ Meets(pr, From(w, d), Append(f.path, f.k), f.todo, f.pending, GoneFrom(f))
  BY <1>2, ElementOpen
<1>4. f.at = "drain" /\ ~(f.h <= Len(f.headers)) /\ f.todo # <<>> /\ GoneFrom(f) = {}
  BY <1>1, <1>3 DEF Reader!PackedAt, Reader!Within, GoneFrom
<1>5. From(w, d) = <<>>
  BY <1>2, <1>4, ElementEnd
<1>6. Meets(pr, <<>>, Append(f.path, f.k), f.todo, f.pending, {})
  BY <1>3, <1>4, <1>5
<1>7. PICK n : n = Head(f.todo)
  OBVIOUS
<1>8. n \in Waiting(f.todo, f.pending, {})
  BY <1>3, <1>4, <1>6, <1>7, MeetsTypes DEF Waiting
<1>9. n \in MembersOf(pr[2]) /\ \A m \in MembersOf(pr[1]) : m.index # n.index
  BY <1>3, <1>6, <1>8, MeetsEnd
<1>10. Counterparts(n, pr[1]) = {}
  BY <1>9 DEF Counterparts
<1>11. pr \in PackedPairs[wr] /\ wr \in ClassPairs
  <2>1. ElementFacts(f, w, d, pr, wr)
    BY <1>2 DEF InElement
  <2> QED BY <1>f, <2>1, PresentIs DEF ElementFacts
<1> QED BY <1>9, <1>10, <1>11, <1>f DEF ElementLacks

-----------------------------------------------------------------------------
(*****************************************************************************)
(* No step misreads.                                                       *)
(*****************************************************************************)
\* No call of the reader changes the stream, or what has been entered.
LEMMA StepQuiet ==
  ASSUME Reader!Step
  PROVE  stream' = stream /\ entered' = entered
<1>1. CASE \/ Reader!RefuseReuse \/ Reader!RejectType \/ Reader!FillReadBufferFails
  BY <1>1 DEF Reader!RefuseReuse, Reader!RejectType, Reader!FillReadBufferFails, Reader!Throw
<1>2. CASE \/ Reader!StoreEntryPoint \/ Reader!LeaveObject \/ Reader!StoreKept
           \/ Reader!StoreLater \/ Reader!NoHeaderKept \/ Reader!ReadHeader
           \/ Reader!ReadNow \/ Reader!ReadNowReturns \/ Reader!StoreFound
           \/ Reader!StoreOther \/ Reader!RemainingKept \/ Reader!SkipUnknown
  BY <1>2 DEF Reader!StoreEntryPoint, Reader!LeaveObject, Reader!StoreKept, Reader!StoreLater,
    Reader!NoHeaderKept, Reader!ReadHeader, Reader!ReadNow, Reader!ReadNowReturns,
    Reader!StoreFound, Reader!StoreOther, Reader!RemainingKept, Reader!SkipUnknown,
    Reader!history
<1>3. CASE \/ Reader!ReadPrimitive \/ Reader!ReadObject \/ Reader!ReadArrayHeader
           \/ Reader!ReadPrimitiveVector \/ Reader!ReadObjectVector
           \/ Reader!ReadPackedVector \/ Reader!SkipPrimitive \/ Reader!SkipArrayHeader
           \/ Reader!SkipElements \/ Reader!SkipObjects \/ Reader!LeaveSkipped
  BY <1>3 DEF Reader!ReadPrimitive, Reader!ReadObject, Reader!ReadArrayHeader,
    Reader!ReadPrimitiveVector, Reader!ReadObjectVector, Reader!ReadPackedVector,
    Reader!SkipPrimitive, Reader!SkipArrayHeader, Reader!SkipElements, Reader!SkipObjects,
    Reader!LeaveSkipped, Reader!history
<1>4. CASE \/ Reader!CacheHeaders \/ Reader!NextElement \/ Reader!LeavePackedVector
           \/ Reader!StoreMissing \/ Reader!StoreNext \/ Reader!StorePending
           \/ Reader!ReadPending \/ Reader!ReadPendingReturns \/ Reader!PassHeader
           \/ Reader!ElementRead
  BY <1>4 DEF Reader!CacheHeaders, Reader!NextElement, Reader!LeavePackedVector,
    Reader!StoreMissing, Reader!StoreNext, Reader!StorePending, Reader!ReadPending,
    Reader!ReadPendingReturns, Reader!PassHeader, Reader!ElementRead, Reader!history
<1> QED
  BY <1>1, <1>2, <1>3, <1>4, Zenon DEF Reader!Step

\* A step that throws no exception.
Throws == Reader!RefuseReuse \/ Reader!RejectType \/ Reader!FillReadBufferFails

\* Every step from a place on the way leads to one.
LEMMA AllStepsOn ==
  ASSUME NEW x, NEW y, NEW W, NEW g, IsAt(x, y, W, g), Kindly, Reader!Step, ~Throws
  PROVE  Onwards(x, y, W)'
<1>1. CASE \/ Reader!StoreEntryPoint \/ Reader!NoHeaderKept \/ Reader!ReadHeader
           \/ Reader!RemainingKept \/ Reader!StoreLater \/ Reader!StoreOther
           \/ Reader!ReadNowReturns
  <2>1. Goal(x, y, W)'
    BY <1>1, StoreEntryPointOn, NoHeaderKeptOn, ReadHeaderOn, RemainingKeptOn, StoreLaterOn,
      StoreOtherOn, ReadNowReturnsOn, Zenon
  <2> QED BY <2>1 DEF Onwards
<1>2. CASE \/ Reader!LeaveObject \/ Reader!StoreKept \/ Reader!ReadNow \/ Reader!StoreFound
           \/ Reader!SkipUnknown \/ Reader!LeaveSkipped
  BY <1>2, LeaveObjectOn, StoreKeptOn, ReadNowOn, StoreFoundOn, SkipUnknownOn, LeaveSkippedOn,
    Zenon
<1>3. CASE \/ Reader!ReadPrimitive \/ Reader!ReadObject \/ Reader!ReadArrayHeader
           \/ Reader!ReadPrimitiveVector \/ Reader!ReadObjectVector
           \/ Reader!ReadPackedVector \/ Reader!SkipPrimitive \/ Reader!SkipArrayHeader
           \/ Reader!SkipElements \/ Reader!SkipObjects
  BY <1>3, ReadPrimitiveOn, ReadObjectOn, ReadArrayHeaderOn, ReadPrimitiveVectorOn,
    ReadObjectVectorOn, ReadPackedVectorOn, SkipPrimitiveOn, SkipArrayHeaderOn, SkipElementsOn,
    SkipObjectsOn, Zenon
<1>4. CASE \/ Reader!CacheHeaders \/ Reader!NextElement \/ Reader!LeavePackedVector
           \/ Reader!StoreMissing \/ Reader!StoreNext \/ Reader!StorePending
           \/ Reader!ReadPending \/ Reader!ReadPendingReturns \/ Reader!PassHeader
           \/ Reader!ElementRead
  BY <1>4, CacheHeadersOn, NextElementOn, LeavePackedVectorOn, StoreMissingOn, StoreNextOn,
    StorePendingOn, ReadPendingOn, ReadPendingReturnsOn, PassHeaderOn, ElementReadOn, Zenon
<1> QED
  BY <1>1, <1>2, <1>3, <1>4, Zenon DEF Reader!Step, Throws

-----------------------------------------------------------------------------
\* What the reader wants next is what the writer has written next.
IsAhead(y, W) ==
  \E b \in Nat :
    /\ Reached(b) /\ b + Len(Reader!Wanted) <= y.at
    /\ \A j \in 1 .. Len(Reader!Wanted) : W[b + j].token = Reader!Wanted[j]

\* So it gets that, or what there is of it.
LEMMA AheadFits ==
  ASSUME ReaderTypes, frames # <<>>, NEW y \in Moment, NEW W, IsAhead(y, W), Prefix(stream, W)
  PROVE  /\ ~Reader!OutOfStep
         /\ Reader!Left < Len(Reader!Wanted) => Len(stream) < y.at
<1>1. PICK b \in Nat :
        /\ Reached(b) /\ b + Len(Reader!Wanted) <= y.at
        /\ \A j \in 1 .. Len(Reader!Wanted) : W[b + j].token = Reader!Wanted[j]
  BY DEF IsAhead
<1>2. PICK n : n = Len(Reader!Wanted)
  OBVIOUS
<1>3. n \in Nat /\ Len(stream) \in Nat /\ pos \in Nat
  BY <1>2, WantedType, LenProperties DEF ReaderTypes
<1>4. PICK k : k = IF Reader!Left < n THEN Reader!Left ELSE n
  OBVIOUS
<1>5. Reader!Left = IF pos > Len(stream) THEN 0 ELSE Len(stream) - pos + 1
  BY DEF Reader!Left
<1>6. k \in Nat /\ k <= n /\ (k > 0 => pos = b + 1 /\ b + k <= Len(stream))
  BY <1>1, <1>3, <1>4, <1>5, SMTT(30) DEF Reached
<1>7. ASSUME NEW j \in 1 .. k
      PROVE  pos + j - 1 <= Len(stream) /\ stream[pos + j - 1].token = Reader!Wanted[j]
  <2>1. k > 0 /\ j \in 1 .. n /\ pos + j - 1 = b + j /\ b + j \in 1 .. Len(stream)
    BY <1>3, <1>6
  <2>2. stream[b + j] = W[b + j]
    BY <2>1 DEF Prefix
  <2> QED BY <1>1, <1>2, <2>1, <2>2
<1>8. Reader!Fits(k)
  BY <1>7 DEF Reader!Fits
<1>9. ~Reader!OutOfStep
  BY <1>2, <1>4, <1>8 DEF Reader!OutOfStep
<1>10. PICK a \in Nat : a = y.at
  BY DEF Moment
<1>11. Reader!Left < n => Len(stream) < b + n
  BY <1>1, <1>3, <1>5 DEF Reached
<1>12. b + n <= a /\ (Reader!Left < n => Len(stream) < a)
  BY <1>1, <1>2, <1>3, <1>10, <1>11
<1> QED BY <1>2, <1>9, <1>10, <1>12

\* A call that reads nothing next neither misreads nor comes to the end.
LEMMA NothingWanted ==
  ASSUME frames # <<>>, Reader!Wanted = <<>>, ReaderTypes
  PROVE  ~Reader!OutOfStep /\ ~(Reader!Left < Len(Reader!Wanted))
<1>1. Len(Reader!Wanted) = 0
  OBVIOUS
<1>2. Len(stream) \in Nat /\ pos \in Nat
  BY LenProperties DEF ReaderTypes
<1>3. Reader!Left \in Nat
  BY <1>2 DEF Reader!Left
<1>4. Reader!Fits(0)
  BY DEF Reader!Fits
<1> QED BY <1>1, <1>3, <1>4 DEF Reader!OutOfStep

\* What can be wanted.
LEMMA WantedKinds ==
  ASSUME ReaderTypes, frames # <<>>, Reader!Wanted # <<>>
  PROVE  \/ Reader!AtPoint("header") \/ Reader!Running("cache")
         \/ Reader!Running("read") /\ Reader!IsPrimitive(Reader!Top.member)
         \/ (Reader!Running("read") \/ Reader!Running("unknown")) /\ Reader!Top.type = "Array"
         \/ Reader!Running("body") /\ Reader!IsVector(Reader!Top.member)
         \/ Reader!Running("unknown") /\ Reader!Top.type \in IntegerTypes \cup {"String"}
         \/ Reader!Running("skipArray") /\ Reader!Top.type \in IntegerTypes \cup {"String"}
<1>1. Reader!IntegerTypes = IntegerTypes
  BY ReaderKinds
<1> QED BY <1>1 DEF Reader!Wanted

\* Values are wanted one after the other.
LEMMA ValuesWanted ==
  ASSUME ReaderTypes, NEW n \in Nat,
         Reader!Wanted = Reader!Values(n) \/ Reader!Wanted = Reader!Block(n)
  PROVE  /\ Len(Reader!Wanted) \in Nat /\ Len(Reader!Wanted) <= n
         /\ \A j \in 1 .. Len(Reader!Wanted) : Reader!Wanted[j] = "value"
<1>1. Len(stream) \in Nat /\ pos \in Nat
  BY LenProperties DEF ReaderTypes
<1>2. Reader!Left \in Nat
  BY <1>1 DEF Reader!Left
<1>3. PICK k \in Nat : k <= n /\ Reader!Wanted = [j \in 1 .. k |-> "value"]
  BY <1>2 DEF Reader!Values, Reader!Block
<1> QED BY <1>3

\* Values of which enough have been written.
LEMMA ValuesAhead ==
  ASSUME ReaderTypes, NEW n \in Nat,
         Reader!Wanted = Reader!Values(n) \/ Reader!Wanted = Reader!Block(n),
         NEW b \in Nat, Reached(b), NEW y \in Moment, b + n <= y.at,
         NEW W, \A j \in 1 .. n : W[b + j].token = "value"
  PROVE  IsAhead(y, W)
<1>1. /\ Len(Reader!Wanted) \in Nat /\ Len(Reader!Wanted) <= n
      /\ \A j \in 1 .. Len(Reader!Wanted) : Reader!Wanted[j] = "value"
  BY ValuesWanted
<1>2. PICK a \in Nat : a = y.at
  BY DEF Moment
<1>3. b + Len(Reader!Wanted) <= y.at
  BY <1>1, <1>2
<1>4. ASSUME NEW j \in 1 .. Len(Reader!Wanted) PROVE W[b + j].token = Reader!Wanted[j]
  BY <1>1
<1> QED BY <1>3, <1>4 DEF IsAhead

\* One header.
LEMMA HeaderAhead ==
  ASSUME Reader!Wanted = <<"header">>, NEW b \in Nat, Reached(b), NEW y \in Moment,
         b + 1 <= y.at, NEW W, W[b + 1].token = "header"
  PROVE  IsAhead(y, W)
<1>1. Len(Reader!Wanted) = 1 /\ Reader!Wanted[1] = "header"
  OBVIOUS
<1>2. \A j \in 1 .. 1 : W[b + j].token = Reader!Wanted[j]
  BY <1>1
<1> QED BY <1>1, <1>2 DEF IsAhead

\* The header of an array.
LEMMA ArrayAhead ==
  ASSUME Reader!Wanted = <<"header", "size">>, NEW b \in Nat, Reached(b), NEW y \in Moment,
         b + 2 <= y.at, NEW W, W[b + 1].token = "header", W[b + 2].token = "size"
  PROVE  IsAhead(y, W)
<1>1. Len(Reader!Wanted) = 2 /\ Reader!Wanted[1] = "header" /\ Reader!Wanted[2] = "size"
  OBVIOUS
<1>2. \A j \in 1 .. 2 : W[b + j].token = Reader!Wanted[j]
  <2>1. \A j \in 1 .. 2 : j = 1 \/ j = 2
    OBVIOUS
  <2> QED BY <1>1, <2>1
<1> QED BY <1>1, <1>2 DEF IsAhead

-----------------------------------------------------------------------------
\* StoreTemplate and ReadRemaining read the next header.
LEMMA PointAhead ==
  ASSUME NEW x, NEW y, NEW W, NEW g, IsAt(x, y, W, g), Reader!AtPoint("header")
  PROVE  IsAhead(y, W)
<1>1. /\ frames # <<>> /\ x.calls # <<>> /\ Head(x.calls).as = "object"
      /\ Reached(x.at + OneIf(HeaderSeen(frames[1]))) /\ ~HeaderSeen(frames[1])
  BY PointAt
<1>2. y \in Moment /\ x.at \in Nat /\ y.at \in Nat
  BY DEF IsAt, Moment
<1>3. Reached(x.at)
  <2>1. x.at + OneIf(HeaderSeen(frames[1])) = x.at
    BY <1>1, <1>2 DEF OneIf
  <2> QED BY <1>1, <2>1
<1>4. Reader!Wanted = <<"header">>
  BY DEF Reader!Wanted, Reader!AtPoint, Reader!Running
<1>5. x.at + 1 <= y.at /\ W[x.at + 1].token = "header"
  <2>1. CASE Returns(x, y, W)
    <3>1. y.at = x.at + 1 /\ W[y.at] = Terminator
      BY <1>1, <2>1 DEF Returns, OneIf
    <3> QED BY <1>2, <3>1 DEF Terminator, Header
  <2>2. CASE StoresNext(x, y, W)
    <3>1. Own(x.calls) = 1 /\ W[x.at + 1] = HeaderOf(Item(x.calls))
      BY <1>1, <2>2 DEF StoresNext, Own, OneIf
    <3>2. x.calls \in Seq(CallRecord) /\ Head(x.calls).todo # <<>>
      BY <2>2 DEF StoresNext, IsAt, Moment
    <3>3. Item(x.calls) \in Member
      BY <1>1, <3>2, CallTypes
    <3>4. PICK m \in Member : m = Item(x.calls)
      BY <3>3
    <3>5. IsPrimitive(m) \/ IsVector(m) \/ IsObject(m) \/ IsObjects(m)
      BY MemberKinds
    <3>6. m.size \in Nat
      BY DEF Member
    <3>7. IsPrimitive(m) => y.at = x.at + 1 + 1
      BY <2>2, <3>1, <3>4 DEF StoresNext, ValueStored
    <3>8. IsVector(m) => y.at = x.at + 1 + 2 + m.size
      BY <2>2, <3>1, <3>4 DEF StoresNext, VectorStored
    <3>9. IsObject(m) => y.at = x.at + 1
      BY <2>2, <3>1, <3>4 DEF StoresNext, ObjectStored
    <3>10. IsObjects(m) => x.at + 1 <= y.at
      <4>1. ASSUME IsObjects(m) PROVE ObjectsStored(x, y, W)
        BY <2>2, <3>4, <4>1 DEF StoresNext
      <4>2. m.class \in Class
        BY <3>4 DEF Member
      <4>3. Len(Members[m.class]) \in Nat
        BY <4>2, ClassMembers
      <4> QED BY <1>1, <1>2, <3>1, <3>4, <4>1, <4>3 DEF ObjectsStored, ElementsAs
    <3>11. x.at + 1 <= y.at
      BY <1>2, <3>5, <3>6, <3>7, <3>8, <3>9, <3>10
    <3> QED BY <3>1, <3>11 DEF HeaderOf, Header
  <2> QED BY <1>1, <2>1, <2>2 DEF IsAt
<1> QED BY <1>2, <1>3, <1>4, <1>5, HeaderAhead

\* Values that are stored are there to be read.
LEMMA StoredValue ==
  ASSUME NEW x, NEW y, NEW W, StoresNext(x, y, W), IsPrimitive(Item(x.calls)),
         NEW a \in Nat, a = x.at + Own(x.calls)
  PROVE  y.at = a + 1 /\ \A j \in 1 .. 1 : W[a + j].token = "value"
BY DEF StoresNext, ValueStored, Value

\* Where the writer has put a vector there are values.
LEMMA StoredVector ==
  ASSUME NEW x, NEW y, NEW W, StoresNext(x, y, W), x.calls # <<>>, IsVector(Item(x.calls)),
         NEW b \in Nat, b = x.at + Own(x.calls) + 2, NEW n, n = Item(x.calls).size
  PROVE  y.at = b + n /\ \A j \in 1 .. n : W[b + j].token = "value"
<1>1. /\ y.at = b + Item(x.calls).size
      /\ \A k \in 1 .. Item(x.calls).size : W[b + k] = Value(Append(ItemPath(x.calls), k))
  BY VectorDone
<1>2. \A v : Value(v).token = "value"
  BY DEF Value
<1>3. \A k \in 1 .. n : W[b + k] = Value(Append(ItemPath(x.calls), k))
  BY <1>1
<1>4. \A k \in 1 .. n : W[b + k].token = "value"
  BY <1>2, <1>3
<1> QED BY <1>1, <1>4

\* Where it has put an array there are a header and a size.
LEMMA StoredArray ==
  ASSUME NEW x, NEW y \in Moment, NEW W, StoresNext(x, y, W), NEW m \in Member, m = Item(x.calls),
         m.type = "Array", NEW a \in Nat, a = x.at + Own(x.calls)
  PROVE  a + 2 <= y.at /\ W[a + 1].token = "header" /\ W[a + 2].token = "size"
<1>1. W[a + 1] = Header(FlagsOf(m), GetHeaderEnum(m.sub)) /\ W[a + 2] = Size(m.size)
  BY DEF StoresNext
<1>2. m.size \in Nat /\ m.class \in Class /\ y.at \in Nat
  BY DEF Member, Moment
<1>3. Len(Members[m.class]) \in Nat
  BY <1>2, ClassMembers
<1>4. IsVector(m) => y.at = a + 2 + m.size
  BY DEF StoresNext, VectorStored
<1>5. IsObjects(m) => a + 2 <= y.at
  <2>1. ASSUME IsObjects(m) PROVE ObjectsStored(x, y, W)
    BY <2>1 DEF StoresNext
  <2> QED BY <1>2, <1>3, <2>1 DEF ObjectsStored
<1>6. IsVector(m) \/ IsObjects(m)
  BY DEF IsVector, IsObjects
<1>7. a + 2 <= y.at
  BY <1>2, <1>4, <1>5, <1>6
<1> QED BY <1>1, <1>7 DEF Header, Size

-----------------------------------------------------------------------------
\* ReadPrimitive.
LEMMA PrimitiveAhead ==
  ASSUME NEW x, NEW y, NEW W, NEW g, IsAt(x, y, W, g), ~Reader!WrongType,
         Reader!Running("read"), Reader!IsPrimitive(Reader!Top.member)
  PROVE  IsAhead(y, W)
<1>f. PICK f, n, m : f = frames[1] /\ n = f.member /\ m = Item(x.calls)
  OBVIOUS
<1>2. /\ frames # <<>> /\ Reader!Top = f /\ f.what = "read"
      /\ Reads(f.member, f.path, g[1], g[2], PairNow) /\ f.type = GetHeaderEnum(m.type)
      /\ Reached(x.at + Own(x.calls)) /\ ReaderTypes
  BY <1>f, ValueFrame, PresentIs
<1>3. ReadsAt(x, y, W, n, Item(x.calls), f.path, g[1], g[2], PairNow)
  <2>1. PICK path, R : path = f.path /\ R = g[2]
    OBVIOUS
  <2>2. Reads(n, path, g[1], R, PairNow)
    BY <1>2, <1>f, <2>1
  <2>3. ReadsAt(x, y, W, n, Item(x.calls), path, g[1], R, PairNow)
    BY <2>2, ReadsThere
  <2> QED BY <2>1, <2>3
<1>4. /\ m \in Member /\ n \in Member /\ StoresNext(x, y, W) /\ x.at + Own(x.calls) \in Nat
  BY <1>3, <1>f DEF ReadsAt
<1>5. IsPrimitive(n) /\ f.type \in Accepted(n.type)
  BY <1>2, <1>f, ReaderKinds DEF Reader!WrongType
<1>6. IsPrimitive(m) /\ n.type # "Array"
  <2>1. n.type # "Array"
    BY <1>5 DEF IsPrimitive, PrimitiveTypes, IntegerTypes
  <2>2. Fitting(m, n)
    BY <1>2, <1>4, <1>5, <2>1, AcceptedFits
  <2> QED BY <1>4, <1>5, <2>1, <2>2, FittingKinds
<1>7. f.type # "Array"
  <2>1. m.type # "Array"
    BY <1>6 DEF IsPrimitive, PrimitiveTypes, IntegerTypes
  <2> QED BY <1>2, <2>1 DEF GetHeaderEnum
<1>8. Reader!Wanted = Reader!Values(1)
  BY <1>2, <1>5, <1>7, <1>f, WantedOf
<1>9. PICK a \in Nat : a = x.at + Own(x.calls)
  BY <1>4
<1>10. y.at = a + 1 /\ \A j \in 1 .. 1 : W[a + j].token = "value"
  BY <1>4, <1>6, <1>9, <1>f, StoredValue
<1>11. y \in Moment /\ Reached(a) /\ a + 1 <= y.at
  BY <1>2, <1>9, <1>10 DEF IsAt
<1> QED BY <1>2, <1>8, <1>10, <1>11, ValuesAhead

\* ReadArrayHeader.
LEMMA ReadArrayAhead ==
  ASSUME NEW x, NEW y, NEW W, NEW g, IsAt(x, y, W, g), ~Reader!WrongType,
         Reader!Running("read") \/ Reader!Running("unknown"), Reader!Top.type = "Array",
         ~(Reader!Running("read") /\ Reader!IsPrimitive(Reader!Top.member))
  PROVE  IsAhead(y, W)
<1>f. PICK f, m : f = frames[1] /\ m = Item(x.calls)
  OBVIOUS
<1>1. /\ frames # <<>> /\ Reader!Top = f /\ f.what \in {"read", "unknown"} /\ f.type = "Array"
      /\ f.type = GetHeaderEnum(m.type) /\ TakesItem(g[1], g[2])
      /\ Reached(x.at + Own(x.calls)) /\ ReaderTypes
  <2>1. CASE Reader!Running("read")
    BY <2>1, <1>f, ValueFrame, PresentIs DEF Reads
  <2>2. CASE Reader!Running("unknown")
    BY <2>2, <1>f, ValueFrame, PresentIs
  <2> QED BY <2>1, <2>2
<1>2. /\ m \in Member /\ StoresNext(x, y, W) /\ x.calls # <<>> /\ x.at + Own(x.calls) \in Nat
  BY <1>1, <1>f, SkipsThere
<1>3. m.type = "Array"
  BY <1>1 DEF GetHeaderEnum
<1>4. Reader!Wanted = <<"header", "size">>
  <2>1. f.what = "read" => ~IsPrimitive(f.member)
    BY <1>1, ReaderKinds DEF Reader!Running
  <2> QED BY <1>1, <1>f, <2>1, WantedOf
<1>5. PICK a \in Nat : a = x.at + Own(x.calls)
  BY <1>2
<1>6. y \in Moment /\ Reached(a)
  BY <1>1, <1>5 DEF IsAt
<1>7. a + 2 <= y.at /\ W[a + 1].token = "header" /\ W[a + 2].token = "size"
  BY <1>2, <1>3, <1>5, <1>6, <1>f, StoredArray
<1> QED BY <1>4, <1>6, <1>7, ArrayAhead

\* The body of ReadPrimitiveVector, and SkipArray.
LEMMA VectorAhead ==
  ASSUME NEW x, NEW y, NEW W, NEW g, IsAt(x, y, W, g), ~Reader!WrongType,
         \/ Reader!Running("body") /\ Reader!IsVector(Reader!Top.member)
         \/ Reader!Running("skipArray") /\ Reader!Top.type \in IntegerTypes \cup {"String"}
  PROVE  IsAhead(y, W)
<1>f. PICK f, m : f = frames[1] /\ m = Item(x.calls)
  OBVIOUS
<1>1. /\ frames # <<>> /\ Reader!Top = f /\ f.what \in {"body", "skipArray"}
      /\ m.type = "Array" /\ f.type = GetHeaderEnum(m.sub) /\ f.n = m.size
      /\ TakesItem(g[1], g[2])
      /\ Reached(x.at + Own(x.calls) + 2) /\ ReaderTypes
  <2>1. CASE Reader!Running("body")
    BY <2>1, <1>f, ValueFrame, PresentIs DEF Reads
  <2>2. CASE Reader!Running("skipArray")
    BY <2>2, <1>f, ValueFrame, PresentIs
  <2> QED BY <2>1, <2>2
<1>2. /\ m \in Member /\ StoresNext(x, y, W) /\ x.calls # <<>> /\ x.at + Own(x.calls) \in Nat
      /\ m.size \in Nat
  BY <1>1, <1>f, SkipsThere
<1>3. m.sub # "Object" /\ (f.what = "body" => IsVector(f.member))
      /\ (f.what = "skipArray" => f.type \in IntegerTypes \cup {"String"})
  <2>1. CASE Reader!Running("body") /\ Reader!IsVector(Reader!Top.member)
    <3>1. IsVector(f.member) /\ f.type = GetHeaderEnum(f.member.sub) /\ f.what = "body"
      BY <1>1, <2>1, ReaderKinds DEF Reader!WrongType, Reader!Running
    <3>2. GetHeaderEnum(f.member.sub) # "Object"
      BY <3>1 DEF IsVector, GetHeaderEnum
    <3> QED BY <1>1, <3>1, <3>2 DEF GetHeaderEnum
  <2>2. CASE Reader!Running("skipArray") /\ Reader!Top.type \in IntegerTypes \cup {"String"}
    <3>1. GetHeaderEnum(m.sub) \in IntegerTypes \cup {"String"} /\ f.what = "skipArray"
      BY <1>1, <2>2 DEF Reader!Running
    <3> QED BY <1>1, <3>1 DEF GetHeaderEnum, IntegerTypes
  <2> QED BY <2>1, <2>2
<1>4. IsVector(m)
  BY <1>1, <1>3 DEF IsVector
<1>5. PICK b \in Nat : b = x.at + Own(x.calls) + 2
  BY <1>2
<1>6. PICK n \in Nat : n = m.size
  BY <1>2
<1>7. y.at = b + n /\ \A j \in 1 .. n : W[b + j].token = "value"
  BY <1>2, <1>4, <1>5, <1>6, <1>f, StoredVector
<1>8. Reader!Wanted = Reader!Values(n) \/ Reader!Wanted = Reader!Block(n)
  BY <1>1, <1>3, <1>6, <1>f, WantedOf
<1>9. y \in Moment /\ Reached(b) /\ b + n <= y.at
  BY <1>1, <1>5, <1>7 DEF IsAt
<1> QED BY <1>1, <1>7, <1>8, <1>9, ValuesAhead, ZenonT(40)

\* SkipVariable.
LEMMA UnknownAhead ==
  ASSUME NEW x, NEW y, NEW W, NEW g, IsAt(x, y, W, g),
         Reader!Running("unknown"), Reader!Top.type \in IntegerTypes \cup {"String"}
  PROVE  IsAhead(y, W)
<1>f. PICK f, m : f = frames[1] /\ m = Item(x.calls)
  OBVIOUS
<1>1. /\ frames # <<>> /\ Reader!Top = f /\ f.what = "unknown"
      /\ f.type = GetHeaderEnum(m.type) /\ TakesItem(g[1], g[2])
      /\ Reached(x.at + Own(x.calls)) /\ ReaderTypes
  BY <1>f, ValueFrame, PresentIs
<1>2. /\ m \in Member /\ StoresNext(x, y, W) /\ x.calls # <<>> /\ x.at + Own(x.calls) \in Nat
  BY <1>1, <1>f, SkipsThere
<1>3. IsPrimitive(m)
  <2>1. GetHeaderEnum(m.type) \in IntegerTypes \cup {"String"}
    BY <1>1
  <2>2. m.type \in PrimitiveTypes \cup {"Array", "Object"}
    BY <1>2 DEF Member
  <2>3. m.type # "Array" /\ m.type # "Object"
    BY <2>1 DEF IntegerTypes, GetHeaderEnum
  <2> QED BY <2>2, <2>3 DEF IsPrimitive
<1>4. PICK a \in Nat : a = x.at + Own(x.calls)
  BY <1>2
<1>5. y.at = a + 1 /\ \A j \in 1 .. 1 : W[a + j].token = "value"
  BY <1>2, <1>3, <1>4, <1>f, StoredValue
<1>6. Reader!Wanted = Reader!Values(1) \/ Reader!Wanted = Reader!Block(1)
  BY <1>1, <1>f, WantedOf
<1>7. y \in Moment /\ Reached(a) /\ a + 1 <= y.at
  BY <1>1, <1>4, <1>5 DEF IsAt
<1> QED BY <1>1, <1>5, <1>6, <1>7, ValuesAhead

\* CacheHeaders.
LEMMA CacheAhead ==
  ASSUME NEW x, NEW y, NEW W, NEW g, IsAt(x, y, W, g), Reader!Running("cache")
  PROVE  IsAhead(y, W)
<1>f. PICK f, T, R, m, wr, c, L : /\ f = frames[1] /\ T = g[1] /\ R = g[2]
                           /\ m = Item(x.calls) /\ wr = PairNow /\ c = m.class /\ L = Len(f.headers)
  OBVIOUS
<1>2. CacheAt(x, y, W, T, R, f, m, wr)
  BY <1>f, CacheNow
<1>3. /\ frames # <<>> /\ f \in Reader!CacheFrames
      /\ StandsCache(f, T, R, wr) /\ m = Item(x.calls) /\ c \in Class
      /\ StoresNext(x, y, W) /\ x.calls # <<>> /\ T.calls = x.calls
      /\ x.at + Own(x.calls) \in Nat
      /\ Reached(x.at + Own(x.calls) + 2 + L)
  BY <1>2, <1>f DEF CacheAt
<1>4. /\ Head(x.calls).as = "object" /\ IsObjects(m) /\ m.packed /\ L <= Len(Members[c])
  BY <1>3, <1>f DEF StandsCache
<1>5. L \in Nat /\ Len(Members[c]) \in Nat
  BY <1>3, <1>f, ClassMembers, LenProperties DEF Reader!CacheFrames
<1>6. PICK b \in Nat : b = x.at + Own(x.calls) + 2
  BY <1>3
<1>7. Headers(y, W, m, b, ItemPath(x.calls), AfterStore(x.calls))
  BY <1>3, <1>4, <1>6, HeadersWritten
<1>8. /\ y.at = b + Len(Members[c]) + 1 /\ W[y.at] = Terminator
      /\ \A j \in 1 .. Len(Members[c]) : W[b + j] = HeaderOf(Members[c][j])
  BY <1>7, <1>f DEF Headers
<1>9. PICK d \in Nat : d = b + L
  BY <1>5
<1>10. Reached(d) /\ d + 1 <= y.at /\ y \in Moment
  <2>1. d = x.at + Own(x.calls) + 2 + L
    BY <1>6, <1>9
  <2>2. Reached(d)
    BY <1>3, <2>1
  <2>3. d + 1 <= y.at
    BY <1>4, <1>5, <1>8, <1>9
  <2>4. y \in Moment
    BY DEF IsAt
  <2> QED BY <2>2, <2>3, <2>4
<1>11. W[d + 1].token = "header"
  <2>1. CASE L = Len(Members[c])
    <3>1. d + 1 = y.at
      BY <1>5, <1>8, <1>9, <2>1
    <3> QED BY <1>8, <3>1 DEF Terminator, Header
  <2>2. CASE L # Len(Members[c])
    <3>1. L + 1 \in 1 .. Len(Members[c]) /\ d + 1 = b + (L + 1)
      BY <1>4, <1>5, <1>9, <2>2
    <3>2. W[b + (L + 1)] = HeaderOf(Members[c][L + 1])
      BY <1>8, <3>1
    <3> QED BY <3>1, <3>2 DEF HeaderOf, Header
  <2> QED BY <2>1, <2>2
<1>12. Reader!Wanted = <<"header">>
  BY DEF Reader!Wanted, Reader!AtPoint, Reader!Running
<1> QED BY <1>10, <1>11, <1>12, HeaderAhead

\* All that can be wanted.
LEMMA WantedAhead ==
  ASSUME NEW x, NEW y, NEW W, NEW g, IsAt(x, y, W, g), ~Reader!WrongType,
         Reader!Wanted # <<>>
  PROVE  IsAhead(y, W)
<1>1. ReaderTypes /\ frames # <<>>
  BY PresentIs, Innermost
<1>2. \/ Reader!AtPoint("header") \/ Reader!Running("cache")
      \/ Reader!Running("read") /\ Reader!IsPrimitive(Reader!Top.member)
      \/ (Reader!Running("read") \/ Reader!Running("unknown")) /\ Reader!Top.type = "Array"
      \/ Reader!Running("body") /\ Reader!IsVector(Reader!Top.member)
      \/ Reader!Running("unknown") /\ Reader!Top.type \in IntegerTypes \cup {"String"}
      \/ Reader!Running("skipArray") /\ Reader!Top.type \in IntegerTypes \cup {"String"}
  BY <1>1, WantedKinds
<1> QED BY <1>2, PointAhead, CacheAhead, PrimitiveAhead, ReadArrayAhead, VectorAhead, UnknownAhead, Zenon

\* A reader that follows is never out of step, and what it lacks is not there.
LEMMA NeverOut ==
  ASSUME NEW x, NEW y, NEW W, NEW g, IsAt(x, y, W, g)
  PROVE  /\ ~Reader!OutOfStep
         /\ Reader!FillReadBufferFails => Len(stream) < y.at
<1>1. ReaderTypes /\ frames # <<>> /\ y \in Moment /\ Prefix(stream, W)
  BY PresentIs, Innermost DEF IsAt
<1>2. CASE Reader!WrongType
  BY <1>2 DEF Reader!OutOfStep, Reader!FillReadBufferFails
<1>3. CASE ~Reader!WrongType /\ Reader!Wanted = <<>>
  <2>1. ~Reader!OutOfStep /\ ~(Reader!Left < Len(Reader!Wanted))
    BY <1>1, <1>3, NothingWanted
  <2> QED BY <2>1 DEF Reader!FillReadBufferFails
<1>4. CASE ~Reader!WrongType /\ Reader!Wanted # <<>>
  <2>1. IsAhead(y, W)
    BY <1>4, WantedAhead
  <2>2. ~Reader!OutOfStep /\ (Reader!Left < Len(Reader!Wanted) => Len(stream) < y.at)
    BY <1>1, <2>1, AheadFits
  <2> QED BY <2>2 DEF Reader!FillReadBufferFails
<1> QED BY <1>2, <1>3, <1>4

\* What fits is accepted.
LEMMA FitsAccepted ==
  ASSUME NEW m \in Member, NEW n \in Member, Fitting(m, n)
  PROVE  /\ GetHeaderEnum(m.type) \in Accepted(n.type)
         /\ m.type = "Array" => GetHeaderEnum(m.sub) = GetHeaderEnum(n.sub)
<1>1. CASE m.type \in Numbers /\ n.type \in Numbers
           /\ (n.type \in {"Float", "Double"} => m.type \notin {"UInt8", "UInt16"})
  <2>1. GetHeaderEnum(m.type) \in IntegerTypes
    BY <1>1 DEF Numbers, GetHeaderEnum, IntegerTypes
  <2>2. CASE n.type \in {"Float", "Double"}
    <3>1. m.type \in {"UInt32", "UInt64", "Float", "Double"}
      BY <1>1, <2>2 DEF Numbers
    <3>2. GetHeaderEnum(m.type) \in {"UInt32", "UInt64"}
      BY <3>1 DEF GetHeaderEnum
    <3>3. Accepted(n.type) = {"UInt32", "UInt64"}
      BY <2>2 DEF Accepted, IntegerTypes
    <3> QED BY <1>1, <3>2, <3>3 DEF Numbers
  <2>3. CASE n.type \notin {"Float", "Double"}
    <3>1. n.type \in IntegerTypes
      BY <1>1, <2>3 DEF Numbers, IntegerTypes
    <3>2. Accepted(n.type) = IntegerTypes
      BY <2>3, <3>1 DEF Accepted, IntegerTypes
    <3> QED BY <1>1, <2>1, <3>2 DEF Numbers
  <2> QED BY <2>2, <2>3
<1>2. CASE m.type = n.type /\ m.type \notin Numbers
           /\ (m.type = "Array" => m.sub = n.sub \/ {m.sub, n.sub} \in SameOnTheWire)
  <2>1. GetHeaderEnum(m.type) \in Accepted(n.type)
    BY <1>2 DEF Numbers, Accepted, GetHeaderEnum, IntegerTypes
  <2>2. ASSUME {m.sub, n.sub} \in SameOnTheWire PROVE GetHeaderEnum(m.sub) = GetHeaderEnum(n.sub)
    <3>1. \/ m.sub \in {"Float", "UInt32"} /\ n.sub \in {"Float", "UInt32"}
          \/ m.sub \in {"Double", "UInt64"} /\ n.sub \in {"Double", "UInt64"}
      BY <2>2, Zenon DEF SameOnTheWire
    <3> QED BY <3>1 DEF GetHeaderEnum
  <2> QED BY <1>2, <2>1, <2>2
<1> QED BY <1>1, <1>2 DEF Fitting

\* InvalidType is thrown for two types of one index.
LEMMA RejectedMismatch ==
  ASSUME NEW x, NEW y, NEW W, NEW g, IsAt(x, y, W, g), Reader!WrongType
  PROVE  Mismatched[PairNow]
<1>1. PICK what \in {"read", "body", "unknown", "skipArray"} :
        /\ what \in {"read", "body"} /\ Reader!Running(what)
        /\ what = "read" => Reader!Top.type \notin Accepted(Reader!Top.member.type)
        /\ what = "body" => Reader!Top.type # GetHeaderEnum(Reader!Top.member.sub)
  <2>1. CASE Reader!Running("read") /\ Reader!Top.type \notin Reader!Accepted(Reader!Top.member.type)
    BY <2>1, ReaderKinds
  <2>2. CASE Reader!Running("body") /\ Reader!Top.type # Reader!GetHeaderEnum(Reader!Top.member.sub)
    BY <2>2, ReaderKinds
  <2> QED BY <2>1, <2>2 DEF Reader!WrongType
<1>f. PICK f, m, n, R, wr : f = frames[1] /\ m = Item(x.calls) /\ n = f.member /\ R = g[2] /\ wr = PairNow
  OBVIOUS
<1>2. /\ Reader!Top = f /\ Reads(n, f.path, g[1], R, wr)
      /\ what = "read" => f.type = GetHeaderEnum(m.type)
      /\ what = "body" => f.type = GetHeaderEnum(m.sub) /\ m.type = "Array" /\ n.type = "Array"
  BY <1>1, <1>f, ValueFrame
<1>3. ReadsAt(x, y, W, n, m, f.path, g[1], R, wr)
  BY <1>2, <1>f, ReadsThere
<1>4. m \in Member /\ n \in Member /\ n.index = m.index /\ ItemRead(x.calls, g[1], R, n, f.path, wr)
  BY <1>3 DEF ReadsAt
<1>5. ~Fitting(m, n)
  BY <1>1, <1>2, <1>4, <1>f, FitsAccepted
<1>6. PICK pr \in Pairs[wr] : pr \in ClassPairs /\ m \in MembersOf(pr[1]) /\ n \in MembersOf(pr[2])
  BY <1>4, <1>f DEF ItemRead
<1>7. PICK mn : mn = <<m, n>>
  OBVIOUS
<1>8. mn \in Both(pr[1], pr[2]) /\ ~Fitting(mn[1], mn[2])
  BY <1>4, <1>5, <1>6, <1>7 DEF Both
<1>9. wr \in ClassPairs
  BY <1>f, PresentIs
<1> QED BY <1>6, <1>8, <1>9, <1>f DEF Mismatched

-----------------------------------------------------------------------------
(***************************************************************************)
(* The history of the writer.                                              *)
(***************************************************************************)
\* One moment of it.
LEMMA MomentOf ==
  ASSUME NEW h, NEW W, HistoryOf(h, W), NEW k \in 1 .. Len(h)
  PROVE  /\ Len(h) \in Nat /\ Len(W) \in Nat /\ Len(h) >= 1
         /\ h[k] \in Moment /\ h[k].at \in Nat /\ h[k].n \in Nat /\ h[k].calls \in Seq(CallRecord)
         /\ h[k].at <= Len(W)
         /\ k < Len(h) => k + 1 \in 1 .. Len(h) /\ Moves(h[k], h[k + 1], W)
<1>1. Len(h) \in Nat /\ Len(W) \in Nat /\ Len(h) >= 1 /\ h[k] \in Moment
  BY LenProperties, ElementOfSeq DEF HistoryOf
<1>2. h[k].at \in Nat /\ h[k].n \in Nat /\ h[k].calls \in Seq(CallRecord)
  BY <1>1 DEF Moment
<1>3. k < Len(h) => k + 1 \in 1 .. Len(h) /\ Moves(h[k], h[k + 1], W)
  BY <1>1 DEF HistoryOf
<1>4. h[k].at <= Len(W)
  <2>1. CASE k = Len(h)
    BY <1>1, <2>1 DEF HistoryOf
  <2>2. CASE k # Len(h)
    <3>1. k + 1 \in 1 .. Len(h) /\ h[k].at <= h[k + 1].at /\ h[k + 1].at <= Len(W)
      BY <1>1, <1>3, <2>2 DEF Moves
    <3>2. h[k + 1] \in Moment
      BY <1>1, <3>1, ElementOfSeq DEF HistoryOf
    <3>3. h[k + 1].at \in Nat
      BY <3>2 DEF Moment
    <3> QED BY <1>1, <1>2, <3>1, <3>3
  <2> QED BY <2>1, <2>2
<1> QED BY <1>1, <1>2, <1>3, <1>4

\* After a Store call there are calls in progress.
LEMMA StoresCalls ==
  ASSUME NEW x \in Moment, NEW y, NEW W, StoresNext(x, y, W)
  PROVE  y.calls # <<>>
<1>1. x.calls \in Seq(CallRecord) /\ x.calls # <<>> /\ Head(x.calls).todo # <<>>
  BY DEF StoresNext, Moment
<1>f. PICK m, c, as : m = Item(x.calls) /\ c = AfterStore(x.calls) /\ as = ElementsAs(m, Head(x.calls).as)
  OBVIOUS
<1>2. m \in Member /\ c \in Seq(CallRecord) /\ c # <<>>
  BY <1>1, <1>f, CallTypes
<1>3. CASE IsPrimitive(m)
  BY <1>2, <1>3, <1>f DEF StoresNext, ValueStored
<1>4. CASE IsVector(m)
  BY <1>2, <1>4, <1>f DEF StoresNext, VectorStored
<1>5. CASE IsObject(m)
  <2>1. y.calls = <<CallOf(m.class, ItemPath(x.calls), "object")>> \o c
    BY <1>5, <1>f DEF StoresNext, ObjectStored
  <2>2. Len(y.calls) = Len(c) + 1 /\ Len(c) \in Nat
    BY <1>2, <2>1, Fronted
  <2> QED BY <2>2
<1>6. CASE IsObjects(m)
  <2>1. y.calls = [k \in 1 .. m.size |-> CallOf(m.class, Append(ItemPath(x.calls), k), as)] \o c
    BY <1>6, <1>f DEF StoresNext, ObjectsStored
  <2>2. PICK s : s = [k \in 1 .. m.size |-> CallOf(m.class, Append(ItemPath(x.calls), k), as)]
    OBVIOUS
  <2>3. s \in Seq(CallRecord)
    <3>1. m.size \in Nat /\ m.class \in Class /\ ItemPath(x.calls) \in Seq(Nat)
      BY <1>1, <1>2, <1>f, CallTypes DEF Member
    <3>2. as \in {"object", "value", "inner"}
      BY <1>f DEF ElementsAs
    <3>3. \A k \in 1 .. m.size : CallOf(m.class, Append(ItemPath(x.calls), k), as) \in CallRecord
      <4> SUFFICES ASSUME NEW k \in 1 .. m.size
                   PROVE CallOf(m.class, Append(ItemPath(x.calls), k), as) \in CallRecord
        OBVIOUS
      <4>1. k \in Nat
        BY <3>1
      <4>2. PICK p \in Seq(Nat) : p = Append(ItemPath(x.calls), k)
        BY <3>1, <4>1, AppendProperties
      <4> QED BY <3>1, <3>2, <4>2, CallOfType
    <3>4. s \in [1 .. m.size -> CallRecord]
      BY <2>2, <3>3
    <3> QED BY <3>1, <3>4, FunctionIsSeq
  <2>4. Len(s \o c) = Len(s) + Len(c) /\ Len(s) \in Nat /\ Len(c) \in Nat
    BY <1>2, <2>3, ConcatProperties, LenProperties
  <2>5. Len(c) \in Nat \ {0}
    BY <1>2, EmptySeq
  <2>6. y.calls = s \o c
    BY <2>1, <2>2
  <2>7. Len(y.calls) \in Nat \ {0}
    BY <2>4, <2>5, <2>6
  <2> QED BY <2>7
<1> QED BY <1>2, <1>3, <1>4, <1>5, <1>6, MemberKinds

\* Where it is between two messages, one has just ended.
LEMMA MessageEnds ==
  ASSUME NEW h, NEW W, HistoryOf(h, W), NEW k \in 1 .. Len(h), h[k].calls = <<>>, h[k].n >= 1
  PROVE  h[k].n \in 1 .. Len(ends) /\ ends[h[k].n] = h[k].at
<1>1. Len(h) \in Nat /\ h[1] = Start
  BY MomentOf DEF HistoryOf
<1>2. k # 1
  BY <1>1 DEF Start
<1>3. PICK j \in 1 .. Len(h) : k = j + 1 /\ j < Len(h)
  <2>1. k - 1 \in 1 .. Len(h) /\ k = (k - 1) + 1 /\ k - 1 < Len(h)
    BY <1>1, <1>2
  <2> QED BY <2>1
<1>4. h[j] \in Moment /\ Moves(h[j], h[j + 1], W)
  BY <1>3, MomentOf
<1>f. PICK x, y : x = h[j] /\ y = h[k]
  OBVIOUS
<1>5. x \in Moment /\ Moves(x, y, W) /\ y.calls = <<>>
  BY <1>3, <1>4, <1>f
<1>6. ~Opens(x, y) /\ ~StoresNext(x, y, W)
  BY <1>5, StoresCalls DEF Opens
<1>7. Returns(x, y, W)
  BY <1>5, <1>6 DEF Moves
<1>8. y.n \in 1 .. Len(ends) /\ ends[y.n] = y.at
  BY <1>5, <1>7 DEF Returns
<1> QED BY <1>8, <1>f

\* What belongs to a message comes before its end.
LEMMA BeforeEnd ==
  ASSUME NEW h, NEW W, HistoryOf(h, W), calls = <<>>, Writer!TypeOK,
         NEW k \in 1 .. Len(h), h[k].n >= 1
  PROVE  h[k].n \in 1 .. Len(ends) /\ h[k].at <= ends[h[k].n]
<1> DEFINE P(i) == h[i].n >= 1 => h[i].n \in 1 .. Len(ends) /\ h[i].at <= ends[h[i].n]
           S == {i \in Nat : i < Len(h) => P(Len(h) - i)}
<1>1. Len(h) \in Nat /\ Len(h) >= 1
  BY MomentOf
<1>2. \A i \in 1 .. Len(h) : h[i].calls = <<>> => P(i)
  <2> SUFFICES ASSUME NEW i \in 1 .. Len(h), h[i].calls = <<>>, h[i].n >= 1
               PROVE  h[i].n \in 1 .. Len(ends) /\ h[i].at <= ends[h[i].n]
    OBVIOUS
  <2>1. h[i].n \in 1 .. Len(ends) /\ ends[h[i].n] = h[i].at /\ h[i].at \in Nat
    BY MessageEnds, MomentOf
  <2> QED BY <2>1
<1>3. P(Len(h))
  <2>1. Len(h) \in 1 .. Len(h) /\ h[Len(h)].calls = <<>>
    BY <1>1 DEF HistoryOf
  <2> QED BY <1>2, <2>1
<1>4. 0 \in S
  BY <1>1, <1>3
<1>5. \A n \in Nat : n \in S => n + 1 \in S
  <2> SUFFICES ASSUME NEW n \in Nat, n \in S, n + 1 < Len(h) PROVE P(Len(h) - (n + 1))
    OBVIOUS
  <2> HIDE DEF P, S
  <2>1. PICK i \in 1 .. Len(h) : i = Len(h) - (n + 1) /\ i < Len(h) /\ i + 1 = Len(h) - n
    <3>1. Len(h) - (n + 1) \in 1 .. Len(h) /\ Len(h) - (n + 1) < Len(h)
          /\ (Len(h) - (n + 1)) + 1 = Len(h) - n
      BY <1>1
    <3> QED BY <3>1, Zenon
  <2>2. P(i + 1)
    <3>1. P(Len(h) - n)
      BY <1>1 DEF S
    <3> QED BY <2>1, <3>1
  <2>f. PICK x, y : x = h[i] /\ y = h[i + 1]
    OBVIOUS
  <2>3. /\ x \in Moment /\ Moves(x, y, W) /\ y \in Moment
        /\ y.n >= 1 => y.n \in 1 .. Len(ends) /\ y.at <= ends[y.n]
    BY <2>1, <2>2, <2>f, MomentOf DEF P
  <2>4. CASE x.calls = <<>>
    BY <1>2, <2>1, <2>4, <2>f
  <2>5. CASE x.calls # <<>>
    <3>1. y.n = x.n /\ x.at <= y.at
      BY <2>3, <2>5 DEF Moves, Opens, Returns, StoresNext
    <3>2. x.at \in Nat /\ y.at \in Nat
      BY <2>3 DEF Moment
    <3>3. ASSUME x.n >= 1 PROVE x.n \in 1 .. Len(ends) /\ x.at <= ends[x.n]
      <4>1. x.n \in 1 .. Len(ends) /\ y.at <= ends[x.n]
        BY <2>3, <3>1, <3>3
      <4>2. ends[x.n] \in Nat
        BY <4>1, ElementOfSeq DEF Writer!TypeOK
      <4> QED BY <3>1, <3>2, <4>1, <4>2
    <3> QED BY <2>1, <2>f, <3>3 DEF P
  <2> QED BY <2>4, <2>5
<1>6. 0 .. (Len(h) - 1) \subseteq S
  <2> HIDE DEF S
  <2>1. PICK N \in Nat : N = Len(h) - 1
    BY <1>1
  <2>2. \A n \in 1 .. N : n - 1 \in Nat /\ (n - 1) + 1 = n
    OBVIOUS
  <2>3. \A n \in 1 .. N : n - 1 \in S => n \in S
    BY <1>5, <2>2
  <2>4. 0 .. N \subseteq S
    BY <1>4, <2>3, InductionUpto
  <2> QED BY <2>1, <2>4
<1>7. Len(h) - k \in S /\ Len(h) - k < Len(h) /\ Len(h) - (Len(h) - k) = k
  <2> HIDE DEF S
  <2>1. /\ Len(h) - k \in 0 .. (Len(h) - 1) /\ Len(h) - k < Len(h)
        /\ Len(h) - (Len(h) - k) = k
    BY <1>1
  <2> QED BY <1>6, <2>1
<1>8. P(Len(h) - (Len(h) - k))
  BY <1>7
<1> HIDE DEF P
<1>9. P(k)
  BY <1>7, <1>8
<1> QED BY <1>9 DEF P

\* After the last message nothing comes.
LEMMA LastEnds ==
  ASSUME NEW h, NEW W, HistoryOf(h, W), calls = <<>>,
         NEW k \in 1 .. Len(h), h[k].calls = <<>>, h[k].n = Len(sent)
  PROVE  h[k].at = Len(W)
<1>f. PICK l \in 1 .. Len(h) : l = Len(h)
  BY MomentOf
<1>1. h[l].n = Len(sent) /\ h[l].calls = <<>> /\ h[l].at = Len(W)
  BY <1>f DEF HistoryOf
<1>2. CASE Len(sent) >= 1
  BY <1>1, <1>2, MessageEnds
<1>3. CASE ~(Len(sent) >= 1) /\ k = l
  BY <1>1, <1>3
<1>4. CASE ~(Len(sent) >= 1) /\ k # l
  <2>1. Len(h) \in Nat /\ k < Len(h) /\ h[k] \in Moment
    BY <1>4, <1>f, MomentOf
  <2>2. Moves(h[k], h[k + 1], W)
    BY <2>1, MomentOf
  <2>3. Opens(h[k], h[k + 1])
    BY <2>2 DEF Moves, Returns, StoresNext
  <2>4. h[k].n \in Nat
    BY <2>1 DEF Moment
  <2>5. h[k + 1].n = h[k].n + 1 /\ h[k + 1].n <= Len(sent)
    BY <2>3 DEF Opens
  <2> QED BY <1>4, <2>4, <2>5
<1> QED BY <1>2, <1>3, <1>4

\* From one message to the next.
LEMMA NextOpens ==
  ASSUME NEW h, NEW W, HistoryOf(h, W), NEW k \in 1 .. Len(h), h[k].calls = <<>>,
         h[k].n # Len(sent)
  PROVE  k + 1 \in 1 .. Len(h) /\ Opens(h[k], h[k + 1])
<1>1. Len(h) \in Nat /\ k # Len(h)
  BY MomentOf DEF HistoryOf
<1>2. k + 1 \in 1 .. Len(h) /\ Moves(h[k], h[k + 1], W)
  BY <1>1, MomentOf
<1>3. Opens(h[k], h[k + 1])
  BY <1>2 DEF Moves, Returns, StoresNext
<1> QED BY <1>2, <1>3

\* A call in progress goes on.
LEMMA NextGoes ==
  ASSUME NEW h, NEW W, HistoryOf(h, W), calls = <<>>, NEW k \in 1 .. Len(h), h[k].calls # <<>>
  PROVE  /\ k + 1 \in 1 .. Len(h) /\ h[k + 1].n = h[k].n /\ h[k].at <= h[k + 1].at
         /\ h[k + 1].at <= Len(W)
         /\ Returns(h[k], h[k + 1], W) \/ StoresNext(h[k], h[k + 1], W)
<1>1. Len(h) \in Nat /\ k # Len(h)
  BY MomentOf DEF HistoryOf
<1>2. k + 1 \in 1 .. Len(h) /\ Moves(h[k], h[k + 1], W)
  BY <1>1, MomentOf
<1>3. Returns(h[k], h[k + 1], W) \/ StoresNext(h[k], h[k + 1], W)
  BY <1>2 DEF Moves, Opens
<1>4. h[k + 1].n = h[k].n
  BY <1>3 DEF Returns, StoresNext
<1> QED BY <1>2, <1>3, <1>4 DEF Moves

-----------------------------------------------------------------------------
(*****************************************************************************)
(* The calls of Enter.                                                     *)
(*****************************************************************************)
\* What is said of the calls of Enter: only the last can be in progress, and a
\* message is usable as long as all have returned normally.
OutcomeInv ==
  /\ Len(outcome) = Len(entered)
  /\ frames # <<>> => outcome # <<>>
  /\ \A q \in 1 .. Len(outcome) : outcome[q] = "reading" <=> q = Len(outcome) /\ frames # <<>>
  /\ mCleanExit <=> \A q \in 1 .. Len(outcome) : outcome[q] \in {"done", "reading"}

\* What both ends keep to.
Ends == IInv /\ OutcomeInv /\ Writer!TypeOK

\* The message being read.
LEMMA RoundNow ==
  ASSUME Ends
  PROVE  /\ Round \in Nat /\ Round = Len(outcome) /\ Len(sent) \in Nat
         /\ frames # <<>> => Round >= 1
         /\ \A q \in 1 .. Round : q <= Len(sent) => Classes(q) \in ClassPairs
<1>1. entered \in Seq(Readable) /\ sent \in Seq(Sendable) /\ outcome \in Seq({"reading", "done", "InvalidType", "EndOfStream", "NoCleanExit"})
  BY DEF Ends, IInv, ReaderTypes, Writer!TypeOK
<1>2. Len(entered) \in Nat /\ Len(sent) \in Nat /\ Len(entered) = Len(outcome)
  BY <1>1, LenProperties DEF Ends, OutcomeInv
<1>3. frames # <<>> => Len(entered) >= 1
  <2>1. outcome # <<>> => Len(outcome) # 0
    BY <1>1, EmptySeq
  <2> QED BY <1>2, <2>1 DEF Ends, OutcomeInv
<1>4. ASSUME NEW q \in 1 .. Len(entered), q <= Len(sent) PROVE Classes(q) \in ClassPairs
  <2>1. entered[q] \in Class /\ sent[q] \in Class
    BY <1>1, <1>2, <1>4, ElementOfSeq, RoundTripAssumption
  <2> QED BY <2>1 DEF Classes, ClassPairs
<1> QED BY <1>2, <1>3, <1>4 DEF Round

\* A reader that follows is at a moment of the writer, and there is the next.
LEMMA AtMoment ==
  ASSUME Ends, mCleanExit, Supported(Round), calls = <<>>,
         NEW h, NEW W, HistoryOf(h, W), Prefix(stream, W), NEW k \in 1 .. Len(h),
         NEW g, Following(h[k], W, g)
  PROVE  \E j \in 1 .. Len(h) : IsAt(h[k], h[j], W, g) /\ h[j].n = h[k].n
<1>1. /\ Round \in 1 .. Round /\ Round <= Len(sent) /\ PairNow \in ClassPairs /\ h[k].n = Round
  BY RoundNow DEF Following, PairNow
<1>2. ~Unsupported[PairNow]
  BY <1>1 DEF Supported, PairNow
<1>3. W \in Seq(Token) /\ h[k] \in Moment /\ IInv
  BY MomentOf DEF HistoryOf, Ends
<1>4. PICK j \in 1 .. Len(h) :
        /\ h[j].n = h[k].n
        /\ h[k].calls # <<>> =>
             h[k].at <= h[j].at /\ h[j].at <= Len(W) /\ (Returns(h[k], h[j], W) \/ StoresNext(h[k], h[j], W))
  <2>1. CASE h[k].calls = <<>>
    BY <2>1
  <2>2. CASE h[k].calls # <<>>
    BY <2>2, NextGoes
  <2> QED BY <2>1, <2>2
<1>5. h[j] \in Moment
  BY MomentOf
<1>6. IsAt(h[k], h[j], W, g)
  BY <1>1, <1>2, <1>3, <1>4, <1>5 DEF IsAt
<1> QED BY <1>4, <1>6

-----------------------------------------------------------------------------
\* Behind the last message there is nothing to be read.
LEMMA BeyondOnly ==
  ASSUME IInv, Beyond, Reader!Step
  PROVE  \/ Reader!RefuseReuse \/ Reader!StoreEntryPoint \/ Reader!NoHeaderKept
         \/ Reader!FillReadBufferFails
<1>1. ReaderTypes /\ frames # <<>> /\ ~mCurrentIndexPending
  <2>1. ReaderTypes /\ Len(frames) = 1 /\ ~mCurrentIndexPending
    BY DEF IInv, Beyond
  <2>2. Len(<<>>) = 0
    OBVIOUS
  <2> QED BY <2>1, <2>2
<1>2. Reader!Top.what = "object" /\ Reader!Top.at \in {"enter", "store", "header"} /\ pos > Len(stream)
  BY <1>1, TopType DEF Beyond
<1>3. /\ \A what \in {"read", "body", "unknown", "skipArray", "cache", "packed", "skip"} :
           ~Reader!Running(what)
      /\ \A loc \in {"found", "returned"} : ~Reader!AtPoint(loc)
  BY <1>2 DEF Reader!Running, Reader!AtPoint
<1>4. ~Reader!ReadHeader
  <2> SUFFICES ASSUME Reader!ReadHeader PROVE FALSE
    OBVIOUS
  <2>1. Reader!AtPoint("header") /\ Reader!Fits(Len(Reader!Wanted))
    BY DEF Reader!ReadHeader, Reader!Got
  <2>2. Reader!Wanted = <<"header">>
    BY <2>1 DEF Reader!Wanted, Reader!AtPoint, Reader!Running
  <2>3. Len(Reader!Wanted) = 1
    BY <2>2
  <2>4. pos + 1 - 1 <= Len(stream)
    BY <2>1, <2>3 DEF Reader!Fits
  <2> QED BY <1>1, <1>2, <2>4, LenProperties DEF ReaderTypes
<1>5. /\ ~Reader!LeaveObject /\ ~Reader!StoreKept /\ ~Reader!StoreLater
      /\ ~Reader!ReadNow
      /\ ~Reader!ReadNowReturns /\ ~Reader!StoreFound /\ ~Reader!StoreOther
      /\ ~Reader!RemainingKept /\ ~Reader!SkipUnknown
  BY <1>1, <1>3 DEF Reader!LeaveObject, Reader!StoreKept, Reader!StoreLater,
    Reader!ReadNow,
    Reader!ReadNowReturns, Reader!StoreFound, Reader!StoreOther,
    Reader!RemainingKept, Reader!SkipUnknown, Reader!Remaining,
    Reader!Storing
<1>6. /\ ~Reader!ReadPrimitive /\ ~Reader!ReadObject /\ ~Reader!ReadArrayHeader
      /\ ~Reader!ReadPrimitiveVector /\ ~Reader!ReadObjectVector
      /\ ~Reader!ReadPackedVector /\ ~Reader!SkipPrimitive /\ ~Reader!SkipArrayHeader
      /\ ~Reader!SkipElements /\ ~Reader!SkipObjects /\ ~Reader!LeaveSkipped
  BY <1>3 DEF Reader!ReadPrimitive, Reader!ReadObject, Reader!ReadArrayHeader,
    Reader!ReadPrimitiveVector, Reader!ReadObjectVector, Reader!ReadPackedVector,
    Reader!SkipPrimitive, Reader!SkipArrayHeader, Reader!SkipElements, Reader!SkipObjects,
    Reader!LeaveSkipped
<1>7. /\ ~Reader!CacheHeaders /\ ~Reader!NextElement /\ ~Reader!LeavePackedVector
      /\ ~Reader!StoreMissing /\ ~Reader!StoreNext /\ ~Reader!StorePending
      /\ ~Reader!ReadPending /\ ~Reader!ReadPendingReturns /\ ~Reader!PassHeader
      /\ ~Reader!ElementRead /\ ~Reader!RejectType
  BY <1>3 DEF Reader!CacheHeaders, Reader!NextElement, Reader!LeavePackedVector,
    Reader!StoreMissing, Reader!StoreNext, Reader!StorePending, Reader!ReadPending,
    Reader!ReadPendingReturns, Reader!PassHeader, Reader!ElementRead, Reader!PackedAt,
    Reader!RejectType, Reader!WrongType
<1> QED
  BY <1>4, <1>5, <1>6, <1>7 DEF Reader!Step

\* A reader beyond the last message stays there.
LEMMA BeyondOn ==
  ASSUME IInv, Beyond, Reader!Step, Kindly, ~Throws
  PROVE  Beyond'
<1>1. Reader!StoreEntryPoint \/ Reader!NoHeaderKept
  BY BeyondOnly DEF Throws
<1>2. ReaderTypes /\ frames # <<>> /\ Reader!Top = frames[1] /\ Tail(frames) = <<>>
  <2>1. ReaderTypes /\ Len(frames) = 1 /\ frames \in Seq(Reader!Frame)
    BY DEF IInv, Beyond, ReaderTypes
  <2>2. frames # <<>>
    BY <2>1
  <2>3. Len(Tail(frames)) = 0 /\ Tail(frames) \in Seq(Reader!Frame)
    BY <2>1, <2>2, HeadTailProperties
  <2> QED BY <2>1, <2>2, <2>3, TopType, EmptySeq
<1>3. PICK loc \in {"store", "header"} :
        /\ frames' = <<[frames[1] EXCEPT !.at = loc]>> \o Tail(frames)
        /\ pos' = pos /\ mCurrentIndexPending' = mCurrentIndexPending
  BY <1>1, <1>2 DEF Reader!StoreEntryPoint, Reader!NoHeaderKept, Reader!Move, Reader!Become,
    Reader!messageVars
<1>4. frames[1] \in Reader!ObjectFrames /\ frames[1].what = "object"
  BY <1>2, TopType, Kinds DEF Beyond
<1>f. PICK e : e = [frames[1] EXCEPT !.at = loc]
  OBVIOUS
<1>5. e.what = "object" /\ e.at = loc
  BY <1>4, <1>f DEF Reader!ObjectFrames
<1>6. frames' = <<e>>
  <2>1. <<e>> \o <<>> = <<e>>
    OBVIOUS
  <2>2. frames' = <<e>> \o Tail(frames)
    BY <1>3, <1>f
  <2> QED BY <1>2, <2>1, <2>2
<1>7. Len(frames') = 1 /\ frames'[1] = e
  BY <1>6
<1>8. Round' = Round /\ sent' = sent /\ stream' = stream
  BY PairStays DEF Kindly
<1> QED BY <1>3, <1>5, <1>7, <1>8 DEF Beyond

\* What has been taken for the header of a member is of no type.
LEMMA DoomedWrong ==
  ASSUME ReaderTypes, Doomed
  PROVE  Reader!WrongType /\ ~Reader!AtPoint("enter")
<1>1. /\ frames # <<>> /\ Reader!Top = frames[1] /\ frames[1] \in Reader!ReadFrames
      /\ frames[1].what = "read" /\ frames[1].type = "Terminator"
  BY TopType, Kinds DEF Doomed
<1>2. frames[1].member \in Reader!Member
  BY <1>1 DEF Reader!ReadFrames
<1>3. "Terminator" \notin Reader!Accepted(frames[1].member.type)
  BY <1>2 DEF Reader!Accepted, Reader!Member, Reader!PrimitiveTypes, Reader!IntegerTypes
<1> QED BY <1>1, <1>3 DEF Reader!WrongType, Reader!Running, Reader!AtPoint

\* A Terminator taken for a member is found out.
LEMMA DoomedThrows ==
  ASSUME ReaderTypes, Doomed, Reader!Step
  PROVE  Reader!RejectType
<1>1. Reader!WrongType /\ ~Reader!Got
  BY DoomedWrong DEF Reader!Got
<1>2. frames # <<>> /\ Reader!Top.what = "read"
  BY TopType DEF Doomed
<1>3. /\ \A what \in {"object", "body", "unknown", "skipArray", "cache", "packed", "skip"} :
           ~Reader!Running(what)
      /\ \A loc : ~Reader!AtPoint(loc)
  BY <1>2 DEF Reader!Running, Reader!AtPoint
<1>5. /\ ~Reader!LeaveObject /\ ~Reader!StoreKept /\ ~Reader!StoreLater
      /\ ~Reader!ReadNow /\ ~Reader!RefuseReuse /\ ~Reader!StoreEntryPoint
      /\ ~Reader!NoHeaderKept /\ ~Reader!ReadHeader
      /\ ~Reader!ReadNowReturns /\ ~Reader!StoreFound /\ ~Reader!StoreOther
      /\ ~Reader!RemainingKept /\ ~Reader!SkipUnknown
  BY <1>3 DEF Reader!LeaveObject, Reader!StoreKept, Reader!StoreLater,
    Reader!ReadNow, Reader!RefuseReuse, Reader!StoreEntryPoint, Reader!NoHeaderKept, Reader!ReadHeader,
    Reader!ReadNowReturns, Reader!StoreFound, Reader!StoreOther,
    Reader!RemainingKept, Reader!SkipUnknown, Reader!Remaining,
    Reader!Storing
<1>6. /\ ~Reader!ReadPrimitive /\ ~Reader!ReadObject /\ ~Reader!ReadArrayHeader
      /\ ~Reader!ReadPrimitiveVector /\ ~Reader!ReadObjectVector
      /\ ~Reader!ReadPackedVector /\ ~Reader!SkipPrimitive /\ ~Reader!SkipArrayHeader
      /\ ~Reader!SkipElements /\ ~Reader!SkipObjects /\ ~Reader!LeaveSkipped
  BY <1>1, <1>3 DEF Reader!ReadPrimitive, Reader!ReadObject, Reader!ReadArrayHeader,
    Reader!ReadPrimitiveVector, Reader!ReadObjectVector, Reader!ReadPackedVector,
    Reader!SkipPrimitive, Reader!SkipArrayHeader, Reader!SkipElements, Reader!SkipObjects,
    Reader!LeaveSkipped
<1>7. /\ ~Reader!CacheHeaders /\ ~Reader!NextElement /\ ~Reader!LeavePackedVector
      /\ ~Reader!StoreMissing /\ ~Reader!StoreNext /\ ~Reader!StorePending
      /\ ~Reader!ReadPending /\ ~Reader!ReadPendingReturns /\ ~Reader!PassHeader
      /\ ~Reader!ElementRead /\ ~Reader!FillReadBufferFails
  BY <1>1, <1>3 DEF Reader!CacheHeaders, Reader!NextElement, Reader!LeavePackedVector,
    Reader!StoreMissing, Reader!StoreNext, Reader!StorePending, Reader!ReadPending,
    Reader!ReadPendingReturns, Reader!PassHeader, Reader!ElementRead, Reader!PackedAt,
    Reader!FillReadBufferFails
<1> QED
  BY <1>5, <1>6, <1>7 DEF Reader!Step

\* A step is one of a call in progress.
LEMMA StepCalls ==
  ASSUME Reader!Step
  PROVE  frames # <<>>
<1>1. CASE \/ Reader!RefuseReuse \/ Reader!RejectType \/ Reader!FillReadBufferFails
  BY <1>1 DEF Reader!RefuseReuse, Reader!RejectType, Reader!FillReadBufferFails, Reader!WrongType,
    Reader!Running, Reader!AtPoint
<1>2. CASE \/ Reader!StoreEntryPoint \/ Reader!LeaveObject \/ Reader!StoreKept
           \/ Reader!StoreLater \/ Reader!NoHeaderKept \/ Reader!ReadHeader
           \/ Reader!ReadNow \/ Reader!ReadNowReturns \/ Reader!StoreFound
           \/ Reader!StoreOther \/ Reader!RemainingKept \/ Reader!SkipUnknown
  BY <1>2 DEF Reader!StoreEntryPoint, Reader!LeaveObject, Reader!StoreKept, Reader!StoreLater,
    Reader!NoHeaderKept, Reader!ReadHeader, Reader!ReadNow, Reader!ReadNowReturns,
    Reader!StoreFound, Reader!StoreOther, Reader!RemainingKept, Reader!SkipUnknown,
    Reader!Running, Reader!AtPoint, Reader!Storing, Reader!Remaining
<1>3. CASE \/ Reader!ReadPrimitive \/ Reader!ReadObject \/ Reader!ReadArrayHeader
           \/ Reader!ReadPrimitiveVector \/ Reader!ReadObjectVector
           \/ Reader!ReadPackedVector \/ Reader!SkipPrimitive \/ Reader!SkipArrayHeader
           \/ Reader!SkipElements \/ Reader!SkipObjects \/ Reader!LeaveSkipped
  BY <1>3 DEF Reader!ReadPrimitive, Reader!ReadObject, Reader!ReadArrayHeader,
    Reader!ReadPrimitiveVector, Reader!ReadObjectVector, Reader!ReadPackedVector,
    Reader!SkipPrimitive, Reader!SkipArrayHeader, Reader!SkipElements, Reader!SkipObjects,
    Reader!LeaveSkipped, Reader!Running
<1>4. CASE \/ Reader!CacheHeaders \/ Reader!NextElement \/ Reader!LeavePackedVector
           \/ Reader!StoreMissing \/ Reader!StoreNext \/ Reader!StorePending
           \/ Reader!ReadPending \/ Reader!ReadPendingReturns \/ Reader!PassHeader
           \/ Reader!ElementRead
  BY <1>4 DEF Reader!CacheHeaders, Reader!NextElement, Reader!LeavePackedVector,
    Reader!StoreMissing, Reader!StoreNext, Reader!StorePending, Reader!ReadPending,
    Reader!ReadPendingReturns, Reader!PassHeader, Reader!ElementRead, Reader!PackedAt,
    Reader!Running
<1> QED
  BY <1>1, <1>2, <1>3, <1>4, Zenon DEF Reader!Step

\* A reader that is on its way stays on it.
LEMMA ReadOn ==
  ASSUME Ends, mCleanExit, Supported(Round), calls = <<>>,
         NEW h, NEW W, HistoryOf(h, W), Prefix(stream, W), Somewhere(h, W),
         Reader!Step, Kindly, ~Throws
  PROVE  Somewhere(h, W)'
<1>1. CASE Beyond
  BY <1>1, BeyondOn DEF Ends, Somewhere
<1>2. CASE Doomed
  BY <1>2, DoomedThrows DEF Ends, IInv, Throws
<1>3. ASSUME NEW k \in 1 .. Len(h), Idle(h[k])
      PROVE  FALSE
  <2>1. frames # <<>>
    BY StepCalls
  <2> QED BY <1>3, <2>1 DEF Idle
<1>4. ASSUME NEW k \in 1 .. Len(h), NEW g, Following(h[k], W, g)
      PROVE  Somewhere(h, W)'
  <2>1. PICK j \in 1 .. Len(h) : IsAt(h[k], h[j], W, g)
    BY <1>4, AtMoment
  <2>f. PICK x, y : x = h[k] /\ y = h[j]
    OBVIOUS
  <2>2. Onwards(x, y, W)'
    BY <2>1, <2>f, AllStepsOn
  <2>3. CASE Doomed'
    BY <2>3 DEF Somewhere
  <2>4. CASE Goal(x, y, W)'
    <3>1. PICK z \in {x, y} : Idle(z)' \/ \E G : Following(z, W, G)'
      BY <2>4 DEF Goal
    <3>2. PICK i \in 1 .. Len(h) : z = h[i]
      BY <2>f, <3>1
    <3>3. Idle(h[i])' \/ \E G : Following(h[i], W, G)'
      BY <3>1, <3>2
    <3> QED BY <3>3 DEF Somewhere
  <2> QED BY <2>2, <2>3, <2>4 DEF Onwards
<1> QED BY <1>1, <1>2, <1>3, <1>4 DEF Somewhere

-----------------------------------------------------------------------------
\* One message more.
LEMMA AllOwedNext ==
  ASSUME NEW n \in Nat, NEW c, entered \in Seq(Readable), n = Len(entered), entered' = Append(entered, c),
         sent' = sent, NEW pr, pr = <<sent[n + 1], c>>
  PROVE  /\ Round' = n + 1 /\ PairNow' = pr
         /\ AllOwed(Round)' = AllOwed(Round) \cup Owed(<<n + 1>>, Common[pr])
<1>1. Len(entered') = n + 1 /\ entered'[n + 1] = c /\ \A q \in 1 .. n : entered'[q] = entered[q]
  BY AppendProperties
<1>2. Round' = n + 1 /\ PairNow' = pr /\ Round = n
  BY <1>1 DEF Round, PairNow, Classes
<1>3. Classes(n + 1)' = pr /\ \A q \in 1 .. n : Classes(q)' = Classes(q)
  BY <1>1 DEF Classes
<1>4. AllOwed(n)' = AllOwed(n)
  BY <1>3 DEF AllOwed
<1>5. AllOwed(n + 1)' = AllOwed(n)' \cup Owed(<<n + 1>>, Common[pr])
  <2>1. \A q \in 1 .. (n + 1) : q = n + 1 \/ q \in 1 .. n
    OBVIOUS
  <2>2. \A q \in 1 .. n : q \in 1 .. (n + 1)
    OBVIOUS
  <2>3. n + 1 \in 1 .. (n + 1)
    OBVIOUS
  <2>4. Owed(<<n + 1>>, Common[Classes(n + 1)'])= Owed(<<n + 1>>, Common[pr])
    BY <1>3
  <2> QED BY <1>3, <2>1, <2>2, <2>3, <2>4 DEF AllOwed
<1>6. AllOwed(Round)' = AllOwed(n + 1)'
  BY <1>2 DEF AllOwed
<1> QED BY <1>2, <1>4, <1>5, <1>6

\* The contexts in which a message that is entered starts and ends.
FirstContext(cs, got) ==
  [calls |-> cs, arrays |-> <<Null>>, skipping |-> FALSE, got |-> got, clean |-> TRUE]
ThenContext(got, wr) ==
  [calls |-> <<>>, arrays |-> <<Null>>, skipping |-> FALSE, got |-> got, clean |-> ~Mismatched[wr]]

\* The call that reads a message stands at its first moment.
LEMMA FirstStands ==
  ASSUME NEW wr \in ClassPairs, NEW w, NEW r, wr = <<w, r>>, NEW n \in Nat,
         NEW got \in SUBSET (Seq(Nat) \X Seq(Nat)),
         NEW f, f = Reader!ObjectFrame(r, <<n>>),
         NEW all, all = got \cup Owed(<<n>>, Common[wr]),
         NEW A, A = FirstContext(<<CallOf(w, <<n>>, "object")>>, got),
         NEW B, B = ThenContext(all, wr)
  PROVE  A \in Context /\ B \in Context /\ Stands(f, A, B, wr)
<1>1. w \in Class /\ r \in Class
  BY DEF ClassPairs
<1>2. PICK p \in Seq(Nat) : p = <<n>>
  OBVIOUS
<1>3. PICK c \in CallRecord : c = CallOf(w, p, "object")
  BY <1>1, CallOfType
<1>4. <<c>> \in Seq(CallRecord) /\ <<>> \in Seq(CallRecord) /\ Head(<<c>>) = c /\ Tail(<<c>>) = <<>> /\ <<c>> # <<>>
  BY <1>3
<1>5. <<Null>> \in Seq({Null} \cup SUBSET Reader!PendingMember)
  <2>1. Null \in {Null} \cup SUBSET Reader!PendingMember
    OBVIOUS
  <2> QED BY <2>1
<1>6. all \in SUBSET (Seq(Nat) \X Seq(Nat)) /\ Mismatched[wr] \in BOOLEAN
  <2>1. Common[wr] \in SUBSET Seq(Nat)
    BY CommonFixed
  <2>2. Owed(p, Common[wr]) \in SUBSET (Seq(Nat) \X Seq(Nat))
    BY <2>1, OwedTypes
  <2> QED BY <1>2, <2>2, MismatchedBy
<1>7. /\ A \in Context /\ A.calls = <<c>> /\ A.arrays = <<Null>> /\ A.skipping = FALSE /\ A.got = got
      /\ A.clean = TRUE
  BY <1>2, <1>3, <1>4, <1>5 DEF FirstContext, Context
<1>8. /\ B \in Context /\ B.calls = <<>> /\ B.arrays = <<Null>> /\ B.skipping = FALSE /\ B.got = all
      /\ (B.clean <=> ~Mismatched[wr])
  BY <1>4, <1>5, <1>6 DEF ThenContext, Context
<1>9. wr \in Pairs[wr]
  BY PairsClosed
<1>10. Stands(f, A, B, wr)
  <2>1. <<w, r>> \in Pairs[wr] /\ f = Reader!ObjectFrame(r, p)
    BY <1>2, <1>9
  <2>2. A.calls # <<>> /\ Head(A.calls) = CallOf(w, p, "object") /\ B.calls = Tail(A.calls)
    BY <1>3, <1>4, <1>7, <1>8
  <2>3. B.got = A.got \cup Owed(p, Common[<<w, r>>]) /\ (B.clean <=> (A.clean /\ ~Mismatched[<<w, r>>]))
    BY <1>2, <1>7, <1>8
  <2>4. ~A.skipping /\ ~B.skipping /\ B.arrays = A.arrays
    BY <1>7, <1>8
  <2> QED BY <1>1, <1>7, <1>8, <2>1, <2>2, <2>3, <2>4, ObjectBegins, ZenonT(40)
<1> QED BY <1>7, <1>8, <1>10

\* A message that is entered comes after those before it.
LEMMA SupportedBefore ==
  ASSUME Ends, NEW c \in Readable, entered' = Append(entered, c), sent' = sent, Supported(Round)'
  PROVE  Supported(Round)
<1>1. entered \in Seq(Readable)
  BY DEF Ends, IInv, ReaderTypes
<1>2. PICK n \in Nat : n = Len(entered)
  BY <1>1, LenProperties
<1>3. Len(entered') = n + 1 /\ \A q \in 1 .. n : entered'[q] = entered[q]
  BY <1>1, <1>2, AppendProperties
<1>4. Round = n /\ Round' = n + 1
  BY <1>2, <1>3 DEF Round
<1>5. \A q \in 1 .. n : Classes(q)' = Classes(q)
  BY <1>3 DEF Classes
<1>6. \A q \in 1 .. (n + 1) : q <= Len(sent) => ~Unsupported[Classes(q)']
  BY <1>4 DEF Supported
<1>7. \A q \in 1 .. n : q <= Len(sent) => ~Unsupported[Classes(q)]
  BY <1>5, <1>6
<1> QED BY <1>4, <1>7 DEF Supported

\* The message that is entered first, or after the others, is where the writer was
\* when it entered its own.
LEMMA OpensOn ==
  ASSUME Ends, NEW c \in Readable, Reader!Enter(c), sent' = sent,
         NEW x \in Moment, Idle(x), NEW y \in Moment, Opens(x, y), NEW W, Round < Len(sent)
  PROVE  \E G : Following(y, W, G)'
<1>1. ReaderTypes /\ sent \in Seq(Sendable)
  BY DEF Ends, IInv, Writer!TypeOK
<1>2. PICK n \in Nat : n = Len(entered)
  BY <1>1, LenProperties DEF ReaderTypes
<1>3. /\ stream' = stream /\ pos' = pos /\ mCurrentIndexPending' = mCurrentIndexPending
      /\ mCurrentPendingVariables' = mCurrentPendingVariables
      /\ mVariableHistory' = mVariableHistory /\ mObjectSkipping' = mObjectSkipping
      /\ result' = result /\ entered' = Append(entered, c)
      /\ frames' = <<Reader!ObjectFrame(c, <<Len(entered')>>)>>
  BY DEF Reader!Enter, Reader!messageVars
<1>4. PICK w : w = sent[n + 1]
  OBVIOUS
<1>5. PICK pr : pr = <<w, c>>
  OBVIOUS
<1>6. /\ Round' = n + 1 /\ PairNow' = pr /\ Round = n
      /\ AllOwed(Round)' = AllOwed(Round) \cup Owed(<<n + 1>>, Common[pr])
  <2>1. entered \in Seq(Readable) /\ pr = <<sent[n + 1], c>>
    BY <1>1, <1>4, <1>5 DEF ReaderTypes
  <2> QED BY <1>2, <1>3, <2>1, AllOwedNext DEF Round
<1>7. w \in Class /\ c \in Class /\ pr \in ClassPairs /\ n + 1 <= Len(sent)
  <2>1. n + 1 \in 1 .. Len(sent) /\ Len(sent) \in Nat
    BY <1>1, <1>6, LenProperties
  <2>2. w \in Sendable
    BY <1>1, <1>4, <2>1, ElementOfSeq
  <2> QED BY <1>5, <2>1, <2>2, RoundTripAssumption DEF ClassPairs
<1>f. PICK f : f = Reader!ObjectFrame(c, <<n + 1>>)
  OBVIOUS
<1>8. frames' = <<f>>
  <2>1. Len(entered') = n + 1
    BY <1>1, <1>2, <1>3, AppendProperties DEF ReaderTypes
  <2> QED BY <1>3, <1>f, <2>1
<1>9. f.what = "object" /\ f.at = "enter"
  BY <1>f DEF Reader!ObjectFrame
<1>10. PICK got, all : got = result /\ all = got \cup Owed(<<n + 1>>, Common[pr])
  OBVIOUS
<1>11. got \in SUBSET (Seq(Nat) \X Seq(Nat))
  BY <1>1, <1>10 DEF ReaderTypes
<1>12. PICK A, B : A = FirstContext(<<CallOf(w, <<n + 1>>, "object")>>, got) /\ B = ThenContext(all, pr)
  OBVIOUS
<1>13. A \in Context /\ B \in Context /\ Stands(f, A, B, pr)
  <2>1. PICK N \in Nat : N = n + 1
    OBVIOUS
  <2>2. /\ f = Reader!ObjectFrame(c, <<N>>) /\ all = got \cup Owed(<<N>>, Common[pr])
        /\ A = FirstContext(<<CallOf(w, <<N>>, "object")>>, got)
    BY <1>f, <1>10, <1>12, <2>1
  <2> QED BY <1>5, <1>7, <1>11, <1>12, <2>2, FirstStands
<1>14. /\ y.n = n + 1 /\ y.at = x.at /\ y.at \in Nat /\ y.at <= Len(stream)
       /\ y.calls = <<CallOf(w, <<n + 1>>, "object")>>
  BY <1>4, <1>6 DEF Idle, Opens, Moment
<1>15. /\ mCurrentPendingVariables = Null /\ mVariableHistory = <<>> /\ mObjectSkipping = FALSE
       /\ mCurrentIndexPending = FALSE /\ result = AllOwed(Round)
       /\ pos = y.at + 1
  <2>1. mCurrentIndexPending \in BOOLEAN /\ mObjectSkipping \in BOOLEAN
    BY <1>1 DEF ReaderTypes
  <2> QED BY <1>14, <2>1 DEF Idle, Reached
<1>16. Present(A, y)'
  <2>1. A.calls = y.calls /\ A.arrays = <<Null>> /\ A.skipping = FALSE /\ A.clean = TRUE /\ A.got = result'
    BY <1>3, <1>10, <1>12, <1>14 DEF FirstContext
  <2>2. <<mCurrentPendingVariables'>> \o mVariableHistory' = <<Null>>
    BY <1>3, <1>15
  <2> QED BY <1>3, <1>15, <2>1, <2>2 DEF Present
<1>17. LastContext' = B
  <2>1. AllOwed(Round)' = all
    BY <1>6, <1>10, <1>15
  <2>2. (~Mismatched[PairNow])' <=> ~Mismatched[pr]
    BY <1>6
  <2> QED BY <1>6, <1>12, <2>1 DEF LastContext, ThenContext
<1>g. PICK G : G = <<A, B>>
  OBVIOUS
<1>18. G[1] = A /\ G[2] = B /\ Len(G) = 2 /\ G \in Seq(Context)
  BY <1>13, <1>g
<1>19. Chain(frames', G, pr)
  <2>1. Len(frames') = 1 /\ frames'[1] = f
    BY <1>8
  <2>2. Len(G) = Len(frames') + 1
    BY <1>18, <2>1
  <2>3. \A i \in 1 .. Len(frames') : i = 1 /\ i + 1 = 2
    BY <2>1
  <2>4. \A i \in 1 .. Len(frames') : Stands(frames'[i], G[i], G[i + 1], pr)
    BY <1>13, <1>18, <2>1, <2>3
  <2> QED BY <1>18, <2>2, <2>4 DEF Chain
<1>20. ~HeaderSeen(f)'
  BY <1>3, <1>9, <1>15 DEF HeaderSeen
<1>21. TakenSince(f, y)'
  <2>1. y.at + OneIf(HeaderSeen(f)') = y.at
    BY <1>14, <1>20 DEF OneIf
  <2>2. Reached(y.at)'
    BY <1>3, <1>14, <1>15 DEF Reached
  <2>3. Reached(y.at + OneIf(HeaderSeen(f)))'
    BY <2>1, <2>2 DEF Reached
  <2> QED BY <1>9, <2>3 DEF TakenSince
<1>22. /\ frames' # <<>> /\ frames'[1] = f /\ \A i \in 2 .. Len(frames') : FALSE
       /\ G[Len(G)] = B
  BY <1>8, <1>18
<1>23. Following(y, W, G)'
  <2>1. frames' # <<>> /\ Round' <= Len(sent') /\ y.n = Round'
    BY <1>6, <1>7, <1>14, <1>22
  <2>2. Chain(frames, G, PairNow)' /\ Present(G[1], y)' /\ G[Len(G)] = LastContext'
    BY <1>6, <1>16, <1>17, <1>18, <1>19, <1>22
  <2>3. TakenSince(frames[1], y)' /\ ~HeaderSeen(frames[1])'
    BY <1>20, <1>21, <1>22
  <2> QED BY <1>22, <2>1, <2>2, <2>3 DEF Following
<1> QED BY <1>23

\* Behind the last message.
LEMMA EnterBeyond ==
  ASSUME Ends, NEW c \in Readable, Reader!Enter(c), sent' = sent, calls = <<>>,
         NEW h, NEW W, HistoryOf(h, W), Prefix(stream, W), NEW k \in 1 .. Len(h), Idle(h[k]),
         Round = Len(sent)
  PROVE  Beyond'
<1>1. ReaderTypes
  BY DEF Ends, IInv
<1>2. PICK n \in Nat : n = Len(entered)
  BY <1>1, LenProperties DEF ReaderTypes
<1>3. /\ stream' = stream /\ pos' = pos /\ mCurrentIndexPending' = mCurrentIndexPending
      /\ entered' = Append(entered, c)
      /\ frames' = <<Reader!ObjectFrame(c, <<Len(entered')>>)>>
  BY DEF Reader!Enter, Reader!messageVars
<1>4. Round' = n + 1 /\ Round = n
  <2>1. Len(entered') = n + 1
    BY <1>1, <1>2, <1>3, AppendProperties DEF ReaderTypes
  <2> QED BY <1>2, <2>1 DEF Round
<1>5. h[k].at = Len(W) /\ Len(W) \in Nat
  <2>1. h[k].calls = <<>> /\ h[k].n = Len(sent)
    BY DEF Idle
  <2> QED BY <2>1, LastEnds, MomentOf
<1>6. pos > Len(stream)
  <2>1. Len(stream) <= Len(W) /\ Len(stream) \in Nat
    BY <1>1, LenProperties DEF Prefix, ReaderTypes
  <2>2. h[k].at <= Len(stream) /\ Reached(h[k].at)
    BY DEF Idle
  <2> QED BY <1>5, <2>1, <2>2 DEF Reached
<1>7. Len(frames') = 1 /\ frames'[1].what = "object" /\ frames'[1].at = "enter"
  BY <1>3 DEF Reader!ObjectFrame
<1>8. ~mCurrentIndexPending
  BY DEF Idle
<1> QED BY <1>2, <1>3, <1>4, <1>6, <1>7, <1>8 DEF Beyond

\* Enter, in the words of the history.
LEMMA EnterOn ==
  ASSUME Ends, NEW c \in Readable, Reader!Enter(c), sent' = sent, calls = <<>>,
         NEW h, NEW W, HistoryOf(h, W), Prefix(stream, W), Somewhere(h, W)
  PROVE  Somewhere(h, W)'
<1>1. frames = <<>>
  BY DEF Reader!Enter
<1>2. PICK k \in 1 .. Len(h) : Idle(h[k])
  <2>1. ~Beyond /\ ~Doomed
    BY <1>1 DEF Beyond, Doomed
  <2>2. \A j \in 1 .. Len(h) : \A g : ~Following(h[j], W, g)
    BY <1>1 DEF Following
  <2> QED BY <2>1, <2>2 DEF Somewhere
<1>3. CASE Round = Len(sent)
  BY <1>2, <1>3, EnterBeyond DEF Somewhere
<1>4. CASE Round # Len(sent)
  <2>1. Round < Len(sent)
    BY <1>2, <1>4, RoundNow DEF Idle
  <2>2. h[k].calls = <<>> /\ h[k].n # Len(sent)
    BY <1>2, <1>4 DEF Idle
  <2>3. k + 1 \in 1 .. Len(h) /\ Opens(h[k], h[k + 1])
    BY <2>2, NextOpens
  <2>4. PICK j \in 1 .. Len(h) : Opens(h[k], h[j])
    BY <2>3
  <2>5. PICK x, y : x = h[k] /\ y = h[j]
    OBVIOUS
  <2>6. x \in Moment /\ y \in Moment /\ Idle(x) /\ Opens(x, y)
    BY <1>2, <2>4, <2>5, MomentOf
  <2>7. \E G : Following(y, W, G)'
    BY <2>1, <2>6, OpensOn
  <2>8. \E G : Following(h[j], W, G)'
    BY <2>5, <2>7
  <2> QED BY <2>8 DEF Somewhere
<1> QED BY <1>3, <1>4

\* Steps within a message.
LEMMA StepWithin ==
  ASSUME Reader!Step, ~Throws, ~Reader!LeaveObject
  PROVE  /\ outcome' = outcome /\ mCleanExit' = mCleanExit
         /\ Reader!StoreEntryPoint \/ mVariableHistory' = mVariableHistory
<1>2. CASE \/ Reader!StoreEntryPoint \/ Reader!StoreKept
           \/ Reader!StoreLater \/ Reader!NoHeaderKept \/ Reader!ReadHeader
           \/ Reader!ReadNow \/ Reader!ReadNowReturns \/ Reader!StoreFound
           \/ Reader!StoreOther \/ Reader!RemainingKept \/ Reader!SkipUnknown
  BY <1>2 DEF Reader!StoreEntryPoint, Reader!StoreKept, Reader!StoreLater,
    Reader!NoHeaderKept, Reader!ReadHeader, Reader!ReadNow, Reader!ReadNowReturns,
    Reader!StoreFound, Reader!StoreOther, Reader!RemainingKept, Reader!SkipUnknown,
    Reader!history, Reader!streamFlags, Reader!messageVars, Reader!arrays
<1>3. CASE \/ Reader!ReadPrimitive \/ Reader!ReadObject \/ Reader!ReadArrayHeader
           \/ Reader!ReadPrimitiveVector \/ Reader!ReadObjectVector
           \/ Reader!ReadPackedVector \/ Reader!SkipPrimitive \/ Reader!SkipArrayHeader
           \/ Reader!SkipElements \/ Reader!SkipObjects \/ Reader!LeaveSkipped
  BY <1>3 DEF Reader!ReadPrimitive, Reader!ReadObject, Reader!ReadArrayHeader,
    Reader!ReadPrimitiveVector, Reader!ReadObjectVector, Reader!ReadPackedVector,
    Reader!SkipPrimitive, Reader!SkipArrayHeader, Reader!SkipElements, Reader!SkipObjects,
    Reader!LeaveSkipped, Reader!history, Reader!streamFlags, Reader!messageVars, Reader!arrays
<1>4. CASE \/ Reader!CacheHeaders \/ Reader!NextElement \/ Reader!LeavePackedVector
           \/ Reader!StoreMissing \/ Reader!StoreNext \/ Reader!StorePending
           \/ Reader!ReadPending \/ Reader!ReadPendingReturns \/ Reader!PassHeader
           \/ Reader!ElementRead
  BY <1>4 DEF Reader!CacheHeaders, Reader!NextElement, Reader!LeavePackedVector,
    Reader!StoreMissing, Reader!StoreNext, Reader!StorePending, Reader!ReadPending,
    Reader!ReadPendingReturns, Reader!PassHeader, Reader!ElementRead, Reader!history,
    Reader!streamFlags, Reader!messageVars
<1> QED
  BY <1>2, <1>3, <1>4, Zenon DEF Reader!Step, Throws

\* StoreEntryPoint has not begun: it does.
LEMMA EnteringBegins ==
  ASSUME ReaderTypes, frames # <<>>, Entering(frames[1]), Reader!Step, ~Throws
  PROVE  Reader!StoreEntryPoint
<1>2. Reader!Top.what = "object" /\ Reader!Top.at = "enter"
  BY TopType DEF Entering
<1>3. /\ \A what \in {"read", "body", "unknown", "skipArray", "cache", "packed", "skip"} :
           ~Reader!Running(what)
      /\ \A loc \in {"store", "header", "found", "returned"} : ~Reader!AtPoint(loc)
  BY <1>2 DEF Reader!Running, Reader!AtPoint
<1>5. /\ ~Reader!LeaveObject /\ ~Reader!StoreKept /\ ~Reader!StoreLater
      /\ ~Reader!NoHeaderKept /\ ~Reader!ReadHeader /\ ~Reader!ReadNow
      /\ ~Reader!ReadNowReturns /\ ~Reader!StoreFound /\ ~Reader!StoreOther
      /\ ~Reader!RemainingKept /\ ~Reader!SkipUnknown
  BY <1>3 DEF Reader!LeaveObject, Reader!StoreKept, Reader!StoreLater, Reader!NoHeaderKept,
    Reader!ReadHeader, Reader!ReadNow, Reader!ReadNowReturns, Reader!StoreFound,
    Reader!StoreOther, Reader!RemainingKept, Reader!SkipUnknown, Reader!Remaining,
    Reader!Storing
<1>6. /\ ~Reader!ReadPrimitive /\ ~Reader!ReadObject /\ ~Reader!ReadArrayHeader
      /\ ~Reader!ReadPrimitiveVector /\ ~Reader!ReadObjectVector
      /\ ~Reader!ReadPackedVector /\ ~Reader!SkipPrimitive /\ ~Reader!SkipArrayHeader
      /\ ~Reader!SkipElements /\ ~Reader!SkipObjects /\ ~Reader!LeaveSkipped
  BY <1>3 DEF Reader!ReadPrimitive, Reader!ReadObject, Reader!ReadArrayHeader,
    Reader!ReadPrimitiveVector, Reader!ReadObjectVector, Reader!ReadPackedVector,
    Reader!SkipPrimitive, Reader!SkipArrayHeader, Reader!SkipElements, Reader!SkipObjects,
    Reader!LeaveSkipped
<1>7. /\ ~Reader!CacheHeaders /\ ~Reader!NextElement /\ ~Reader!LeavePackedVector
      /\ ~Reader!StoreMissing /\ ~Reader!StoreNext /\ ~Reader!StorePending
      /\ ~Reader!ReadPending /\ ~Reader!ReadPendingReturns /\ ~Reader!PassHeader
      /\ ~Reader!ElementRead
  BY <1>3 DEF Reader!CacheHeaders, Reader!NextElement, Reader!LeavePackedVector,
    Reader!StoreMissing, Reader!StoreNext, Reader!StorePending, Reader!ReadPending,
    Reader!ReadPendingReturns, Reader!PassHeader, Reader!ElementRead, Reader!PackedAt
<1> QED
  BY <1>5, <1>6, <1>7 DEF Reader!Step, Throws

\* Only the object that Enter was called with ends a message.
LEMMA StaysWithin ==
  ASSUME IInv, IInv', Reader!Step, ~Throws, ~Reader!LeaveObject
  PROVE  frames' # <<>>
<1>1. mCleanExit
  BY DeadThrows DEF Throws
<1>2. frames # <<>> /\ ReaderTypes /\ BottomInv /\ CleanWhenIdle'
  BY <1>1, StepCalls DEF IInv
<1>3. CASE Reader!StoreEntryPoint
  <2>1. PICK f : frames' = <<f>> \o Tail(frames)
    BY <1>3 DEF Reader!StoreEntryPoint, Reader!Move, Reader!Become
  <2>2. Tail(frames) \in Seq(Reader!Frame)
    BY <1>2, HeadTailProperties DEF ReaderTypes
  <2>3. Len(<<f>> \o Tail(frames)) # 0
    BY <2>2, Fronted
  <2> QED BY <2>1, <2>3
<1>4. CASE ~Reader!StoreEntryPoint
  <2>1. mVariableHistory' = mVariableHistory /\ mCleanExit'
    BY <1>1, <1>4, StepWithin
  <2>2. frames' = <<>> => mVariableHistory = <<>>
    BY <2>1, <1>2 DEF CleanWhenIdle
  <2>3. mVariableHistory = <<>> => Entering(frames[1])
    BY <1>2 DEF BottomInv
  <2> QED BY <1>2, <1>4, <2>2, <2>3, EnteringBegins
<1> QED BY <1>3, <1>4

\* What Enter that is returned from has come to.
LEMMA OutcomeSet ==
  ASSUME OutcomeInv, ReaderTypes, NEW e \in {"done", "InvalidType", "EndOfStream", "NoCleanExit"},
         frames # <<>>, outcome' = [outcome EXCEPT ![Len(outcome)] = e], frames' = <<>>,
         entered' = entered, mCleanExit' <=> mCleanExit /\ e = "done"
  PROVE  /\ OutcomeInv'
         /\ Len(outcome') = Len(outcome) /\ Len(outcome) \in Nat /\ Len(outcome) >= 1
         /\ outcome'[Len(outcome)] = e
         /\ \A q \in 1 .. Len(outcome) : q # Len(outcome) => outcome'[q] = outcome[q]
<1>1. outcome \in Seq({"reading", "done", "InvalidType", "EndOfStream", "NoCleanExit"}) /\ outcome # <<>>
  BY DEF ReaderTypes, OutcomeInv
<1>2. PICK n \in Nat : n = Len(outcome) /\ n >= 1
  BY <1>1, EmptySeq
<1>3. DOMAIN outcome = 1 .. n
  BY <1>1, <1>2, LenProperties
<1>4. /\ Len(outcome') = n /\ outcome'[n] = e
      /\ \A q \in 1 .. n : q # n => outcome'[q] = outcome[q]
  BY <1>1, <1>2, <1>3, ExceptSeq
<1>5. \A q \in 1 .. n : outcome'[q] # "reading"
  <2>1. \A q \in 1 .. n : outcome[q] = "reading" <=> q = n
    BY <1>2 DEF OutcomeInv
  <2>2. e # "reading"
    OBVIOUS
  <2> QED BY <1>4, <2>1, <2>2
<1>6. mCleanExit' <=> \A q \in 1 .. n : outcome'[q] \in {"done", "reading"}
  <2>1. /\ mCleanExit <=> \A q \in 1 .. n : outcome[q] \in {"done", "reading"}
        /\ outcome[n] = "reading" /\ n \in 1 .. n
    BY <1>2 DEF OutcomeInv
  <2> QED BY <1>4, <2>1
<1> QED BY <1>2, <1>4, <1>5, <1>6 DEF OutcomeInv

\* The message goes on, or Enter comes to an end.
Inside == frames' # <<>> /\ outcome' = outcome /\ (mCleanExit' <=> mCleanExit)
Concludes(e) ==
  /\ frames' = <<>> /\ outcome' = [outcome EXCEPT ![Len(outcome)] = e]
  /\ mCleanExit' <=> mCleanExit /\ e = "done"

\* What a step of a call makes of the message.
LEMMA StepOutcome ==
  ASSUME IInv, IInv', Reader!Step
  PROVE  \/ Inside
         \/ Reader!LeaveObject /\ Concludes("done")
         \/ Reader!RefuseReuse /\ Concludes("NoCleanExit")
         \/ Reader!RejectType /\ Concludes("InvalidType")
         \/ Reader!FillReadBufferFails /\ Concludes("EndOfStream")
<1>1. CASE Throws
  BY <1>1 DEF Throws, Reader!RefuseReuse, Reader!RejectType, Reader!FillReadBufferFails,
    Reader!Throw, Concludes
<1>2. CASE Reader!LeaveObject
  BY <1>2 DEF Reader!LeaveObject, Reader!streamFlags, Inside, Concludes
<1>3. CASE ~Throws /\ ~Reader!LeaveObject
  BY <1>3, StepWithin, StaysWithin DEF Inside
<1> QED BY <1>1, <1>2, <1>3

\* What both ends keep to, they keep to.
LEMMA EndsStep ==
  ASSUME Ends, Reader!Step, UNCHANGED <<calls, sent, ends>>
  PROVE  Ends'
<1>1. IInv'
  BY ReaderStep DEF Reader!ReaderNext, Ends
<1>2. stream' = stream /\ entered' = entered /\ frames # <<>> /\ ReaderTypes
  BY StepQuiet, StepCalls DEF Ends, IInv
<1>3. Writer!TypeOK'
  BY <1>2 DEF Ends, Writer!TypeOK
<1>4. OutcomeInv'
  <2>1. CASE Inside
    BY <1>2, <2>1 DEF Inside, Ends, OutcomeInv
  <2>2. ASSUME NEW e \in {"done", "InvalidType", "EndOfStream", "NoCleanExit"}, Concludes(e)
        PROVE  OutcomeInv'
    BY <1>2, <2>2, OutcomeSet DEF Concludes, Ends
  <2> QED BY <1>1, <2>1, <2>2, StepOutcome DEF Ends
<1> QED BY <1>1, <1>3, <1>4 DEF Ends

\* So does Enter, which adds a message that is being read.
LEMMA EndsEnter ==
  ASSUME Ends, NEW c \in Readable, Reader!Enter(c), UNCHANGED <<calls, sent, ends>>
  PROVE  /\ Ends'
         /\ Len(outcome') = Len(outcome) + 1
         /\ \A q \in 1 .. Len(outcome) : outcome'[q] = outcome[q]
         /\ outcome'[Len(outcome')] = "reading"
<1>1. IInv'
  BY ReaderStep DEF Reader!ReaderNext, Ends
<1>2. /\ stream' = stream /\ entered' = Append(entered, c) /\ outcome' = Append(outcome, "reading")
      /\ mCleanExit' = mCleanExit /\ frames' # <<>> /\ frames = <<>>
  BY DEF Reader!Enter, Reader!messageVars
<1>3. Writer!TypeOK'
  BY <1>2 DEF Ends, Writer!TypeOK
<1>4. PICK n \in Nat : n = Len(outcome) /\ n = Len(entered)
  BY LenProperties DEF Ends, IInv, ReaderTypes, OutcomeInv
<1>5. /\ Len(outcome') = n + 1 /\ Len(entered') = n + 1 /\ outcome'[n + 1] = "reading"
      /\ \A q \in 1 .. n : outcome'[q] = outcome[q]
  <2>1. /\ entered \in Seq(Readable)
        /\ outcome \in Seq({"reading", "done", "InvalidType", "EndOfStream", "NoCleanExit"})
    BY DEF Ends, IInv, ReaderTypes
  <2>2. Len(entered') = n + 1
    BY <1>2, <1>4, <2>1, AppendProperties
  <2>3. Len(outcome') = n + 1 /\ outcome'[n + 1] = "reading" /\ \A q \in 1 .. n : outcome'[q] = outcome[q]
    <3>1. PICK S, rd : outcome \in Seq(S) /\ rd = "reading" /\ rd \in S
      BY <2>1
    <3>2. outcome' = Append(outcome, rd)
      BY <1>2, <3>1
    <3>3. PICK t : t = Append(outcome, rd)
      OBVIOUS
    <3>4. Len(t) = Len(outcome) + 1 /\ t[Len(outcome) + 1] = rd
      BY <3>1, <3>3, AppendProperties
    <3>5. \A q \in 1 .. Len(outcome) : t[q] = outcome[q]
      BY <3>1, <3>3, AppendProperties
    <3> QED BY <1>4, <3>1, <3>2, <3>3, <3>4, <3>5
  <2> QED BY <2>2, <2>3
<1>6. /\ \A q \in 1 .. n : outcome[q] # "reading"
      /\ mCleanExit <=> \A q \in 1 .. n : outcome[q] \in {"done", "reading"}
  BY <1>2, <1>4 DEF Ends, OutcomeInv
<1>7. \A q \in 1 .. (n + 1) : q \in 1 .. n \/ q = n + 1
  OBVIOUS
<1>8. \A q \in 1 .. (n + 1) : outcome'[q] = "reading" <=> q = n + 1
  BY <1>5, <1>6, <1>7
<1>9. mCleanExit' <=> \A q \in 1 .. (n + 1) : outcome'[q] \in {"done", "reading"}
  <2>1. \A q \in 1 .. n : q \in 1 .. (n + 1)
    OBVIOUS
  <2> QED BY <1>2, <1>5, <1>6, <1>7, <2>1
<1>10. outcome' # <<>>
  BY <1>5
<1>11. OutcomeInv'
  BY <1>2, <1>5, <1>8, <1>9, <1>10 DEF OutcomeInv
<1> QED BY <1>1, <1>3, <1>4, <1>5, <1>11 DEF Ends

\* So does the destructor.
LEMMA EndsDestroy ==
  ASSUME Ends, Reader!Destroy, UNCHANGED <<calls, sent, ends>>
  PROVE  Ends'
<1>1. IInv'
  BY ReaderStep DEF Reader!ReaderNext, Ends
<1>2. /\ stream' = stream /\ entered' = entered /\ outcome' = outcome
      /\ mCleanExit' = mCleanExit /\ frames' = frames
  BY DEF Reader!Destroy, Reader!streamFlags
<1> QED BY <1>1, <1>2 DEF Ends, OutcomeInv, Writer!TypeOK

-----------------------------------------------------------------------------
(*****************************************************************************)
(* The paths of what is read.                                              *)
(*****************************************************************************)
\* All that a message reads belongs to it.
OfMessage(path, n) == path \in Seq(Nat) /\ path # <<>> /\ path[1] = n
Pathed(f, n) ==
  f.what \in {"object", "read", "body", "cache", "packed"} => OfMessage(f.path, n)
PathsInv ==
  /\ \A i \in 1 .. Len(frames) : Pathed(frames[i], Round)
  /\ \A k \in 1 .. Len(mVariableHistory) : \A p \in Saved[k] : OfMessage(p.path, Round)

\* A path below one in the message is in the message.
LEMMA PathGrows ==
  ASSUME NEW path, NEW n, OfMessage(path, n), NEW i \in Nat
  PROVE  OfMessage(Append(path, i), n)
<1>1. path \in Seq(Nat) /\ path # <<>> /\ path[1] = n
  BY DEF OfMessage
<1>2. Len(path) \in Nat \ {0}
  BY <1>1, EmptySeq
<1>3. 1 \in 1 .. Len(path)
  BY <1>2
<1>4. Append(path, i) \in Seq(Nat) /\ Append(path, i) # <<>>
  BY <1>1, AppendProperties
<1>5. Append(path, i)[1] = path[1]
  BY <1>1, <1>3, AppendProperties
<1> QED BY <1>1, <1>4, <1>5 DEF OfMessage

\* What has replaced the innermost call belongs to the message, and so do the
\* closures that there are.
PathsGo(new) ==
  /\ frames # <<>> /\ new \in Seq(Reader!Frame) /\ frames' = new \o Tail(frames)
  /\ entered' = entered
  /\ \A i \in 1 .. Len(new) : Pathed(new[i], Round)
Pends ==
  /\ mVariableHistory' = mVariableHistory
  /\ \A p \in mCurrentPendingVariables' : p \in mCurrentPendingVariables \/ OfMessage(p.path, Round)

\* The calls that take the place of the innermost are about this message.
LEMMA FramesPathed ==
  ASSUME ReaderTypes, PathsInv, NEW new, PathsGo(new)
  PROVE  \A i \in 1 .. Len(frames') : Pathed(frames'[i], Round')
<1>1. PICK F : F = frames'
  OBVIOUS
<1>2. /\ frames \in Seq(Reader!Frame) /\ frames # <<>> /\ new \in Seq(Reader!Frame)
      /\ F = new \o Tail(frames)
      /\ \A i \in 1 .. Len(new) : Pathed(new[i], Round)
  BY <1>1 DEF ReaderTypes, PathsGo
<1>3. PICK n, r : n = Len(new) /\ r = Round
  OBVIOUS
<1>4. /\ n \in Nat /\ Len(frames) \in Nat /\ Len(F) = n + Len(frames) - 1
      /\ \A i \in 1 .. n : F[i] = new[i]
      /\ \A i \in 2 .. Len(frames) : F[i + n - 1] = frames[i]
  BY <1>2, <1>3, ReplacedHead
<1>5. ASSUME NEW i \in 1 .. Len(F)
      PROVE  Pathed(F[i], r)
  <2>1. CASE i <= n
    BY <1>2, <1>3, <1>4, <2>1
  <2>2. CASE i > n
    <3>1. PICK j \in 2 .. Len(frames) : i = j + n - 1
      <4>1. i - n + 1 \in 2 .. Len(frames) /\ i = (i - n + 1) + n - 1
        BY <1>4, <2>2
      <4> QED BY <4>1
    <3>2. F[i] = frames[j] /\ j \in 1 .. Len(frames)
      BY <1>4, <3>1
    <3> QED BY <1>3, <3>2 DEF PathsInv
  <2> QED BY <1>4, <2>1, <2>2
<1>6. Round' = r
  BY <1>3 DEF PathsGo, Round
<1> QED BY <1>1, <1>5, <1>6

\* The pending members are.
LEMMA SavedPathed ==
  ASSUME ReaderTypes, PathsInv, Pends, entered' = entered
  PROVE  \A k \in 1 .. Len(mVariableHistory') : \A p \in Saved'[k] : OfMessage(p.path, Round')
<1>1. /\ Len(mVariableHistory) \in Nat
      /\ Saved[1] = mCurrentPendingVariables
      /\ \A k \in 2 .. Len(mVariableHistory) + 1 : Saved[k] = mVariableHistory[k - 1]
  BY Fronted DEF ReaderTypes, Saved
<1>2. /\ Saved'[1] = mCurrentPendingVariables'
      /\ \A k \in 2 .. Len(mVariableHistory) + 1 : Saved'[k] = mVariableHistory[k - 1]
  <2>1. PICK A, H : A = mCurrentPendingVariables' /\ H = mVariableHistory
    OBVIOUS
  <2>2. Saved' = <<A>> \o H
    BY <2>1 DEF Pends, Saved
  <2>3. H \in Seq({Null} \cup SUBSET Reader!PendingMember)
    BY <2>1 DEF ReaderTypes
  <2>4. (<<A>> \o H)[1] = A /\ \A k \in 2 .. Len(H) + 1 : (<<A>> \o H)[k] = H[k - 1]
    BY <2>3, Fronted
  <2> QED BY <2>1, <2>2, <2>4
<1>3. Round' = Round
  BY DEF Round
<1>4. ASSUME NEW k \in 1 .. Len(mVariableHistory), NEW p \in Saved'[k]
      PROVE  OfMessage(p.path, Round)
  <2>1. CASE k = 1
    BY <1>1, <1>2, <1>4, <2>1 DEF PathsInv, Pends
  <2>2. CASE k # 1
    <3>1. k \in 2 .. Len(mVariableHistory) + 1
      BY <1>1, <2>2
    <3>2. Saved'[k] = Saved[k]
      BY <1>1, <1>2, <3>1
    <3> QED BY <1>4, <3>2 DEF PathsInv
  <2> QED BY <2>1, <2>2
<1> QED BY <1>3, <1>4 DEF Pends

\* Both are.
LEMMA PathsOn ==
  ASSUME ReaderTypes, PathsInv, NEW new, PathsGo(new), Pends
  PROVE  PathsInv'
<1>1. \A i \in 1 .. Len(frames') : Pathed(frames'[i], Round')
  BY FramesPathed
<1>2. \A k \in 1 .. Len(mVariableHistory') : \A p \in Saved'[k] : OfMessage(p.path, Round')
  BY SavedPathed DEF PathsGo
<1> QED BY <1>1, <1>2 DEF PathsInv

\* One call, two or none.
LEMMA OnePathed ==
  ASSUME frames # <<>>, NEW f \in Reader!Frame, frames' = <<f>> \o Tail(frames), entered' = entered,
         Pathed(f, Round)
  PROVE  \E new : PathsGo(new)
<1>1. PICK n : n = <<f>>
  OBVIOUS
<1>2. n \in Seq(Reader!Frame) /\ \A i \in 1 .. Len(n) : Pathed(n[i], Round)
  BY <1>1
<1>3. PathsGo(n)
  BY <1>1, <1>2 DEF PathsGo
<1> QED BY <1>3

\* Two calls in place of the innermost.
LEMMA TwoPathed ==
  ASSUME frames # <<>>, NEW f \in Reader!Frame, NEW e \in Reader!Frame,
         frames' = <<f, e>> \o Tail(frames), entered' = entered,
         Pathed(f, Round), Pathed(e, Round)
  PROVE  \E new : PathsGo(new)
<1>1. PICK n : n = <<f, e>>
  OBVIOUS
<1>2. n \in Seq(Reader!Frame) /\ \A i \in 1 .. Len(n) : i = 1 \/ i = 2
  BY <1>1
<1>3. n[1] = f /\ n[2] = e
  BY <1>1
<1>4. PathsGo(n)
  BY <1>1, <1>2, <1>3 DEF PathsGo
<1> QED BY <1>4

\* None in its place.
LEMMA NonePathed ==
  ASSUME ReaderTypes, frames # <<>>, frames' = Tail(frames), entered' = entered
  PROVE  \E new : PathsGo(new)
<1>1. <<>> \in Seq(Reader!Frame) /\ <<>> \o Tail(frames) = Tail(frames) /\ Len(<<>>) = 0
  BY NoFrames
<1>2. PathsGo(<<>>)
  BY <1>1 DEF PathsGo
<1> QED BY <1>2

\* A call at another point is about the same message.
LEMMA ChangedPathed ==
  ASSUME NEW f \in Reader!ObjectFrames \cup Reader!SkipFrames, NEW n, Pathed(f, n),
         NEW at, NEW index, NEW type
  PROVE  /\ Pathed([f EXCEPT !.at = at], n)
         /\ Pathed([f EXCEPT !.at = at, !.index = index, !.type = type], n)
<1>1. CASE f \in Reader!ObjectFrames
  BY <1>1 DEF Reader!ObjectFrames, Pathed
<1>2. CASE f \in Reader!SkipFrames
  BY <1>2 DEF Reader!SkipFrames, Pathed
<1> QED BY <1>1, <1>2

\* Nor does a Store call change that.
LEMMA StoredPathed ==
  ASSUME NEW f \in Reader!ObjectFrames, NEW n, Pathed(f, n), NEW at
  PROVE  /\ Pathed([f EXCEPT !.todo = Tail(@)], n)
         /\ Pathed([f EXCEPT !.at = at, !.todo = Tail(@)], n)
BY DEF Reader!ObjectFrames, Pathed

\* The innermost call is about this message.
LEMMA TopPathed ==
  ASSUME ReaderTypes, PathsInv, frames # <<>>
  PROVE  Pathed(frames[1], Round)
<1>1. 1 \in 1 .. Len(frames)
  BY EmptySeq DEF ReaderTypes
<1> QED BY <1>1 DEF PathsInv

\* A call with one path.
LEMMA PathOfTop ==
  ASSUME ReaderTypes, PathsInv, frames # <<>>,
         frames[1].what \in {"object", "read", "body", "cache", "packed"}
  PROVE  OfMessage(frames[1].path, Round)
BY TopPathed DEF Pathed

\* The place of the member that is being stored.
LEMMA NowPathed ==
  ASSUME ReaderTypes, PathsInv, NEW loc, Reader!Storing(loc)
  PROVE  OfMessage(Reader!Place(Reader!Now), Round)
<1>1. Reader!AtPoint(loc) /\ Reader!Top.todo # <<>>
  BY DEF Reader!Storing
<1>2. /\ frames # <<>> /\ frames[1] \in Reader!ObjectFrames
      /\ Reader!Now.index \in 0 .. 27
      /\ Reader!Place(Reader!Now) = Append(frames[1].path, Reader!Now.index)
  BY <1>1, ObjectPoint
<1>3. OfMessage(frames[1].path, Round)
  BY <1>2, PathOfTop DEF Reader!ObjectFrames
<1>4. PICK i \in Nat : i = Reader!Now.index
  <2>1. Reader!Now.index \in 0 .. 27
    BY <1>2
  <2>2. PICK i \in 0 .. 27 : i = Reader!Now.index
    BY <2>1
  <2>3. i \in Nat
    OBVIOUS
  <2> QED BY <2>2, <2>3
<1> QED BY <1>2, <1>3, <1>4, PathGrows

\* The call that reads a member of it is.
LEMMA ReadPathed ==
  ASSUME NEW m, NEW path, NEW type, NEW n, OfMessage(path, n)
  PROVE  Pathed(Reader!ReadFrame(m, path, type), n)
BY DEF Pathed, Reader!ReadFrame

\* The innermost object goes on.
LEMMA PointPaths ==
  ASSUME ReaderTypes, PathsInv, entered' = entered,
         Reader!NoHeaderKept \/ Reader!ReadHeader \/ Reader!RemainingKept
         \/ Reader!ReadNowReturns
  PROVE  \E new : PathsGo(new)
<1>1. PICK loc : Reader!AtPoint(loc)
  BY DEF Reader!NoHeaderKept, Reader!ReadHeader, Reader!RemainingKept, Reader!ReadNowReturns,
    Reader!Remaining
<1>2. /\ frames # <<>> /\ Reader!Top = frames[1]
      /\ frames[1] \in Reader!ObjectFrames \cup Reader!SkipFrames
  BY <1>1, ObjectPoint
<1>3. PICK f : f = frames[1]
  OBVIOUS
<1>4. \/ \E at \in Reader!Locations \ {"enter"} : frames' = <<[f EXCEPT !.at = at]>> \o Tail(frames)
      \/ \E index \in 0 .. 27, type \in Reader!HeaderTypes :
           frames' = <<[f EXCEPT !.at = "found", !.index = index, !.type = type]>> \o Tail(frames)
  <2>1. CASE Reader!NoHeaderKept
    BY <1>2, <1>3, <2>1, ZenonT(40) DEF Reader!NoHeaderKept, Reader!Move, Reader!Become, Reader!Locations
  <2>2. CASE Reader!ReadNowReturns
    BY <1>2, <1>3, <2>2, ZenonT(40) DEF Reader!ReadNowReturns, Reader!Move, Reader!Become, Reader!Locations
  <2>3. CASE Reader!RemainingKept
    BY <1>2, <1>3, <2>3, ZenonT(40) DEF Reader!RemainingKept, Reader!Become, ReaderTypes
  <2>4. CASE Reader!ReadHeader
    <3>1. stream[pos].index \in 0 .. 27 /\ stream[pos].type \in Reader!HeaderTypes
      BY <1>2, <2>4, TakenHeader DEF Reader!ReadHeader
    <3> QED BY <1>2, <1>3, <2>4, <3>1, Zenon DEF Reader!ReadHeader, Reader!Become
  <2> QED BY <2>1, <2>2, <2>3, <2>4, ZenonT(40)
<1>5. f \in Reader!ObjectFrames \cup Reader!SkipFrames /\ Pathed(f, Round)
  BY <1>2, <1>3, TopPathed
<1>6. ASSUME NEW at \in Reader!Locations \ {"enter"}, frames' = <<[f EXCEPT !.at = at]>> \o Tail(frames)
      PROVE  \E new : PathsGo(new)
  <2>1. PICK e : e = [f EXCEPT !.at = at]
    OBVIOUS
  <2>2. 0 \in 0 .. 27 /\ "Terminator" \in Reader!HeaderTypes
    BY DEF Reader!HeaderTypes
  <2>3. e \in Reader!Frame
    BY <1>5, <2>1, <2>2, Changed, Zenon
  <2>4. Pathed(e, Round)
    BY <1>5, <2>1, ChangedPathed
  <2> QED BY <1>2, <1>6, <2>1, <2>3, <2>4, OnePathed
<1>7. ASSUME NEW index \in 0 .. 27, NEW type \in Reader!HeaderTypes,
             frames' = <<[f EXCEPT !.at = "found", !.index = index, !.type = type]>> \o Tail(frames)
      PROVE  \E new : PathsGo(new)
  <2>1. PICK e, at : e = [f EXCEPT !.at = at, !.index = index, !.type = type] /\ at = "found"
    OBVIOUS
  <2>2. at \in Reader!Locations \ {"enter"}
    BY <2>1 DEF Reader!Locations
  <2>3. e \in Reader!Frame
    BY <1>5, <2>1, <2>2, Changed, Zenon
  <2>4. Pathed(e, Round)
    BY <1>5, <2>1, ChangedPathed
  <2> QED BY <1>2, <1>7, <2>1, <2>3, <2>4, OnePathed
<1> QED BY <1>4, <1>6, <1>7, Zenon

\* It stores a member.
LEMMA StorePaths ==
  ASSUME ReaderTypes, PathsInv, entered' = entered,
         Reader!StoreKept \/ Reader!StoreLater \/ Reader!StoreFound \/ Reader!StoreOther
  PROVE  \E new : PathsGo(new)
<1>1. PICK loc : Reader!Storing(loc)
  BY DEF Reader!StoreKept, Reader!StoreLater, Reader!StoreFound, Reader!StoreOther
<1>2. Reader!AtPoint(loc) /\ Reader!Top.todo # <<>>
  BY <1>1 DEF Reader!Storing
<1>3. /\ frames # <<>> /\ Reader!Top = frames[1] /\ frames[1] \in Reader!ObjectFrames
      /\ Reader!Now \in Reader!Member /\ Reader!Place(Reader!Now) \in Seq(Nat)
      /\ frames[1].todo # <<>> /\ frames[1].type \in Reader!HeaderTypes
      /\ mCurrentType \in Reader!HeaderTypes
  BY <1>2, ObjectPoint DEF ReaderTypes
<1>4. PICK f, m, path : f = frames[1] /\ m = Reader!Now /\ path = Reader!Place(Reader!Now)
  OBVIOUS
<1>5. PICK d, e : d = [f EXCEPT !.todo = Tail(@)] /\ e = [f EXCEPT !.at = "store", !.todo = Tail(@)]
  OBVIOUS
<1>6. d \in Reader!Frame /\ e \in Reader!Frame /\ Pathed(d, Round) /\ Pathed(e, Round)
  <2>1. f \in Reader!ObjectFrames /\ f.todo # <<>> /\ Pathed(f, Round)
    BY <1>3, <1>4, TopPathed
  <2>2. PICK at \in Reader!Locations : at = "store"
    BY DEF Reader!Locations
  <2>3. e = [f EXCEPT !.at = at, !.todo = Tail(@)]
    BY <1>5, <2>2
  <2>d. d = [f EXCEPT !.todo = Tail(@)]
    BY <1>5
  <2>4. d \in Reader!Frame
    BY <2>1, <2>2, <2>d, Stored
  <2>6. e \in Reader!Frame
    BY <2>1, <2>2, <2>3, Stored
  <2>7. Pathed(d, Round)
    BY <2>1, <2>d, StoredPathed
  <2>5. Pathed(e, Round)
    BY <2>1, <2>3, StoredPathed
  <2> QED BY <2>4, <2>5, <2>6, <2>7
<1>7. \A type \in Reader!HeaderTypes :
        /\ Reader!ReadFrame(m, path, type) \in Reader!Frame
        /\ Pathed(Reader!ReadFrame(m, path, type), Round)
  <2>1. OfMessage(path, Round) /\ m \in Reader!Member /\ path \in Seq(Nat)
    BY <1>1, <1>3, <1>4, NowPathed
  <2> QED BY <2>1, ReadFrameType, ReadPathed
<1>8. CASE Reader!StoreLater
  <2>1. frames' = <<d>> \o Tail(frames)
    BY <1>3, <1>4, <1>5, <1>8 DEF Reader!StoreLater, Reader!Become
  <2> QED BY <1>3, <1>6, <2>1, OnePathed
<1>9. CASE Reader!StoreOther
  <2>1. frames' = <<e>> \o Tail(frames)
    BY <1>3, <1>4, <1>5, <1>9 DEF Reader!StoreOther, Reader!Become
  <2> QED BY <1>3, <1>6, <2>1, OnePathed
<1>10. CASE Reader!StoreKept
  <2>1. PICK rf : rf = Reader!ReadFrame(m, path, mCurrentType)
    OBVIOUS
  <2>2. frames' = <<rf, d>> \o Tail(frames)
    BY <1>3, <1>4, <1>5, <1>10, <2>1 DEF Reader!StoreKept
  <2>3. rf \in Reader!Frame /\ Pathed(rf, Round)
    BY <1>3, <1>7, <2>1
  <2> QED BY <1>3, <1>6, <2>2, <2>3, TwoPathed
<1>11. CASE Reader!StoreFound
  <2>1. PICK rf : rf = Reader!ReadFrame(m, path, frames[1].type)
    OBVIOUS
  <2>2. frames' = <<rf, e>> \o Tail(frames)
    BY <1>3, <1>4, <1>5, <1>11, <2>1 DEF Reader!StoreFound
  <2>3. rf \in Reader!Frame /\ Pathed(rf, Round)
    BY <1>3, <1>7, <2>1
  <2> QED BY <1>3, <1>6, <2>2, <2>3, TwoPathed
<1> QED BY <1>8, <1>9, <1>10, <1>11

\* Past the check of mCleanExit the closures at hand are of the message.
LEMMA ClosuresPathed ==
  ASSUME IInv, PathsInv, frames # <<>>, ~Entering(frames[1]), NEW p \in mCurrentPendingVariables
  PROVE  OfMessage(p.path, Round) /\ p.member \in Reader!Member /\ p.path \in Seq(Nat)
<1>1. mCleanExit /\ mCurrentPendingVariables \in SUBSET Reader!PendingMember
  BY CurrentPending
<1>2. ReaderTypes /\ mVariableHistory # <<>>
  BY <1>1 DEF IInv, BottomInv
<1>3. 1 \in 1 .. Len(mVariableHistory) /\ Saved[1] = mCurrentPendingVariables
  <2>1. mVariableHistory \in Seq({Null} \cup SUBSET Reader!PendingMember)
    BY <1>2 DEF ReaderTypes
  <2>2. Len(mVariableHistory) \in Nat \ {0}
    BY <1>2, <2>1, EmptySeq
  <2>3. Saved[1] = mCurrentPendingVariables
    BY <2>1, Fronted DEF Saved
  <2> QED BY <2>2, <2>3
<1> QED BY <1>1, <1>3 DEF PathsInv, Reader!PendingMember

\* A pending member is read on the spot, or something unknown skipped.
LEMMA CallPaths ==
  ASSUME IInv, PathsInv, entered' = entered, Reader!ReadNow \/ Reader!SkipUnknown
  PROVE  \E new : PathsGo(new)
<1>1. Reader!AtPoint("found") /\ ReaderTypes
  BY DEF Reader!ReadNow, Reader!SkipUnknown, Reader!Remaining, IInv
<1>2. /\ frames # <<>> /\ Reader!Top = frames[1] /\ frames[1].at = "found"
      /\ frames[1] \in Reader!ObjectFrames \cup Reader!SkipFrames
      /\ frames[1].type \in Reader!HeaderTypes
  BY <1>1, ObjectPoint
<1>3. PICK f : f = frames[1]
  OBVIOUS
<1>4. f \in Reader!ObjectFrames \cup Reader!SkipFrames /\ Pathed(f, Round)
  BY <1>1, <1>2, <1>3, TopPathed
<1>5. ASSUME NEW at \in Reader!Locations \ {"enter"}
      PROVE  [f EXCEPT !.at = at] \in Reader!Frame /\ Pathed([f EXCEPT !.at = at], Round)
  <2>1. 0 \in 0 .. 27 /\ "Terminator" \in Reader!HeaderTypes
    BY DEF Reader!HeaderTypes
  <2>2. [f EXCEPT !.at = at] \in Reader!Frame
    BY <1>4, <2>1, Changed, Zenon
  <2>3. Pathed([f EXCEPT !.at = at], Round)
    BY <1>4, ChangedPathed
  <2> QED BY <2>2, <2>3
<1>6. CASE Reader!ReadNow
  <2>1. PICK p \in mCurrentPendingVariables :
          frames' = <<Reader!ReadFrame(p.member, p.path, frames[1].type),
                      [frames[1] EXCEPT !.at = "returned"]>> \o Tail(frames)
    BY <1>2, <1>6 DEF Reader!ReadNow
  <2>2. OfMessage(p.path, Round) /\ p.member \in Reader!Member /\ p.path \in Seq(Nat)
    BY <1>2, ClosuresPathed DEF Entering
  <2>3. PICK m, path, type : m = p.member /\ path = p.path /\ type = frames[1].type
    OBVIOUS
  <2>4. PICK rf : rf = Reader!ReadFrame(m, path, type)
    OBVIOUS
  <2>5. rf \in Reader!Frame /\ Pathed(rf, Round)
    BY <1>2, <2>2, <2>3, <2>4, ReadFrameType, ReadPathed
  <2>6. PICK at \in Reader!Locations \ {"enter"} : at = "returned"
    BY DEF Reader!Locations
  <2>7. PICK e : e = [f EXCEPT !.at = at]
    OBVIOUS
  <2>8. frames' = <<rf, e>> \o Tail(frames)
    BY <1>3, <2>1, <2>3, <2>4, <2>6, <2>7
  <2> QED BY <1>2, <1>5, <2>5, <2>7, <2>8, TwoPathed
<1>7. CASE Reader!SkipUnknown
  <2>1. PICK u : u = Reader!UnknownFrame(frames[1].type)
    OBVIOUS
  <2>2. u \in Reader!Frame /\ Pathed(u, Round)
    BY <1>2, <2>1 DEF Reader!UnknownFrame, Reader!Frame, Reader!UnknownFrames, Pathed
  <2>6. PICK at \in Reader!Locations \ {"enter"} : at = "header"
    BY DEF Reader!Locations
  <2>7. PICK e : e = [f EXCEPT !.at = at]
    OBVIOUS
  <2>8. frames' = <<u, e>> \o Tail(frames)
    BY <1>2, <1>3, <1>7, <2>1, <2>6, <2>7 DEF Reader!SkipUnknown
  <2> QED BY <1>2, <1>5, <2>2, <2>7, <2>8, TwoPathed
<1> QED BY <1>6, <1>7

\* A call returns.
LEMMA LeavePaths ==
  ASSUME ReaderTypes, entered' = entered,
         \/ Reader!LeaveObject \/ Reader!ReadPrimitive \/ Reader!ReadPrimitiveVector
         \/ Reader!LeavePackedVector \/ Reader!SkipPrimitive \/ Reader!SkipElements
         \/ Reader!LeaveSkipped
  PROVE  \E new : PathsGo(new)
<1>1. frames # <<>> /\ frames' = Tail(frames)
  BY DEF Reader!LeaveObject, Reader!ReadPrimitive, Reader!ReadPrimitiveVector,
    Reader!LeavePackedVector, Reader!SkipPrimitive, Reader!SkipElements, Reader!LeaveSkipped,
    Reader!Leave, Reader!Running, Reader!PackedAt
<1> QED BY <1>1, NonePathed

\* Reading goes further in.
LEMMA InwardPaths ==
  ASSUME ReaderTypes, PathsInv, entered' = entered,
         \/ Reader!ReadObject \/ Reader!ReadArrayHeader \/ Reader!ReadPackedVector
         \/ Reader!SkipArrayHeader
  PROVE  \E new : PathsGo(new)
<1>1. CASE Reader!ReadObject
  <2>1. Reader!Running("read")
    BY <1>1 DEF Reader!ReadObject
  <2>2. /\ frames # <<>> /\ Reader!Top = frames[1] /\ frames[1] \in Reader!Frame
        /\ frames[1].what = "read"
    BY <2>1, ValuePoint
  <2>3. /\ frames[1].path \in Seq(Nat) /\ frames[1].member \in Reader!Member
        /\ OfMessage(frames[1].path, Round)
    BY <2>2, Kinds, PathOfTop DEF Reader!ReadFrames
  <2>4. PICK m, path, f : /\ m = frames[1].member /\ path = frames[1].path
                          /\ f = Reader!ObjectFrame(m.class, path)
    OBVIOUS
  <2>5. f \in Reader!Frame
    BY <2>3, <2>4, ObjectFrameType
  <2>6. Pathed(f, Round)
    BY <2>3, <2>4 DEF Pathed, Reader!ObjectFrame
  <2>7. frames' = <<f>> \o Tail(frames)
    BY <1>1, <2>2, <2>4 DEF Reader!ReadObject, Reader!Become
  <2> QED BY <2>2, <2>5, <2>6, <2>7, OnePathed
<1>2. CASE Reader!ReadArrayHeader
  <2>1. Reader!Running("read") /\ Reader!Got /\ Reader!Top.type = "Array"
    BY <1>2 DEF Reader!ReadArrayHeader
  <2>2. /\ frames # <<>> /\ Reader!Top = frames[1] /\ frames[1] \in Reader!Frame
        /\ frames[1].what = "read"
    BY <2>1, ValuePoint
  <2>3. /\ frames[1].path \in Seq(Nat) /\ frames[1].member \in Reader!Member
        /\ OfMessage(frames[1].path, Round)
    BY <2>2, Kinds, PathOfTop DEF Reader!ReadFrames
  <2>4. /\ stream[pos].index \in 0 .. 27 /\ stream[pos].type \in Reader!HeaderTypes
        /\ stream[pos + 1].n \in Nat
    BY <2>1, <2>2, TakenArray
  <2>5. PICK f : f = Reader!BodyFrame(frames[1].member, frames[1].path, stream[pos].index,
                                      stream[pos].type, stream[pos + 1].n)
    OBVIOUS
  <2>6. f \in Reader!Frame /\ Pathed(f, Round)
    BY <2>3, <2>4, <2>5 DEF Reader!BodyFrame, Reader!Frame, Reader!BodyFrames, Pathed
  <2>7. frames' = <<f>> \o Tail(frames)
    BY <1>2, <2>2, <2>5 DEF Reader!ReadArrayHeader, Reader!Become
  <2> QED BY <2>2, <2>6, <2>7, OnePathed
<1>3. CASE Reader!ReadPackedVector
  <2>1. Reader!Running("body")
    BY <1>3 DEF Reader!ReadPackedVector
  <2>2. /\ frames # <<>> /\ Reader!Top = frames[1] /\ frames[1] \in Reader!Frame
        /\ frames[1].what = "body"
    BY <2>1, ValuePoint
  <2>3. /\ frames[1].path \in Seq(Nat) /\ frames[1].member \in Reader!Member /\ frames[1].n \in Nat
        /\ OfMessage(frames[1].path, Round)
    BY <2>2, Kinds, PathOfTop DEF Reader!BodyFrames
  <2>5. PICK f : f = Reader!CacheFrame(frames[1].member.class, frames[1].path, frames[1].n, <<>>)
    OBVIOUS
  <2>6. f \in Reader!Frame /\ Pathed(f, Round)
    BY <2>3, <2>5 DEF Reader!CacheFrame, Reader!Frame, Reader!CacheFrames, Pathed, Reader!Member
  <2>7. frames' = <<f>> \o Tail(frames)
    BY <1>3, <2>2, <2>5 DEF Reader!ReadPackedVector, Reader!Become
  <2> QED BY <2>2, <2>6, <2>7, OnePathed
<1>4. CASE Reader!SkipArrayHeader
  <2>1. Reader!Running("unknown") /\ Reader!Got /\ Reader!Top.type = "Array"
    BY <1>4 DEF Reader!SkipArrayHeader
  <2>2. frames # <<>>
    BY <2>1, ValuePoint
  <2>4. stream[pos].type \in Reader!HeaderTypes /\ stream[pos + 1].n \in Nat
    BY <2>1, <2>2, TakenArray
  <2>5. PICK f : f = Reader!SkipArrayFrame(stream[pos].type, stream[pos + 1].n)
    OBVIOUS
  <2>6. f \in Reader!Frame /\ Pathed(f, Round)
    BY <2>4, <2>5 DEF Reader!SkipArrayFrame, Reader!Frame, Reader!SkipArrayFrames, Pathed
  <2>7. frames' = <<f>> \o Tail(frames)
    BY <1>4, <2>5 DEF Reader!SkipArrayHeader, Reader!Become
  <2> QED BY <2>2, <2>6, <2>7, OnePathed
<1> QED BY <1>1, <1>2, <1>3, <1>4

\* Some of a kind.
LEMMA SeveralPathed ==
  ASSUME frames # <<>>, NEW n \in Nat, NEW new, new = [k \in 1 .. n |-> new[k]],
         \A k \in 1 .. n : new[k] \in Reader!Frame /\ Pathed(new[k], Round),
         frames' = new \o Tail(frames), entered' = entered
  PROVE  \E s : PathsGo(s)
<1>1. new \in Seq(Reader!Frame) /\ Len(new) = n
  BY SeveralFrames
<1>2. PathsGo(new)
  BY <1>1 DEF PathsGo
<1> QED BY <1>2

\* The calls that read a vector of objects are.
LEMMA ManyPaths ==
  ASSUME ReaderTypes, PathsInv, entered' = entered, Reader!ReadObjectVector
  PROVE  \E s : PathsGo(s)
<1>1. Reader!Running("body")
  BY DEF Reader!ReadObjectVector
<1>2. /\ frames # <<>> /\ Reader!Top = frames[1] /\ frames[1] \in Reader!Frame
      /\ frames[1].what = "body"
  BY <1>1, ValuePoint
<1>3. /\ frames[1].member \in Reader!Member /\ frames[1].path \in Seq(Nat)
      /\ frames[1].n \in Nat /\ OfMessage(frames[1].path, Round)
  BY <1>2, Kinds, PathOfTop DEF Reader!BodyFrames
<1> DEFINE new == [k \in 1 .. frames[1].n |->
                     Reader!ObjectFrame(frames[1].member.class, Append(frames[1].path, k))]
<1>4. ASSUME NEW k \in 1 .. frames[1].n
      PROVE  new[k] \in Reader!Frame /\ Pathed(new[k], Round)
  <2>1. PICK j \in Nat : j = k
    BY <1>3
  <2>2. PICK path : path = Append(frames[1].path, j)
    OBVIOUS
  <2>3. OfMessage(path, Round) /\ path \in Seq(Nat)
    BY <1>3, <2>2, PathGrows, ZenonT(40) DEF OfMessage
  <2>4. PICK m : m = frames[1].member
    OBVIOUS
  <2>5. Reader!ObjectFrame(m.class, path) \in Reader!Frame
    BY <1>3, <2>3, <2>4, ObjectFrameType
  <2>6. Pathed(Reader!ObjectFrame(m.class, path), Round)
    BY <2>3 DEF Pathed, Reader!ObjectFrame
  <2> QED BY <2>1, <2>2, <2>4, <2>5, <2>6
<1>5. frames' = new \o Tail(frames)
  BY <1>2 DEF Reader!ReadObjectVector
<1>6. new = [k \in 1 .. frames[1].n |-> new[k]]
  OBVIOUS
<1> HIDE DEF new
<1> QED BY <1>2, <1>3, <1>4, <1>5, <1>6, SeveralPathed

\* Those that skip objects have no path.
LEMMA SkipPaths ==
  ASSUME ReaderTypes, entered' = entered, Reader!SkipObjects
  PROVE  \E s : PathsGo(s)
<1>1. Reader!Running("unknown") \/ Reader!Running("skipArray")
  BY DEF Reader!SkipObjects
<1>2. frames # <<>> /\ Reader!Top = frames[1] /\ frames[1] \in Reader!Frame
  BY <1>1, ValuePoint
<1> DEFINE n == Reader!SkipCount
           new == [k \in 1 .. n |-> Reader!SkipFrame(Reader!Clears(k))]
<1>3. n \in Nat
  <2>1. Reader!Running("skipArray") => Reader!Top.n \in Nat
    BY <1>2, Kinds DEF Reader!Running, Reader!SkipArrayFrames
  <2> QED
    BY <2>1 DEF Reader!SkipCount, Reader!Running
<1>4. ASSUME NEW k \in 1 .. n
      PROVE  new[k] \in Reader!Frame /\ Pathed(new[k], Round)
  <2>1. Reader!Clears(k) \in BOOLEAN
    BY DEF Reader!Clears
  <2>2. Reader!SkipFrame(Reader!Clears(k)) \in Reader!Frame
    BY <2>1 DEF Reader!SkipFrame, Reader!Frame, Reader!SkipFrames, Reader!Locations,
      Reader!HeaderTypes
  <2> QED
    BY <2>2 DEF Reader!SkipFrame, Pathed
<1>5. frames' = new \o Tail(frames)
  BY DEF Reader!SkipObjects
<1>7. new = [k \in 1 .. n |-> new[k]]
  OBVIOUS
<1> HIDE DEF n, new
<1> QED BY <1>2, <1>3, <1>4, <1>5, <1>7, SeveralPathed

\* A call that is put in front is a frame, if all are.
LEMMA FirstIsFrame ==
  ASSUME ReaderTypes, ReaderTypes', frames # <<>>, NEW f, frames' = <<f>> \o Tail(frames)
  PROVE  f \in Reader!Frame
<1>1. Tail(frames) \in Seq(Reader!Frame)
  BY HeadTailProperties DEF ReaderTypes
<1>2. PICK F : F = frames'
  OBVIOUS
<1>3. F[1] = f /\ Len(F) >= 1
  BY <1>1, <1>2, Fronted
<1>4. F \in Seq(Reader!Frame)
  BY <1>2 DEF ReaderTypes
<1> QED BY <1>3, <1>4, ElementOfSeq

\* The two innermost calls are calls.
LEMMA FirstAreFrames ==
  ASSUME ReaderTypes, ReaderTypes', frames # <<>>, NEW f, NEW e, frames' = <<f, e>> \o Tail(frames)
  PROVE  f \in Reader!Frame /\ e \in Reader!Frame
<1>1. PICK t \in Seq(Reader!Frame) : t = Tail(frames)
  BY HeadTailProperties DEF ReaderTypes
<1>2. PICK F : F = <<f, e>> \o t
  OBVIOUS
<1>3. F \in Seq(Reader!Frame)
  BY <1>1, <1>2 DEF ReaderTypes
<1>4. F[1] = f /\ F[2] = e /\ Len(F) >= 2
  <2>1. Len(t) \in Nat
    BY LenProperties
  <2> QED BY <1>2, <2>1
<1> QED BY <1>3, <1>4, ElementOfSeq

\* A packed vector goes on.
LEMMA PackedPaths ==
  ASSUME IInv, ReaderTypes', PathsInv, entered' = entered,
         \/ Reader!CacheHeaders \/ Reader!NextElement \/ Reader!StoreMissing
         \/ Reader!StorePending \/ Reader!ReadPendingReturns \/ Reader!PassHeader
         \/ Reader!ElementRead
  PROVE  \E new : PathsGo(new)
<1>1. ReaderTypes
  BY DEF IInv
<1>2. /\ frames # <<>> /\ Reader!Top = frames[1] /\ frames[1].what \in {"cache", "packed"}
      /\ frames[1] \in Reader!CacheFrames \cup Reader!PackedFrames
  <2>1. \/ Reader!Running("cache") \/ \E locs : Reader!PackedAt(locs)
    BY DEF Reader!CacheHeaders, Reader!NextElement, Reader!StoreMissing, Reader!StorePending,
      Reader!ReadPendingReturns, Reader!PassHeader, Reader!ElementRead
  <2>2. frames # <<>> /\ Reader!Top.what \in {"cache", "packed"}
    BY <2>1 DEF Reader!Running, Reader!PackedAt
  <2> QED BY <1>1, <2>2, TopType, Kinds
<1>3. \E f : /\ frames' = <<f>> \o Tail(frames)
             /\ f.what \in {"cache", "packed"} /\ f.path = frames[1].path
  <2>1. CASE Reader!CacheHeaders
    <3>1. frames[1] \in Reader!CacheFrames
      <4>1. frames[1].what = "cache"
        BY <1>2, <2>1 DEF Reader!CacheHeaders, Reader!Running
      <4> QED BY <1>2, <4>1 DEF Reader!PackedFrames
    <3>2. CASE stream[pos].type = "Terminator"
      <4>1. PICK f : f = Reader!PackedFrame(frames[1].class, frames[1].path, frames[1].n,
                                            frames[1].headers)
        OBVIOUS
      <4>2. f.what \in {"cache", "packed"} /\ f.path = frames[1].path
        BY <4>1 DEF Reader!PackedFrame
      <4>3. frames' = <<f>> \o Tail(frames)
        BY <1>2, <2>1, <3>2, <4>1 DEF Reader!CacheHeaders, Reader!Become
      <4> QED BY <4>2, <4>3
    <3>3. CASE stream[pos].type # "Terminator"
      <4>1. PICK f : f = [frames[1] EXCEPT !.headers = Append(@, stream[pos])]
        OBVIOUS
      <4>2. f.what \in {"cache", "packed"} /\ f.path = frames[1].path
        BY <3>1, <4>1 DEF Reader!CacheFrames
      <4>3. frames' = <<f>> \o Tail(frames)
        BY <1>2, <2>1, <3>3, <4>1 DEF Reader!CacheHeaders, Reader!Become
      <4> QED BY <4>2, <4>3
    <3> QED BY <3>2, <3>3
  <2>2. CASE ~Reader!CacheHeaders
    <3>1. frames[1] \in Reader!PackedFrames
      BY <1>2, <2>2, Zenon DEF Reader!NextElement, Reader!StoreMissing, Reader!StorePending,
        Reader!ReadPendingReturns, Reader!PassHeader, Reader!ElementRead, Reader!PackedAt,
        Reader!Running, Reader!CacheFrames
    <3>2. CASE Reader!NextElement
      <4>1. PICK f : f = [frames[1] EXCEPT !.at = "store", !.k = @ + 1,
                            !.todo = Members[frames[1].class], !.h = 1, !.pending = Reader!Cleared]
        OBVIOUS
      <4>2. f.what = "packed" /\ f.path = frames[1].path
        BY <3>1, <4>1 DEF Reader!PackedFrames
      <4>3. frames' = <<f>> \o Tail(frames)
        BY <1>2, <3>2, <4>1 DEF Reader!NextElement, Reader!Become
      <4> QED BY <4>2, <4>3
    <3>3. CASE Reader!StoreMissing
      <4>1. PICK f : f = [frames[1] EXCEPT !.todo = Tail(@)]
        OBVIOUS
      <4>2. f.what = "packed" /\ f.path = frames[1].path
        BY <3>1, <4>1 DEF Reader!PackedFrames
      <4>3. frames' = <<f>> \o Tail(frames)
        BY <1>2, <3>3, <4>1 DEF Reader!StoreMissing, Reader!Become
      <4> QED BY <4>2, <4>3
    <3>4. CASE Reader!StorePending
      <4>1. PICK f : f = [frames[1] EXCEPT !.todo = Tail(@), !.at = "store",
               !.pending = @ \cup {Reader!Pending(Reader!Now, Append(Reader!Element, Reader!Now.index))}]
        OBVIOUS
      <4>2. f.what = "packed" /\ f.path = frames[1].path
        BY <3>1, <4>1 DEF Reader!PackedFrames
      <4>3. frames' = <<f>> \o Tail(frames)
        BY <1>2, <3>4, <4>1 DEF Reader!StorePending, Reader!Become
      <4> QED BY <4>2, <4>3
    <3>5. CASE Reader!ReadPendingReturns
      <4>1. PICK f : f = [frames[1] EXCEPT !.at = "drain", !.h = @ + 1,
                                           !.pending = @ \ Reader!NextPending]
        OBVIOUS
      <4>2. f.what = "packed" /\ f.path = frames[1].path
        BY <3>1, <4>1 DEF Reader!PackedFrames
      <4>3. frames' = <<f>> \o Tail(frames)
        BY <1>2, <3>5, <4>1 DEF Reader!ReadPendingReturns, Reader!Become
      <4> QED BY <4>2, <4>3
    <3>6. CASE Reader!PassHeader
      <4>1. PICK f : f = [frames[1] EXCEPT !.h = @ + 1]
        OBVIOUS
      <4>2. f.what = "packed" /\ f.path = frames[1].path
        BY <3>1, <4>1 DEF Reader!PackedFrames
      <4>3. frames' = <<f>> \o Tail(frames)
        BY <1>2, <3>6, <4>1 DEF Reader!PassHeader, Reader!Become
      <4> QED BY <4>2, <4>3
    <3>7. CASE Reader!ElementRead
      <4>1. PICK f : f = [frames[1] EXCEPT !.at = "next"]
        OBVIOUS
      <4>2. f.what = "packed" /\ f.path = frames[1].path
        BY <3>1, <4>1 DEF Reader!PackedFrames
      <4>3. frames' = <<f>> \o Tail(frames)
        BY <1>2, <3>7, <4>1 DEF Reader!ElementRead, Reader!Move, Reader!Become
      <4> QED BY <4>2, <4>3
    <3> QED BY <2>2, <3>2, <3>3, <3>4, <3>5, <3>6, <3>7
  <2> QED BY <2>1, <2>2
<1>4. PICK f : /\ frames' = <<f>> \o Tail(frames)
               /\ f.what \in {"cache", "packed"} /\ f.path = frames[1].path
  BY <1>3
<1>5. f \in Reader!Frame
  BY <1>1, <1>2, <1>4, FirstIsFrame
<1>6. Pathed(f, Round)
  <2>1. OfMessage(frames[1].path, Round)
    BY <1>1, <1>2, PathOfTop
  <2> QED BY <1>4, <2>1 DEF Pathed
<1> QED BY <1>2, <1>4, <1>5, <1>6, OnePathed

\* A member of an element is read.
LEMMA ElementPaths ==
  ASSUME IInv, ReaderTypes', PathsInv, entered' = entered, Reader!StoreNext \/ Reader!ReadPending
  PROVE  \E new : PathsGo(new)
<1>1. ReaderTypes
  BY DEF IInv
<1>2. /\ frames # <<>> /\ Reader!Top = frames[1] /\ frames[1] \in Reader!PackedFrames
      /\ frames[1].what = "packed" /\ frames[1].at # "next" /\ PendingFits(frames[1])
  <2>1. Reader!PackedAt({"store", "drain"})
    BY DEF Reader!StoreNext, Reader!ReadPending
  <2> QED BY <2>1, PackedPoint
<1>3. OfMessage(frames[1].path, Round) /\ frames[1].k \in Nat
  BY <1>1, <1>2, PathOfTop DEF Reader!PackedFrames
<1>4. \A i \in Nat : OfMessage(Append(Append(frames[1].path, frames[1].k), i), Round)
  <2>0. PICK path : path = frames[1].path
    OBVIOUS
  <2>1. PICK k \in Nat : k = frames[1].k
    BY <1>3
  <2>2. OfMessage(Append(path, k), Round)
    BY <1>3, <2>0, PathGrows
  <2>3. PICK q : q = Append(path, k)
    OBVIOUS
  <2>4. \A i \in Nat : OfMessage(Append(q, i), Round)
    BY <2>2, <2>3, PathGrows
  <2> QED BY <2>0, <2>1, <2>3, <2>4
<1>5. \E f, e : /\ frames' = <<f, e>> \o Tail(frames)
                /\ f.what = "read" /\ OfMessage(f.path, Round)
                /\ e.what = "packed" /\ e.path = frames[1].path
  <2>1. CASE Reader!StoreNext
    <3>1. Reader!Now \in Reader!Member /\ Reader!Element = Append(frames[1].path, frames[1].k)
      BY <1>2, <2>1, PackedMember DEF Reader!StoreNext
    <3>2. Reader!Now.index \in Nat
      BY <3>1, MemberIndex
    <3>3. PICK f, e :
            /\ f = Reader!ReadFrame(Reader!Now, Append(Reader!Element, Reader!Now.index),
                                    Reader!NextHeader.type)
            /\ e = [frames[1] EXCEPT !.todo = Tail(@), !.h = Reader!PassedHeader, !.at = "store"]
      OBVIOUS
    <3>4. frames' = <<f, e>> \o Tail(frames)
      BY <1>2, <2>1, <3>3 DEF Reader!StoreNext
    <3>5. f.what = "read" /\ OfMessage(f.path, Round)
      BY <1>4, <3>1, <3>2, <3>3 DEF Reader!ReadFrame
    <3>6. e.what = "packed" /\ e.path = frames[1].path
      BY <1>2, <3>3 DEF Reader!PackedFrames
    <3> QED BY <3>4, <3>5, <3>6
  <2>2. CASE Reader!ReadPending
    <3>1. PICK p \in Reader!NextPending :
            frames' = <<Reader!ReadFrame(p.member, p.path, Reader!NextHeader.type),
                        [frames[1] EXCEPT !.at = "returned"]>> \o Tail(frames)
      BY <1>2, <2>2 DEF Reader!ReadPending
    <3>2. p \in frames[1].pending /\ p \in Reader!PendingMember
      BY <1>2, <3>1 DEF Reader!NextPending, Reader!PackedFrames
    <3>3. p.member.index \in Nat
      BY <3>2, MemberIndex DEF Reader!PendingMember
    <3>4. OfMessage(p.path, Round)
      BY <1>2, <1>4, <3>2, <3>3 DEF PendingFits
    <3>5. PICK f, e : /\ f = Reader!ReadFrame(p.member, p.path, Reader!NextHeader.type)
                      /\ e = [frames[1] EXCEPT !.at = "returned"]
      OBVIOUS
    <3>6. frames' = <<f, e>> \o Tail(frames)
      BY <3>1, <3>5
    <3>7. f.what = "read" /\ OfMessage(f.path, Round)
      BY <3>4, <3>5 DEF Reader!ReadFrame
    <3>8. e.what = "packed" /\ e.path = frames[1].path
      BY <1>2, <3>5 DEF Reader!PackedFrames
    <3> QED BY <3>6, <3>7, <3>8
  <2> QED BY <2>1, <2>2
<1>6. PICK f, e : /\ frames' = <<f, e>> \o Tail(frames)
                  /\ f.what = "read" /\ OfMessage(f.path, Round)
                  /\ e.what = "packed" /\ e.path = frames[1].path
  BY <1>5
<1>7. f \in Reader!Frame /\ e \in Reader!Frame
  BY <1>1, <1>2, <1>6, FirstAreFrames
<1>8. Pathed(f, Round) /\ Pathed(e, Round)
  BY <1>3, <1>6 DEF Pathed
<1> QED BY <1>2, <1>6, <1>7, <1>8, TwoPathed

\* Closures are of members that were being stored.
LEMMA MostPend ==
  ASSUME mCurrentPendingVariables' = mCurrentPendingVariables, mVariableHistory' = mVariableHistory
  PROVE  Pends
BY DEF Pends

\* A member that becomes pending is one of this message.
LEMMA AddPends ==
  ASSUME ReaderTypes, PathsInv, Reader!StoreLater \/ Reader!StoreOther
  PROVE  Pends
<1>1. PICK loc : Reader!Storing(loc)
  BY DEF Reader!StoreLater, Reader!StoreOther
<1>2. OfMessage(Reader!Place(Reader!Now), Round)
  BY <1>1, NowPathed
<1>3. /\ mVariableHistory' = mVariableHistory
      /\ mCurrentPendingVariables' =
           mCurrentPendingVariables \cup {Reader!Pending(Reader!Now, Reader!Place(Reader!Now))}
  BY DEF Reader!StoreLater, Reader!StoreOther, Reader!AddPending
<1>4. Reader!Pending(Reader!Now, Reader!Place(Reader!Now)).path = Reader!Place(Reader!Now)
  BY DEF Reader!Pending
<1> QED BY <1>2, <1>3, <1>4 DEF Pends

\* Removing one changes nothing of that.
LEMMA ClearPends ==
  ASSUME Reader!ReadNowReturns
  PROVE  Pends
BY DEF Reader!ReadNowReturns, Reader!ClearPending, Pends

\* The steps that change neither closures nor arrays.
LEMMA OthersPend ==
  ASSUME Reader!Step, ~Throws, ~Reader!LeaveObject, ~Reader!StoreEntryPoint,
         ~Reader!StoreLater, ~Reader!StoreOther, ~Reader!ReadNowReturns
  PROVE  Pends
<1>2. CASE \/ Reader!StoreKept \/ Reader!NoHeaderKept \/ Reader!ReadHeader
           \/ Reader!ReadNow \/ Reader!StoreFound \/ Reader!RemainingKept \/ Reader!SkipUnknown
  BY <1>2, MostPend DEF Reader!StoreKept, Reader!NoHeaderKept, Reader!ReadHeader,
    Reader!ReadNow, Reader!StoreFound, Reader!RemainingKept, Reader!SkipUnknown,
    Reader!messageVars, Reader!arrays
<1>3. CASE \/ Reader!ReadPrimitive \/ Reader!ReadObject \/ Reader!ReadArrayHeader
           \/ Reader!ReadPrimitiveVector \/ Reader!ReadObjectVector
           \/ Reader!ReadPackedVector \/ Reader!SkipPrimitive \/ Reader!SkipArrayHeader
           \/ Reader!SkipElements \/ Reader!SkipObjects \/ Reader!LeaveSkipped
  BY <1>3, MostPend DEF Reader!ReadPrimitive, Reader!ReadObject, Reader!ReadArrayHeader,
    Reader!ReadPrimitiveVector, Reader!ReadObjectVector, Reader!ReadPackedVector,
    Reader!SkipPrimitive, Reader!SkipArrayHeader, Reader!SkipElements, Reader!SkipObjects,
    Reader!LeaveSkipped, Reader!messageVars, Reader!arrays
<1>4. CASE \/ Reader!CacheHeaders \/ Reader!NextElement \/ Reader!LeavePackedVector
           \/ Reader!StoreMissing \/ Reader!StoreNext \/ Reader!StorePending
           \/ Reader!ReadPending \/ Reader!ReadPendingReturns \/ Reader!PassHeader
           \/ Reader!ElementRead
  BY <1>4, MostPend DEF Reader!CacheHeaders, Reader!NextElement, Reader!LeavePackedVector,
    Reader!StoreMissing, Reader!StoreNext, Reader!StorePending, Reader!ReadPending,
    Reader!ReadPendingReturns, Reader!PassHeader, Reader!ElementRead, Reader!messageVars
<1> QED
  BY <1>2, <1>3, <1>4, Zenon DEF Reader!Step, Throws

\* An object begins, with an array of its own.
LEMMA BeginPaths ==
  ASSUME ReaderTypes, PathsInv, entered' = entered, Reader!StoreEntryPoint
  PROVE  PathsInv'
<1>1. Reader!AtPoint("enter")
  BY DEF Reader!StoreEntryPoint
<1>2. /\ frames # <<>> /\ Reader!Top = frames[1] /\ frames[1].at = "enter"
      /\ frames[1] \in Reader!ObjectFrames \cup Reader!SkipFrames
  BY <1>1, ObjectPoint
<1>3. PICK f, at : f = [frames[1] EXCEPT !.at = at] /\ at = "store"
  BY Zenon
<1>4. at \in Reader!Locations \ {"enter"} /\ 0 \in 0 .. 27 /\ "Terminator" \in Reader!HeaderTypes
  BY <1>3 DEF Reader!Locations, Reader!HeaderTypes
<1>5. f \in Reader!Frame
  BY <1>2, <1>3, <1>4, Changed, Zenon
<1>6. Pathed(f, Round)
  <2>1. Pathed(frames[1], Round)
    BY <1>2, TopPathed
  <2> QED BY <1>2, <1>3, <2>1, ChangedPathed
<1>7. frames' = <<f>> \o Tail(frames)
  BY <1>2, <1>3 DEF Reader!StoreEntryPoint, Reader!Move, Reader!Become
<1>8. PICK new : PathsGo(new)
  BY <1>2, <1>5, <1>6, <1>7, OnePathed
<1>9. \A i \in 1 .. Len(frames') : Pathed(frames'[i], Round')
  BY <1>8, FramesPathed
<1>10. \A k \in 1 .. Len(mVariableHistory') : \A p \in Saved'[k] : OfMessage(p.path, Round')
  <2>1. PICK C, H, K : C = mCurrentPendingVariables /\ H = mVariableHistory /\ K = mVariableHistory'
    OBVIOUS
  <2>2. H \in Seq({Null} \cup SUBSET Reader!PendingMember)
    BY <2>1 DEF ReaderTypes
  <2>3. K = <<C>> \o H /\ mCurrentPendingVariables' = {}
    BY <2>1 DEF Reader!StoreEntryPoint
  <2>4. C \in {Null} \cup SUBSET Reader!PendingMember
    BY <2>1 DEF ReaderTypes
  <2>5. K \in Seq({Null} \cup SUBSET Reader!PendingMember) /\ Len(H) \in Nat /\ Len(K) = Len(H) + 1
    <3>1. <<C>> \in Seq({Null} \cup SUBSET Reader!PendingMember)
      BY <2>4
    <3>2. <<C>> \o H \in Seq({Null} \cup SUBSET Reader!PendingMember)
      BY <2>2, <3>1, ConcatProperties
    <3> QED BY <2>2, <2>3, <3>2, Fronted
  <2>6. Saved' = <<{}>> \o K
    BY <2>1, <2>3 DEF Saved
  <2>7. /\ (<<{}>> \o K)[1] = {}
        /\ \A k \in 2 .. Len(K) + 1 : (<<{}>> \o K)[k] = K[k - 1]
    BY <2>5, Fronted
  <2>8. K = Saved
    BY <2>1, <2>3 DEF Saved
  <2>9. Round' = Round
    BY DEF Round
  <2>10. ASSUME NEW k \in 1 .. Len(K), NEW p \in Saved'[k]
         PROVE  OfMessage(p.path, Round')
    <3>1. k # 1
      BY <2>6, <2>7, <2>10
    <3>2. PICK j \in 1 .. Len(H) : k = j + 1
      <4>1. k - 1 \in 1 .. Len(H) /\ k = (k - 1) + 1
        BY <2>5, <3>1
      <4> QED BY <4>1
    <3>3. k \in 2 .. Len(K) + 1 /\ k - 1 = j
      BY <2>5, <3>1, <3>2
    <3>4. Saved'[k] = Saved[j]
      BY <2>6, <2>7, <2>8, <3>3
    <3> QED BY <2>1, <2>9, <2>10, <3>2, <3>4 DEF PathsInv
  <2> QED BY <2>1, <2>10
<1> QED BY <1>9, <1>10 DEF PathsInv

\* It ends, and that of the object around it is back.
LEMMA EndPaths ==
  ASSUME ReaderTypes, PathsInv, entered' = entered, Reader!LeaveObject
  PROVE  PathsInv'
<1>1. PICK new : PathsGo(new)
  BY LeavePaths
<1>2. \A i \in 1 .. Len(frames') : Pathed(frames'[i], Round')
  BY <1>1, FramesPathed
<1>3. \A k \in 1 .. Len(mVariableHistory') : \A p \in Saved'[k] : OfMessage(p.path, Round')
  <2>1. PICK C, H : C = mCurrentPendingVariables /\ H = mVariableHistory
    OBVIOUS
  <2>2. H \in Seq({Null} \cup SUBSET Reader!PendingMember)
    BY <2>1 DEF ReaderTypes
  <2>3. mCurrentPendingVariables' = Head(H) /\ mVariableHistory' = Tail(H)
    BY <2>1 DEF Reader!LeaveObject, Reader!PopHistory
  <2>4. Round' = Round
    BY DEF Round
  <2>5. CASE H = <<>>
    <3>1. Tail(H) = <<>>
      BY <2>5
    <3>2. Len(mVariableHistory') = 0
      BY <2>3, <3>1
    <3> QED BY <3>2
  <2>6. CASE H # <<>>
    <3>1. PICK t : t = Tail(H)
      OBVIOUS
    <3>2. /\ t \in Seq({Null} \cup SUBSET Reader!PendingMember) /\ Len(H) \in Nat
          /\ Len(t) = Len(H) - 1 /\ H = <<Head(H)>> \o t
      <4>1. Len(H) \in Nat \ {0}
        BY <2>2, <2>6, EmptySeq
      <4> QED BY <2>2, <2>6, <3>1, <4>1, HeadTailProperties
    <3>3. Saved' = H
      BY <2>3, <3>1, <3>2 DEF Saved
    <3>4. \A k \in 2 .. Len(H) + 1 : Saved[k] = H[k - 1]
      BY <2>1, <2>2, Fronted DEF Saved
    <3>5. ASSUME NEW k \in 1 .. Len(t), NEW p \in Saved'[k]
          PROVE  OfMessage(p.path, Round')
      <4>1. PICK j \in 1 .. Len(H) : j = k + 1
        <5>1. k + 1 \in 1 .. Len(H)
          BY <3>2
        <5> QED BY <5>1
      <4>2. j \in 2 .. Len(H) + 1 /\ j - 1 = k
        BY <3>2, <4>1
      <4>3. Saved[j] = H[k]
        BY <3>4, <4>2
      <4> QED BY <2>1, <2>4, <3>3, <3>5, <4>3 DEF PathsInv
    <3> QED BY <2>3, <3>1, <3>5
  <2> QED BY <2>5, <2>6
<1> QED BY <1>2, <1>3 DEF PathsInv

\* Every step but an exception keeps it so.
LEMMA PathsStep ==
  ASSUME IInv, IInv', PathsInv, Reader!Step, ~Throws
  PROVE  PathsInv'
<1>1. ReaderTypes /\ ReaderTypes' /\ entered' = entered
  BY StepQuiet DEF IInv
<1>2. CASE Reader!StoreEntryPoint
  BY <1>1, <1>2, BeginPaths
<1>3. CASE Reader!LeaveObject
  BY <1>1, <1>3, EndPaths
<1>4. CASE ~Reader!StoreEntryPoint /\ ~Reader!LeaveObject
  <2>1. Pends
    BY <1>1, <1>4, AddPends, ClearPends, OthersPend
  <2>2. \E new : PathsGo(new)
    <3>1. CASE \/ Reader!StoreKept \/ Reader!StoreLater \/ Reader!NoHeaderKept \/ Reader!ReadHeader
               \/ Reader!ReadNow \/ Reader!ReadNowReturns \/ Reader!StoreFound
               \/ Reader!StoreOther \/ Reader!RemainingKept \/ Reader!SkipUnknown
      BY <1>1, <3>1, PointPaths, StorePaths, CallPaths, Zenon
    <3>2. CASE \/ Reader!ReadPrimitive \/ Reader!ReadObject \/ Reader!ReadArrayHeader
               \/ Reader!ReadPrimitiveVector \/ Reader!ReadObjectVector
               \/ Reader!ReadPackedVector \/ Reader!SkipPrimitive \/ Reader!SkipArrayHeader
               \/ Reader!SkipElements \/ Reader!SkipObjects \/ Reader!LeaveSkipped
      BY <1>1, <3>2, LeavePaths, InwardPaths, ManyPaths, SkipPaths, Zenon
    <3>3. CASE \/ Reader!CacheHeaders \/ Reader!NextElement \/ Reader!LeavePackedVector
               \/ Reader!StoreMissing \/ Reader!StoreNext \/ Reader!StorePending
               \/ Reader!ReadPending \/ Reader!ReadPendingReturns \/ Reader!PassHeader
               \/ Reader!ElementRead
      BY <1>1, <3>3, LeavePaths, PackedPaths, ElementPaths, Zenon
    <3> QED BY <1>4, <3>1, <3>2, <3>3, Zenon DEF Reader!Step, Throws
  <2> QED BY <1>1, <2>1, <2>2, PathsOn
<1> QED BY <1>2, <1>3, <1>4

\* Nothing changes what has been read but the reading of values.
LEMMA ResultStays ==
  ASSUME Reader!Step, ~Reader!ReadPrimitive, ~Reader!ReadPrimitiveVector
  PROVE  result' = result
<1>1. CASE Throws
  BY <1>1 DEF Throws, Reader!RefuseReuse, Reader!RejectType, Reader!FillReadBufferFails,
    Reader!Throw
<1>2. CASE \/ Reader!StoreEntryPoint \/ Reader!LeaveObject \/ Reader!StoreKept
           \/ Reader!StoreLater \/ Reader!NoHeaderKept \/ Reader!ReadHeader
           \/ Reader!ReadNow \/ Reader!ReadNowReturns \/ Reader!StoreFound
           \/ Reader!StoreOther \/ Reader!RemainingKept \/ Reader!SkipUnknown
  BY <1>2 DEF Reader!StoreEntryPoint, Reader!LeaveObject, Reader!StoreKept, Reader!StoreLater,
    Reader!NoHeaderKept, Reader!ReadHeader, Reader!ReadNow, Reader!ReadNowReturns,
    Reader!StoreFound, Reader!StoreOther, Reader!RemainingKept, Reader!SkipUnknown
<1>3. CASE \/ Reader!ReadObject \/ Reader!ReadArrayHeader \/ Reader!ReadObjectVector
           \/ Reader!ReadPackedVector \/ Reader!SkipPrimitive \/ Reader!SkipArrayHeader
           \/ Reader!SkipElements \/ Reader!SkipObjects \/ Reader!LeaveSkipped
  BY <1>3 DEF Reader!ReadObject, Reader!ReadArrayHeader, Reader!ReadObjectVector,
    Reader!ReadPackedVector, Reader!SkipPrimitive, Reader!SkipArrayHeader,
    Reader!SkipElements, Reader!SkipObjects, Reader!LeaveSkipped
<1>4. CASE \/ Reader!CacheHeaders \/ Reader!NextElement \/ Reader!LeavePackedVector
           \/ Reader!StoreMissing \/ Reader!StoreNext \/ Reader!StorePending
           \/ Reader!ReadPending \/ Reader!ReadPendingReturns \/ Reader!PassHeader
           \/ Reader!ElementRead
  BY <1>4 DEF Reader!CacheHeaders, Reader!NextElement, Reader!LeavePackedVector,
    Reader!StoreMissing, Reader!StoreNext, Reader!StorePending, Reader!ReadPending,
    Reader!ReadPendingReturns, Reader!PassHeader, Reader!ElementRead
<1> QED
  BY <1>1, <1>2, <1>3, <1>4, Zenon DEF Reader!Step, Throws

\* A value that is read becomes one of the message.
LEMMA ResultGrows ==
  ASSUME ReaderTypes, PathsInv, Reader!Step
  PROVE  /\ result \subseteq result'
         /\ \A e \in result' : e \in result \/ OfMessage(e[1], Round)
<1>1. CASE Reader!ReadPrimitive
  <2>1. Reader!Running("read") /\ Reader!IsPrimitive(Reader!Top.member) /\ Reader!Got
    BY <1>1 DEF Reader!ReadPrimitive
  <2>2. /\ frames # <<>> /\ Reader!Top = frames[1] /\ frames[1].what = "read"
    BY <2>1, ValuePoint
  <2>3. OfMessage(frames[1].path, Round)
    BY <2>2, PathOfTop
  <2>4. Len(Reader!Wanted) <= 1 /\ Len(Reader!Wanted) \in Nat
    BY <2>1, <2>2, TakenValues, Taken
  <2>5. PICK path, n : path = frames[1].path /\ n = Len(Reader!Wanted)
    OBVIOUS
  <2>6. result' = result \cup {<<(<<path>>)[k], stream[pos + k - 1].of>> : k \in 1 .. n}
    BY <1>1, <2>2, <2>5 DEF Reader!ReadPrimitive, Reader!ReadValues
  <2>7. \A k \in 1 .. n : (<<path>>)[k] = path
    <3>1. \A k \in 1 .. n : k = 1
      BY <2>4, <2>5
    <3> QED BY <3>1
  <2> QED BY <2>3, <2>5, <2>6, <2>7
<1>2. CASE Reader!ReadPrimitiveVector
  <2>1. Reader!Running("body") /\ Reader!IsVector(Reader!Top.member) /\ Reader!Got
    BY <1>2 DEF Reader!ReadPrimitiveVector
  <2>2. /\ frames # <<>> /\ Reader!Top = frames[1] /\ frames[1].what = "body" /\ frames[1] \in Reader!Frame
    BY <2>1, ValuePoint
  <2>3. OfMessage(frames[1].path, Round) /\ frames[1].n \in Nat
    BY <2>2, PathOfTop, Kinds DEF Reader!BodyFrames
  <2>4. Len(Reader!Wanted) <= frames[1].n /\ Len(Reader!Wanted) \in Nat
    <3>1. ~Reader!Running("read")
      BY <2>2 DEF Reader!Running
    <3> QED BY <2>1, <2>2, <3>1, TakenValues, Taken
  <2>5. PICK path, n, m : path = frames[1].path /\ n = Len(Reader!Wanted) /\ m = frames[1].n
    OBVIOUS
  <2>6. PICK places : places = [k \in 1 .. m |-> Append(path, k)]
    OBVIOUS
  <2>7. result' = result \cup {<<places[k], stream[pos + k - 1].of>> : k \in 1 .. n}
    BY <1>2, <2>2, <2>5, <2>6 DEF Reader!ReadPrimitiveVector, Reader!ReadValues
  <2>8. \A k \in 1 .. n : OfMessage(places[k], Round)
    <3>1. ASSUME NEW k \in 1 .. n PROVE OfMessage(places[k], Round)
      <4>1. k \in 1 .. m /\ k \in Nat
        BY <2>3, <2>4, <2>5
      <4>2. places[k] = Append(path, k)
        BY <2>6, <4>1
      <4> QED BY <2>3, <2>5, <4>1, <4>2, PathGrows
    <3> QED BY <3>1
  <2> QED BY <2>7, <2>8
<1>3. CASE ~Reader!ReadPrimitive /\ ~Reader!ReadPrimitiveVector
  BY <1>3, ResultStays
<1> QED BY <1>1, <1>2, <1>3

\* What a message before it has read is not touched.
ReadAs(res, r) == {e \in res : e[1][1] = r}

\* What has been read of other messages stays.
LEMMA EarlierRead ==
  ASSUME ReaderTypes, PathsInv, Reader!Step, NEW r, r # Round
  PROVE  ReadAs(result', r) = ReadAs(result, r)
<1>1. PICK a, b : a = result /\ b = result'
  OBVIOUS
<1>2. a \subseteq b /\ \A e \in b : e \in a \/ e[1][1] = Round
  BY <1>1, ResultGrows DEF OfMessage
<1> QED BY <1>1, <1>2 DEF ReadAs

\* What all messages have read, by messages.
LEMMA OwedOf ==
  ASSUME NEW n \in Nat, NEW r \in 1 .. n,
         \A q \in 1 .. n : Common[Classes(q)] \in SUBSET Seq(Nat)
  PROVE  ReadAs(AllOwed(n), r) = Owed(<<r>>, Common[Classes(r)])
<1>1. ASSUME NEW q \in 1 .. n, NEW e \in Owed(<<q>>, Common[Classes(q)])
      PROVE  e[1][1] = q
  <2>1. PICK p \in Common[Classes(q)] : e = Kept(<<q>> \o p)
    BY <1>1 DEF Owed
  <2>2. p \in Seq(Nat)
    BY <2>1
  <2>3. PICK t : t = <<q>> \o p
    OBVIOUS
  <2>4. t[1] = q
    BY <2>2, <2>3, Fronted
  <2> QED BY <2>1, <2>3, <2>4 DEF Kept
<1>2. AllOwed(n) = UNION {Owed(<<q>>, Common[Classes(q)]) : q \in 1 .. n}
  BY DEF AllOwed
<1>3. ASSUME NEW e PROVE e \in ReadAs(AllOwed(n), r) <=> e \in Owed(<<r>>, Common[Classes(r)])
  <2>1. e \in AllOwed(n) <=> \E q \in 1 .. n : e \in Owed(<<q>>, Common[Classes(q)])
    BY <1>2
  <2>2. ASSUME e \in AllOwed(n), e[1][1] = r PROVE e \in Owed(<<r>>, Common[Classes(r)])
    BY <1>1, <2>1, <2>2
  <2>3. ASSUME e \in Owed(<<r>>, Common[Classes(r)]) PROVE e \in AllOwed(n) /\ e[1][1] = r
    BY <1>1, <2>1, <2>3
  <2> QED BY <2>2, <2>3 DEF ReadAs
<1> QED BY <1>3

-----------------------------------------------------------------------------
(***************************************************************************)
(* What becomes of the messages.                                           *)
(***************************************************************************)
\* A message that is returned from normally, and any that is not.
Delivered(r) ==
  /\ ReadAs(result, r) = Owed(<<r>>, Common[Classes(r)])
  /\ ends[r] <= Len(stream)
  /\ Len(outcome) = r => pos = ends[r] + 1
  /\ ~Mismatched[Classes(r)]
Justified(r) ==
  /\ outcome[r] = "InvalidType" => Mismatched[Classes(r)] \/ LacksZero[Classes(r)]
  /\ outcome[r] = "EndOfStream" => r > Len(sent) \/ ends[r] > Len(stream)
  /\ outcome[r] = "NoCleanExit" => \E q \in 1 .. (r - 1) : outcome[q] # "done"
Sound(r) == Supported(r) => (outcome[r] = "done" => Delivered(r)) /\ Justified(r)
MessagesInv == \A r \in 1 .. Len(outcome) : Sound(r)

\* These are the properties of the messages.
LEMMA SoundMessages ==
  ASSUME MessagesInv
  PROVE  RoundTrip /\ StreamInStep /\ FailuresJustified /\ MismatchReported
<1>1. \A r \in 1 .. Len(outcome) : Supported(r) => (outcome[r] = "done" => Delivered(r)) /\ Justified(r)
  BY DEF MessagesInv, Sound
<1>2. RoundTrip
  BY <1>1 DEF RoundTrip, Delivered, ReadAs, Owed, Kept
<1>3. StreamInStep
  BY <1>1 DEF StreamInStep, Delivered
<1>4. FailuresJustified
  BY <1>1 DEF FailuresJustified, Justified
<1>5. MismatchReported
  BY <1>1 DEF MismatchReported, Delivered
<1> QED BY <1>2, <1>3, <1>4, <1>5

\* A message that has come to its end stays as it is.
Settled(r) ==
  /\ outcome'[r] = outcome[r] /\ \A q \in 1 .. r : entered'[q] = entered[q]
  /\ sent' = sent /\ ends' = ends /\ stream' = stream
  /\ ReadAs(result', r) = ReadAs(result, r)
  /\ Len(outcome') = r => Len(outcome) = r /\ pos' = pos
  /\ \A q \in 1 .. (r - 1) : outcome'[q] = outcome[q]

\* Whether a message is supported depends on it and those before it only.
LEMMA SettledSupported ==
  ASSUME NEW r \in Nat, sent' = sent, \A q \in 1 .. r : entered'[q] = entered[q]
  PROVE  /\ Supported(r)' <=> Supported(r)
         /\ r >= 1 => Classes(r)' = Classes(r)
<1>1. \A q \in 1 .. r : Classes(q)' = Classes(q)
  BY DEF Classes
<1>2. Supported(r)' <=> \A q \in 1 .. r : q <= Len(sent) => ~Unsupported[Classes(q)']
  BY DEF Supported
<1>3. Supported(r)' <=> Supported(r)
  BY <1>1, <1>2 DEF Supported
<1> QED BY <1>1, <1>3

\* What has been said of it stays true.
LEMMA SoundStays ==
  ASSUME NEW r \in Nat, r >= 1, Sound(r), Settled(r)
  PROVE  Sound(r)'
<1>1. /\ Supported(r)' <=> Supported(r)
      /\ Classes(r)' = Classes(r)
  BY SettledSupported DEF Settled
<1>2. ASSUME Supported(r), outcome[r] = "done" PROVE Delivered(r)'
  <2>1. Delivered(r)
    BY <1>2 DEF Sound
  <2> QED BY <1>1, <2>1 DEF Delivered, Settled
<1>3. ASSUME Supported(r) PROVE Justified(r)'
  <2>1. Justified(r)
    BY <1>3 DEF Sound
  <2> QED BY <1>1, <2>1 DEF Justified, Settled
<1> QED BY <1>1, <1>2, <1>3 DEF Sound, Settled

\* A message that is being read is none yet.
LEMMA SoundReading ==
  ASSUME NEW r, outcome[r] = "reading"
  PROVE  Sound(r)
  BY DEF Sound, Justified

\* The classes of a message have some values in common.
LEMMA CommonPaths ==
  ASSUME Ends, Round <= Len(sent), NEW q \in 1 .. Round
  PROVE  Classes(q) \in ClassPairs /\ Common[Classes(q)] \in SUBSET Seq(Nat)
<1>1. Round \in Nat /\ Len(sent) \in Nat
  BY RoundNow
<1>2. q <= Len(sent)
  BY <1>1
<1>3. Classes(q) \in ClassPairs
  BY <1>2, RoundNow
<1> QED BY <1>3, CommonFixed

\* Behind the end of a message the reader is between two of the writer's.
LEMMA IdleDelivers ==
  ASSUME Ends, Kindly, ends' = ends, Round >= 1,
         NEW h, NEW W, HistoryOf(h, W), NEW k \in 1 .. Len(h), Idle(h[k])'
  PROVE  Delivered(Round)'
<1>1. PICK r \in Nat : r = Round /\ r >= 1
  BY RoundNow
<1>2. Round' = r /\ Classes(r)' = Classes(r) /\ PairNow' = Classes(r) /\ AllOwed(r)' = AllOwed(r)
  BY <1>1 DEF Kindly, Round, PairNow, AllOwed, Classes
<1>3. /\ r <= Len(sent) /\ h[k].n = r /\ h[k].calls = <<>>
      /\ h[k].at <= Len(stream') /\ Reached(h[k].at)'
      /\ result' = AllOwed(r)' /\ (entered # <<>> => ~Mismatched[PairNow]')
  BY <1>2 DEF Idle, Kindly
<1>4. ends[r] = h[k].at
  BY <1>1, <1>3, MessageEnds
<1>5. entered # <<>>
  BY <1>1 DEF Round
<1>6. ReadAs(AllOwed(r), r) = Owed(<<r>>, Common[Classes(r)])
  <2>1. \A q \in 1 .. r : Common[Classes(q)] \in SUBSET Seq(Nat)
    BY <1>1, <1>3, CommonPaths
  <2>2. r \in 1 .. r
    BY <1>1
  <2> QED BY <2>1, <2>2, OwedOf
<1>7. pos' = h[k].at + 1
  BY <1>3 DEF Reached
<1>8. Delivered(r)'
  BY <1>2, <1>3, <1>4, <1>5, <1>6, <1>7 DEF Delivered
<1> QED BY <1>2, <1>8 DEF Delivered

\* Enter returns normally only there.
LEMMA SomewhereIdles ==
  ASSUME NEW h, NEW W, Somewhere(h, W)', frames' = <<>>
  PROVE  \E k \in 1 .. Len(h) : Idle(h[k])'
<1>1. ~Beyond' /\ ~Doomed' /\ \A k \in 1 .. Len(h) : \A g : ~Following(h[k], W, g)'
  BY DEF Beyond, Doomed, Following
<1> QED BY <1>1 DEF Somewhere

\* InvalidType is thrown for two types of one index, or for a Terminator that a
\* member 0 takes for its header.
LEMMA TypeJustified ==
  ASSUME Ends, calls = <<>>, NEW h, NEW W, Placed(h, W), Reader!RejectType, Supported(Round)
  PROVE  Mismatched[PairNow] \/ LacksZero[PairNow]
<1>1. Reader!WrongType /\ frames # <<>> /\ Reader!Top = frames[1]
  BY TopType DEF Reader!RejectType, Reader!WrongType, Reader!Running, Ends, IInv
<1>2. ~Entering(frames[1])
  BY <1>1 DEF Reader!WrongType, Reader!Running, Entering
<1>3. mCleanExit
  BY <1>1, <1>2 DEF Ends, IInv, DeadInv
<1>4. Somewhere(h, W)
  BY <1>3 DEF Placed
<1>5. ~Beyond
  BY <1>1 DEF Reader!WrongType, Reader!Running, Beyond
<1>6. CASE Doomed
  BY <1>6 DEF Doomed
<1>7. CASE \E k \in 1 .. Len(h) : Idle(h[k]) \/ \E g : Following(h[k], W, g)
  <2>1. PICK k \in 1 .. Len(h) : Idle(h[k]) \/ \E g : Following(h[k], W, g)
    BY <1>7
  <2>2. ~Idle(h[k])
    BY <1>1 DEF Idle
  <2>3. PICK g : Following(h[k], W, g)
    BY <2>1, <2>2
  <2>4. PICK j \in 1 .. Len(h) : IsAt(h[k], h[j], W, g)
    BY <1>3, <2>3, AtMoment DEF Placed
  <2> QED BY <1>1, <2>4, RejectedMismatch
<1> QED BY <1>4, <1>5, <1>6, <1>7 DEF Somewhere

\* EndOfStream is thrown where the end of the message is missing.
LEMMA EndJustified ==
  ASSUME Ends, calls = <<>>, NEW h, NEW W, Placed(h, W), Reader!FillReadBufferFails, Supported(Round)
  PROVE  Round > Len(sent) \/ ends[Round] > Len(stream)
<1>1. frames # <<>> /\ Reader!Top = frames[1] /\ ~Reader!WrongType /\ ReaderTypes
  BY TopType DEF Reader!FillReadBufferFails, Ends, IInv
<1>2. ~Entering(frames[1])
  <2>1. ASSUME Entering(frames[1]) PROVE FALSE
    <3>1. Reader!Wanted = <<>>
      BY <1>1, <2>1 DEF Entering, Reader!Wanted, Reader!AtPoint, Reader!Running
    <3>2. Reader!Left < Len(Reader!Wanted)
      BY DEF Reader!FillReadBufferFails
    <3> QED BY <1>1, <3>1, <3>2, NothingWanted
  <2> QED BY <2>1
<1>3. mCleanExit
  BY <1>1, <1>2 DEF Ends, IInv, DeadInv
<1>4. Somewhere(h, W)
  BY <1>3 DEF Placed
<1>5. CASE Beyond
  BY <1>5 DEF Beyond
<1>6. ~Doomed
  BY <1>1, DoomedWrong
<1>7. CASE \E k \in 1 .. Len(h) : Idle(h[k]) \/ \E g : Following(h[k], W, g)
  <2>1. PICK k \in 1 .. Len(h) : Idle(h[k]) \/ \E g : Following(h[k], W, g)
    BY <1>7
  <2>2. ~Idle(h[k])
    BY <1>1 DEF Idle
  <2>3. PICK g : Following(h[k], W, g)
    BY <2>1, <2>2
  <2>4. PICK j \in 1 .. Len(h) : IsAt(h[k], h[j], W, g) /\ h[j].n = h[k].n
    BY <1>3, <2>3, AtMoment DEF Placed
  <2>5. Len(stream) < h[j].at
    BY <2>4, NeverOut
  <2>6. h[j].n = Round
    BY <2>3, <2>4 DEF Following
  <2>7. Round >= 1
    BY <1>1, RoundNow
  <2>8. h[j].at <= ends[Round] /\ Round \in 1 .. Len(ends)
    BY <2>6, <2>7, BeforeEnd DEF Placed, Ends
  <2>9. ends[Round] \in Nat /\ h[j].at \in Nat /\ Len(stream) \in Nat
    <3>1. ends \in Seq(Nat)
      BY DEF Ends, Writer!TypeOK
    <3>2. h[j].at \in Nat
      BY MomentOf DEF Placed
    <3>3. Len(stream) \in Nat
      BY <1>1 DEF ReaderTypes
    <3> QED BY <2>8, <3>1, <3>2, <3>3
  <2> QED BY <2>5, <2>8, <2>9
<1> QED BY <1>4, <1>5, <1>6, <1>7 DEF Somewhere

\* NoCleanExit is thrown after another exception.
LEMMA ReuseJustified ==
  ASSUME Ends, Reader!RefuseReuse
  PROVE  \E q \in 1 .. (Round - 1) : outcome[q] \notin {"done", "reading"}
<1>1. ~mCleanExit /\ frames # <<>>
  BY DEF Reader!RefuseReuse, Reader!AtPoint, Reader!Usable
<1>2. PICK q \in 1 .. Len(outcome) : outcome[q] \notin {"done", "reading"}
  BY <1>1 DEF Ends, OutcomeInv
<1>3. outcome[Len(outcome)] = "reading" /\ Round = Len(outcome) /\ Round >= 1 /\ Round \in Nat
  <2>1. Round = Len(outcome) /\ Round >= 1 /\ Round \in Nat
    BY <1>1, RoundNow
  <2> QED BY <1>1, <2>1 DEF Ends, OutcomeInv
<1> QED BY <1>2, <1>3

\* What the reader has in each message belongs to it, while it is usable.
CleanPaths == mCleanExit => PathsInv

\* A step leaves the messages before alone.
LEMMA EarlierStays ==
  ASSUME Ends, CleanPaths, Reader!Step, NEW r, r # Round
  PROVE  ReadAs(result', r) = ReadAs(result, r)
<1>1. CASE mCleanExit
  BY <1>1, EarlierRead DEF CleanPaths, Ends, IInv
<1>2. CASE ~mCleanExit
  <2>1. Reader!ReaderNext
    BY DEF Reader!ReaderNext
  <2>2. result' = result
    BY <1>2, <2>1, DeadStep DEF Ends
  <2> QED BY <2>2
<1> QED BY <1>1, <1>2

\* Enter comes to an end.
LEMMA ConcludesSound ==
  ASSUME Ends, Ends', Kindly, ends' = ends, calls = <<>>, Reader!Step,
         NEW h, NEW W, Placed(h, W),
         \/ Reader!LeaveObject /\ Concludes("done")
         \/ Reader!RefuseReuse /\ Concludes("NoCleanExit")
         \/ Reader!RejectType /\ Concludes("InvalidType")
         \/ Reader!FillReadBufferFails /\ Concludes("EndOfStream")
  PROVE  Sound(Round)'
<1>1. PICK r \in Nat : r = Round /\ r >= 1 /\ Round' = r /\ Len(outcome') = r /\ Len(outcome) = r
  <2>1. Round \in Nat /\ Round >= 1 /\ Len(outcome) = Round
    BY StepCalls, RoundNow
  <2>2. Round' = Round
    BY DEF Kindly, Round
  <2>3. Len(outcome') = Len(entered')
    BY DEF Ends, OutcomeInv
  <2> QED BY <2>1, <2>2, <2>3 DEF Round
<1>2. /\ Supported(r)' <=> Supported(r)
      /\ Classes(r)' = Classes(r)
  BY <1>1, SettledSupported DEF Kindly
<1>3. SUFFICES ASSUME Supported(r) PROVE (outcome'[r] = "done" => Delivered(r)') /\ Justified(r)'
  <2>1. Sound(Round)' <=> Sound(r)'
    BY <1>1 DEF Sound, Supported, Delivered, Justified
  <2>2. Supported(r)' => (outcome'[r] = "done" => Delivered(r)') /\ Justified(r)'
    BY <1>2, <1>3
  <2> QED BY <2>1, <2>2 DEF Sound
<1>4. ASSUME NEW e, Concludes(e) PROVE outcome'[r] = e /\ \A q \in 1 .. (r - 1) : outcome'[q] = outcome[q]
  <2>1. outcome' = [outcome EXCEPT ![r] = e]
    BY <1>1, <1>4 DEF Concludes
  <2>2. outcome \in Seq({"reading", "done", "InvalidType", "EndOfStream", "NoCleanExit"})
    BY DEF Ends, IInv, ReaderTypes
  <2> QED BY <1>1, <2>1, <2>2
<1>5. CASE Reader!LeaveObject /\ Concludes("done")
  <2>1. outcome'[r] = "done" /\ frames' = <<>>
    BY <1>4, <1>5 DEF Concludes
  <2>2. mCleanExit /\ ~Throws
    <3>1. frames # <<>> /\ ~Entering(frames[1])
      BY <1>5, ObjectPoint DEF Reader!LeaveObject, Reader!Remaining, Entering, Ends, IInv
    <3>2. mCleanExit
      BY <3>1 DEF Ends, IInv, DeadInv
    <3>3. mCleanExit'
      BY <1>5, <3>2 DEF Concludes
    <3>4. ~Throws
      BY <3>3 DEF Throws, Reader!RefuseReuse, Reader!RejectType, Reader!FillReadBufferFails,
        Reader!Throw
    <3> QED BY <3>2, <3>4
  <2>3. Somewhere(h, W)'
    BY <1>1, <1>3, <2>2, ReadOn DEF Placed
  <2>4. \E k \in 1 .. Len(h) : Idle(h[k])'
    BY <2>1, <2>3, SomewhereIdles
  <2>5. Delivered(Round)'
    BY <1>1, <2>4, IdleDelivers DEF Placed
  <2>6. Delivered(r)'
    BY <1>1, <2>5 DEF Delivered
  <2> QED BY <2>1, <2>6 DEF Justified
<1>6. CASE Reader!RefuseReuse /\ Concludes("NoCleanExit")
  <2>1. /\ outcome'[r] = "NoCleanExit"
        /\ \A q \in 1 .. (r - 1) : outcome'[q] = outcome[q]
    BY <1>4, <1>6
  <2>2. PICK q \in 1 .. (r - 1) : outcome[q] \notin {"done", "reading"}
    BY <1>1, <1>6, ReuseJustified
  <2> QED BY <2>1, <2>2 DEF Justified
<1>7. CASE Reader!RejectType /\ Concludes("InvalidType")
  <2>1. outcome'[r] = "InvalidType"
    BY <1>4, <1>7
  <2>2. Mismatched[Classes(r)] \/ LacksZero[Classes(r)]
    <3>1. Supported(Round)
      BY <1>1, <1>3 DEF Supported
    <3>2. PairNow = Classes(r)
      BY <1>1 DEF PairNow
    <3> QED BY <1>7, <3>1, <3>2, TypeJustified
  <2> QED BY <1>2, <2>1, <2>2 DEF Justified
<1>8. CASE Reader!FillReadBufferFails /\ Concludes("EndOfStream")
  <2>1. outcome'[r] = "EndOfStream"
    BY <1>4, <1>8
  <2>2. r > Len(sent) \/ ends[r] > Len(stream)
    <3>1. Supported(Round)
      BY <1>1, <1>3 DEF Supported
    <3> QED BY <1>1, <1>8, <3>1, EndJustified
  <2> QED BY <2>1, <2>2 DEF Justified, Kindly
<1> QED BY <1>5, <1>6, <1>7, <1>8

\* Every step of a call keeps what is said of the messages.
LEMMA MessagesStep ==
  ASSUME Ends, Ends', Kindly, ends' = ends, calls = <<>>, Reader!Step, CleanPaths, MessagesInv,
         NEW h, NEW W, Placed(h, W)
  PROVE  MessagesInv'
<1>1. PICK n \in Nat : n = Round /\ n >= 1 /\ Round' = n /\ Len(outcome') = n /\ Len(outcome) = n
  <2>1. Round \in Nat /\ Round >= 1 /\ Len(outcome) = Round
    BY StepCalls, RoundNow
  <2>2. Round' = Round
    BY DEF Kindly, Round
  <2>3. Len(outcome') = Len(entered')
    BY DEF Ends, OutcomeInv
  <2> QED BY <2>1, <2>2, <2>3 DEF Round
<1>2. ASSUME NEW r \in 1 .. n, r # n PROVE Sound(r)'
  <2>1. Sound(r)
    BY <1>1, <1>2 DEF MessagesInv
  <2>2. ReadAs(result', r) = ReadAs(result, r)
    BY <1>1, <1>2, EarlierStays
  <2>3. \A q \in 1 .. (n - 1) : outcome'[q] = outcome[q]
    <3>1. CASE Inside
      BY <3>1 DEF Inside
    <3>2. ASSUME NEW e, Concludes(e) PROVE \A q \in 1 .. (n - 1) : outcome'[q] = outcome[q]
      <4>1. outcome' = [outcome EXCEPT ![n] = e]
        BY <1>1, <3>2 DEF Concludes
      <4>2. outcome \in Seq({"reading", "done", "InvalidType", "EndOfStream", "NoCleanExit"})
        BY DEF Ends, IInv, ReaderTypes
      <4> QED BY <1>1, <4>1, <4>2
    <3> QED BY <3>1, <3>2, StepOutcome DEF Ends
  <2>4. r \in Nat /\ r >= 1 /\ r <= n - 1
    BY <1>1, <1>2
  <2>5. Settled(r)
    BY <1>1, <1>2, <2>2, <2>3, <2>4 DEF Settled, Kindly
  <2> QED BY <2>1, <2>4, <2>5, SoundStays
<1>3. Sound(n)'
  <2>1. CASE Inside
    <3>1. outcome'[n] = "reading"
      <4>1. frames # <<>>
        BY StepCalls
      <4>2. outcome[n] = "reading"
        BY <1>1, <4>1 DEF Ends, OutcomeInv
      <4> QED BY <2>1, <4>2 DEF Inside
    <3> QED BY <3>1 DEF Sound, Justified
  <2>2. CASE ~Inside
    <3>1. Sound(Round)'
      <4>1. \/ Reader!LeaveObject /\ Concludes("done")
            \/ Reader!RefuseReuse /\ Concludes("NoCleanExit")
            \/ Reader!RejectType /\ Concludes("InvalidType")
            \/ Reader!FillReadBufferFails /\ Concludes("EndOfStream")
        BY <2>2, StepOutcome DEF Ends
      <4> QED BY <4>1, ConcludesSound
    <3> QED BY <1>1, <3>1 DEF Sound, Supported, Delivered, Justified
  <2> QED BY <2>1, <2>2
<1> QED BY <1>1, <1>2, <1>3 DEF MessagesInv

\* A message that is entered is being read, and those before it stay.
LEMMA MessagesEnter ==
  ASSUME Ends, NEW c \in Readable, Reader!Enter(c), UNCHANGED <<calls, sent, ends>>, MessagesInv
  PROVE  MessagesInv'
<1>1. /\ Ends'
      /\ Len(outcome') = Len(outcome) + 1
      /\ \A q \in 1 .. Len(outcome) : outcome'[q] = outcome[q]
      /\ outcome'[Len(outcome')] = "reading"
  BY EndsEnter
<1>2. PICK n \in Nat : n = Len(outcome) /\ n = Len(entered) /\ Len(outcome') = n + 1
  BY <1>1, RoundNow DEF Round
<1>3. \A q \in 1 .. n : entered'[q] = entered[q]
  <2>1. entered \in Seq(Readable) /\ entered' = Append(entered, c)
    BY DEF Reader!Enter, Ends, IInv, ReaderTypes
  <2> QED BY <1>2, <2>1, AppendProperties
<1>4. result' = result /\ stream' = stream
  BY DEF Reader!Enter
<1>5. ASSUME NEW r \in 1 .. n PROVE Sound(r)'
  <2>1. Sound(r)
    BY <1>2, <1>5 DEF MessagesInv
  <2>2. r \in Nat /\ r >= 1 /\ \A q \in 1 .. r : q \in 1 .. n
    BY <1>2
  <2>3. \A q \in 1 .. (r - 1) : q \in 1 .. n
    BY <1>2
  <2>4. Settled(r)
    BY <1>1, <1>2, <1>3, <1>4, <2>2, <2>3 DEF Settled
  <2> QED BY <2>1, <2>2, <2>4, SoundStays
<1>6. Sound(n + 1)'
  <2>1. outcome'[n + 1] = "reading"
    BY <1>1, <1>2
  <2> QED BY <2>1 DEF Sound, Justified
<1>7. ASSUME NEW r \in 1 .. (n + 1) PROVE Sound(r)'
  <2>1. r \in 1 .. n \/ r = n + 1
    BY <1>2
  <2> QED BY <1>5, <1>6, <2>1
<1> QED BY <1>2, <1>7 DEF MessagesInv

\* A step that changes nothing of the messages.
LEMMA MessagesQuiet ==
  ASSUME MessagesInv, UNCHANGED <<stream, pos, sent, ends, result, entered, outcome>>
  PROVE  MessagesInv'
BY DEF MessagesInv, Sound, Supported, Classes, Delivered, Justified, ReadAs

\* A message that is entered has read nothing yet.
LEMMA PathsEnter ==
  ASSUME IInv, NEW c \in Readable, Reader!Enter(c), Round \in Nat
  PROVE  CleanPaths'
<1>1. SUFFICES ASSUME mCleanExit' PROVE PathsInv'
  BY DEF CleanPaths
<1>2. /\ frames = <<>> /\ entered' = Append(entered, c) /\ mVariableHistory' = mVariableHistory
      /\ mCurrentPendingVariables' = mCurrentPendingVariables /\ mCleanExit' = mCleanExit
  BY DEF Reader!Enter, Reader!messageVars, Reader!streamFlags
<1>3. mVariableHistory = <<>>
  BY <1>1, <1>2 DEF IInv, CleanWhenIdle
<1>4. frames' = <<Reader!ObjectFrame(c, <<Round'>>)>>
  BY DEF Reader!Enter, Round
<1>5. Round' \in Nat
  BY <1>2 DEF Round, IInv, ReaderTypes
<1>6. Pathed(Reader!ObjectFrame(c, <<Round'>>), Round')
  <2>1. PICK n \in Nat : n = Round'
    BY <1>5
  <2>2. OfMessage(<<n>>, n)
    BY <2>1 DEF OfMessage
  <2>3. Reader!ObjectFrame(c, <<n>>).path = <<n>>
    BY DEF Reader!ObjectFrame
  <2> QED BY <2>1, <2>2, <2>3 DEF Pathed
<1>7. \A i \in 1 .. Len(frames') : Pathed(frames'[i], Round')
  BY <1>4, <1>6
<1>8. Len(mVariableHistory') = 0
  BY <1>2, <1>3
<1> QED BY <1>7, <1>8 DEF PathsInv

\* Nothing of it changes in other steps.
LEMMA PathsQuiet ==
  ASSUME CleanPaths, UNCHANGED <<frames, mVariableHistory, mCurrentPendingVariables, mCleanExit, entered>>
  PROVE  CleanPaths'
BY DEF CleanPaths, PathsInv, Saved, Round

\* In any step of a call.
LEMMA CleanPathsStep ==
  ASSUME IInv, IInv', CleanPaths, Reader!Step
  PROVE  CleanPaths'
<1>1. CASE Throws
  <2>1. ~mCleanExit'
    BY <1>1 DEF Throws, Reader!RefuseReuse, Reader!RejectType, Reader!FillReadBufferFails,
      Reader!Throw
  <2> QED BY <2>1 DEF CleanPaths
<1>2. CASE ~Throws
  <2>1. mCleanExit
    BY <1>2, DeadThrows DEF Throws
  <2> QED BY <1>2, <2>1, PathsStep DEF CleanPaths
<1> QED BY <1>1, <1>2

\* The history of the writer is over when the reader reads.
LEMMA HistoryStays ==
  ASSUME NEW h, NEW W, HistoryOf(h, W), UNCHANGED <<calls, sent, ends>>
  PROVE  HistoryOf(h, W)'
<1>1. ASSUME NEW x, NEW y PROVE Moves(x, y, W)' <=> Moves(x, y, W)
  <2>1. Opens(x, y)' <=> Opens(x, y)
    BY DEF Opens
  <2>2. Returns(x, y, W)' <=> Returns(x, y, W)
    BY DEF Returns
  <2>3. StoresNext(x, y, W)' <=> StoresNext(x, y, W)
    BY DEF StoresNext, ValueStored, VectorStored, ObjectStored, ObjectsStored
  <2> QED BY <2>1, <2>2, <2>3 DEF Moves
<1>2. /\ h \in Seq(Moment) /\ Len(h) >= 1 /\ h[1] = Start /\ W \in Seq(Token)
      /\ \A k \in 1 .. (Len(h) - 1) : Moves(h[k], h[k + 1], W)'
  BY <1>1 DEF HistoryOf
<1>3. /\ h[Len(h)] = [at |-> Len(W), calls |-> calls', n |-> Len(sent')]
      /\ Len(ends') = Len(sent') - OneIf(calls' # <<>>)
  BY DEF HistoryOf
<1> QED BY <1>2, <1>3 DEF HistoryOf

\* So is what can be read of it.
LEMMA SupportedStays ==
  ASSUME entered' = entered, sent' = sent
  PROVE  Supported(Round)' <=> Supported(Round)
BY DEF Supported, Classes, Round

\* A step of a call.
LEMMA PlacedStep ==
  ASSUME Ends, Kindly, calls = <<>>, UNCHANGED <<calls, sent, ends>>, Reader!Step,
         NEW h, NEW W, Placed(h, W)
  PROVE  Placed(h, W)'
<1>1. HistoryOf(h, W)'
  BY HistoryStays DEF Placed
<1>2. Prefix(stream', W)
  BY DEF Placed, Kindly
<1>3. ASSUME mCleanExit', Supported(Round)' PROVE Somewhere(h, W)'
  <2>1. ~Throws
    BY <1>3 DEF Throws, Reader!RefuseReuse, Reader!RejectType, Reader!FillReadBufferFails,
      Reader!Throw
  <2>2. mCleanExit
    BY <2>1, DeadThrows DEF Throws, Ends
  <2>3. Supported(Round)
    BY <1>3, SupportedStays DEF Kindly
  <2>4. Somewhere(h, W)
    BY <2>2, <2>3 DEF Placed
  <2> QED BY <2>1, <2>2, <2>3, <2>4, ReadOn DEF Placed
<1> QED BY <1>1, <1>2, <1>3 DEF Placed

\* Enter.
LEMMA PlacedEnter ==
  ASSUME Ends, calls = <<>>, UNCHANGED <<calls, sent, ends>>, NEW c \in Readable, Reader!Enter(c),
         NEW h, NEW W, Placed(h, W)
  PROVE  Placed(h, W)'
<1>1. HistoryOf(h, W)'
  BY HistoryStays DEF Placed
<1>2. stream' = stream /\ mCleanExit' = mCleanExit /\ entered' = Append(entered, c)
  BY DEF Reader!Enter, Reader!messageVars, Reader!streamFlags
<1>3. ASSUME mCleanExit', Supported(Round)' PROVE Somewhere(h, W)'
  <2>1. Supported(Round)
    BY <1>2, <1>3, SupportedBefore
  <2>2. Somewhere(h, W)
    BY <1>2, <1>3, <2>1 DEF Placed
  <2> QED BY <2>2, EnterOn DEF Placed
<1> QED BY <1>1, <1>2, <1>3 DEF Placed

\* The destructor, and the end.
LEMMA PlacedQuiet ==
  ASSUME UNCHANGED <<calls, sent, ends, stream, pos, frames, mObjectSkipping, mCurrentType,
           mCurrentIndex, mCurrentIndexPending, mCleanExit, mCurrentPendingVariables,
           mVariableHistory, result, entered>>,
         NEW h, NEW W, Placed(h, W)
  PROVE  Placed(h, W)'
<1>1. HistoryOf(h, W)'
  BY HistoryStays DEF Placed
<1>2. Supported(Round)' <=> Supported(Round)
  BY SupportedStays
<1>3. Round' = Round /\ PairNow' = PairNow /\ AllOwed(Round)' = AllOwed(Round) /\ LastContext' = LastContext
  BY DEF Round, PairNow, AllOwed, LastContext, Classes
<1>4. Beyond => Beyond'
  BY <1>3 DEF Beyond
<1>5. Doomed => Doomed'
  BY <1>3 DEF Doomed
<1>6. ASSUME NEW x, Idle(x) PROVE Idle(x)'
  BY <1>3, <1>6 DEF Idle, Reached
<1>7. ASSUME NEW x, NEW g, Following(x, W, g) PROVE Following(x, W, g)'
  <2>1. Chain(frames, g, PairNow)'
    BY <1>3, <1>7 DEF Following, Chain
  <2>2. Present(g[1], x)'
    BY <1>7 DEF Following, Present
  <2>3. TakenSince(frames[1], x)'
    BY <1>7 DEF Following, TakenSince, Reached, HeaderSeen
  <2>4. HeaderSeen(frames[1])' => x.at + 1 <= Len(stream') /\ W[x.at + 1] = SeenHeader(frames[1])'
    BY <1>7 DEF Following, HeaderSeen, SeenHeader
  <2> QED BY <1>3, <1>7, <2>1, <2>2, <2>3, <2>4 DEF Following
<1>8. Somewhere(h, W) => Somewhere(h, W)'
  BY <1>4, <1>5, <1>6, <1>7 DEF Somewhere
<1> QED BY <1>1, <1>2, <1>8 DEF Placed

-----------------------------------------------------------------------------
\* A reader that is placed does not misread.
LEMMA PlacedReads ==
  ASSUME Ends, calls = <<>>, NEW h, NEW W, Placed(h, W)
  PROVE  NeverMisreads
<1>1. Round = Len(outcome)
  BY RoundNow
<1>2. SUFFICES ASSUME Supported(Round), Reader!OutOfStep \/ Reader!Overrun
      PROVE  ~Reader!OutOfStep /\ ElementLacks[PairNow]
  BY <1>1 DEF NeverMisreads, PairNow
<1>3. ReaderTypes /\ frames # <<>> /\ Reader!Top = frames[1]
  BY <1>2, TopType DEF Ends, IInv, Reader!OutOfStep, Reader!Overrun, Reader!PackedAt, Reader!Running
<1>4. CASE Entering(frames[1])
  <2>1. Reader!Wanted = <<>>
    BY <1>3, <1>4 DEF Entering, Reader!Wanted, Reader!AtPoint, Reader!Running
  <2>2. ~Reader!OutOfStep
    BY <1>3, <2>1, NothingWanted
  <2>3. ~Reader!Overrun
    BY <1>3, <1>4 DEF Entering, Reader!Overrun, Reader!PackedAt, Reader!Running
  <2> QED BY <1>2, <2>2, <2>3
<1>5. CASE ~Entering(frames[1])
  <2>1. mCleanExit
    BY <1>3, <1>5 DEF Ends, IInv, DeadInv
  <2>2. Somewhere(h, W)
    BY <1>2, <2>1 DEF Placed
  <2>3. ~Beyond
    <3> SUFFICES ASSUME Beyond PROVE FALSE
      OBVIOUS
    <3>1. pos > Len(stream) /\ frames[1].what = "object"
      BY DEF Beyond
    <3>2. ~Reader!Overrun
      BY <1>3, <3>1 DEF Reader!Overrun, Reader!PackedAt, Reader!Running
    <3>3. Reader!Left = 0
      BY <3>1 DEF Reader!Left
    <3>4. Reader!Fits(0)
      BY DEF Reader!Fits
    <3>5. Len(Reader!Wanted) \in Nat
      BY <1>3, WantedType
    <3>6. ~Reader!OutOfStep
      BY <3>3, <3>4, <3>5 DEF Reader!OutOfStep
    <3> QED BY <1>2, <3>2, <3>6
  <2>4. ~Doomed
    BY <1>2, <1>3, DoomedWrong DEF Doomed, Reader!OutOfStep, Reader!Overrun, Reader!PackedAt, Reader!Running
  <2>5. CASE \E k \in 1 .. Len(h) : Idle(h[k]) \/ \E g : Following(h[k], W, g)
    <3>1. PICK k \in 1 .. Len(h) : Idle(h[k]) \/ \E g : Following(h[k], W, g)
      BY <2>5
    <3>2. ~Idle(h[k])
      BY <1>3 DEF Idle
    <3>3. PICK g : Following(h[k], W, g)
      BY <3>1, <3>2
    <3>4. PICK j \in 1 .. Len(h) : IsAt(h[k], h[j], W, g)
      BY <1>2, <2>1, <3>3, AtMoment DEF Placed
    <3>5. ~Reader!OutOfStep
      BY <3>4, NeverOut
    <3> QED BY <1>2, <3>4, <3>5, OverrunLacks
  <2> QED BY <2>2, <2>3, <2>4, <2>5 DEF Somewhere
<1> QED BY <1>4, <1>5

-----------------------------------------------------------------------------
(***************************************************************************)
(* The writer goes on with its history.                                    *)
(***************************************************************************)
\* What it writes is what the history is made of.
LEMMA WriterTerms ==
  /\ Writer!Token = Token /\ Writer!Member = Member /\ Writer!Calls = CallRecord
  /\ Writer!Terminator = Terminator
  /\ \A m : /\ Writer!IsPrimitive(m) <=> IsPrimitive(m)
            /\ Writer!IsVector(m) <=> IsVector(m)
            /\ Writer!IsObject(m) <=> IsObject(m)
            /\ Writer!IsObjects(m) <=> IsObjects(m)
            /\ Writer!MemberHeader(m) = HeaderOf(m)
            /\ Writer!Flags(m) = FlagsOf(m)
            /\ Writer!Value(m) = Value(m) /\ Writer!Size(m) = Size(m)
  /\ \A c, path, as : Writer!Call(c, path, as) = CallOf(c, path, as)
  /\ Writer!Advanced = AfterStore(calls)
<1>1. Writer!HeaderTypes = HeaderTypes /\ Writer!PrimitiveTypes = PrimitiveTypes
  BY DEF Writer!HeaderTypes, HeaderTypes, Writer!PrimitiveTypes, PrimitiveTypes,
    Writer!IntegerTypes, IntegerTypes
<1>2. Writer!Member = Member
  BY <1>1 DEF Writer!Member, Member
<1>3. Writer!Token = Token
  BY <1>1 DEF Writer!Token, Token, Writer!HeaderToken, HeaderToken
<1>4. \A m : Writer!GetHeaderEnum(m) = GetHeaderEnum(m)
  BY DEF Writer!GetHeaderEnum, GetHeaderEnum
<1>5. \A i, type : Writer!Header(i, type) = Header(i, type)
  BY DEF Writer!Header, Header
<1>6. Writer!Calls = CallRecord
  BY <1>2 DEF Writer!Calls, CallRecord
<1>7. Writer!Terminator = Terminator
  BY <1>5 DEF Writer!Terminator, Terminator
<1>8. \A m : /\ Writer!IsPrimitive(m) <=> IsPrimitive(m)
             /\ Writer!IsVector(m) <=> IsVector(m)
             /\ Writer!IsObject(m) <=> IsObject(m)
             /\ Writer!IsObjects(m) <=> IsObjects(m)
  BY <1>1 DEF Writer!IsPrimitive, IsPrimitive, Writer!IsVector, IsVector, Writer!IsObject, IsObject,
    Writer!IsObjects, IsObjects
<1>9. \A m : /\ Writer!MemberHeader(m) = HeaderOf(m)
             /\ Writer!Flags(m) = FlagsOf(m)
             /\ Writer!Value(m) = Value(m) /\ Writer!Size(m) = Size(m)
  BY <1>4, <1>5 DEF Writer!MemberHeader, HeaderOf, Writer!Flags, FlagsOf, Writer!Value, Value,
    Writer!Size, Size
<1>10. \A c, path, as : Writer!Call(c, path, as) = CallOf(c, path, as)
  BY DEF Writer!Call, CallOf
<1>11. Writer!Advanced = AfterStore(calls)
  BY DEF Writer!Advanced, AfterStore
<1> QED BY <1>2, <1>3, <1>6, <1>7, <1>8, <1>9, <1>10, <1>11

\* What is written behind something.
LEMMA Behind ==
  ASSUME NEW S, NEW s \in Seq(S), NEW t \in Seq(S)
  PROVE  /\ s \o t \in Seq(S) /\ Len(s) \in Nat /\ Len(t) \in Nat
         /\ Len(s \o t) = Len(s) + Len(t)
         /\ Prefix(s, s \o t)
         /\ \A j \in 1 .. Len(t) : (s \o t)[Len(s) + j] = t[j]
BY DEF Prefix

\* A prefix of a prefix.
LEMMA PrefixTwice ==
  ASSUME NEW S, NEW s \in Seq(S), NEW t \in Seq(S), NEW u \in Seq(S), Prefix(s, t), Prefix(t, u)
  PROVE  Prefix(s, u)
<1>1. Len(s) \in Nat /\ Len(t) \in Nat /\ Len(u) \in Nat
  OBVIOUS
<1> QED BY <1>1 DEF Prefix

\* Nothing that has been written or entered changes.
Grows == Prefix(sent, sent') /\ Prefix(ends, ends')

\* A step of the writer stays one while it goes on.
LEMMA MovesKept ==
  ASSUME NEW x \in Moment, NEW y \in Moment, NEW W \in Seq(Token), NEW V \in Seq(Token),
         Prefix(W, V), Grows, sent \in Seq(Sendable), sent' \in Seq(Sendable),
         ends \in Seq(Nat), ends' \in Seq(Nat), Moves(x, y, W)
  PROVE  Moves(x, y, V)'
<1>1. /\ x.at \in Nat /\ y.at \in Nat /\ x.n \in Nat /\ y.n \in Nat /\ x.calls \in Seq(CallRecord)
      /\ Len(W) \in Nat /\ Len(V) \in Nat /\ Len(sent) \in Nat /\ Len(sent') \in Nat
      /\ Len(ends) \in Nat /\ Len(ends') \in Nat
  BY DEF Moment
<1>2. /\ x.at <= y.at /\ y.at <= Len(W) /\ Len(W) <= Len(V)
      /\ \A i \in 1 .. Len(W) : V[i] = W[i]
  BY DEF Moves, Prefix
<1>3. \A i \in Nat : i >= 1 /\ i <= y.at => V[i] = W[i]
  BY <1>1, <1>2
<1>4. y.at <= Len(V)
  BY <1>1, <1>2
<1>5. CASE Opens(x, y)
  <2>1. y.n \in 1 .. Len(sent) /\ y.n <= Len(sent')
    BY <1>1, <1>5 DEF Opens, Grows, Prefix
  <2>2. sent'[y.n] = sent[y.n]
    BY <2>1 DEF Grows, Prefix
  <2>3. Opens(x, y)'
    BY <1>5, <2>1, <2>2 DEF Opens
  <2> QED BY <1>2, <1>4, <2>3 DEF Moves
<1>6. CASE Returns(x, y, W)
  <2>1. Head(x.calls).as = "object" => V[y.at] = Terminator
    <3>1. SUFFICES ASSUME Head(x.calls).as = "object" PROVE V[y.at] = Terminator
      OBVIOUS
    <3>2. y.at = x.at + 1 /\ W[y.at] = Terminator
      BY <1>6, <3>1 DEF Returns, OneIf
    <3>3. y.at >= 1 /\ y.at <= y.at
      BY <1>1, <3>2
    <3>4. V[y.at] = W[y.at]
      BY <1>1, <1>3, <3>3
    <3> QED BY <3>2, <3>4
  <2>2. y.calls = <<>> => y.n \in 1 .. Len(ends') /\ ends'[y.n] = y.at
    <3>1. SUFFICES ASSUME y.calls = <<>> PROVE y.n \in 1 .. Len(ends') /\ ends'[y.n] = y.at
      OBVIOUS
    <3>2. y.n \in 1 .. Len(ends) /\ ends[y.n] = y.at
      BY <1>6, <3>1 DEF Returns
    <3>3. /\ Len(ends) <= Len(ends')
          /\ \A i \in 1 .. Len(ends) : ends'[i] = ends[i]
      BY <1>1 DEF Grows, Prefix
    <3>4. Len(ends) \in Nat /\ Len(ends') \in Nat
      BY <1>1 DEF Grows, Prefix
    <3>5. ends'[y.n] = y.at
      BY <3>2, <3>3
    <3> QED BY <3>2, <3>3, <3>4, <3>5
  <2>3. Returns(x, y, V)'
    BY <1>6, <2>1, <2>2 DEF Returns
  <2> QED BY <1>2, <1>4, <2>3 DEF Moves
<1>7. CASE StoresNext(x, y, W)
  <2>1. /\ x.calls # <<>> /\ Head(x.calls).todo # <<>> /\ y.n = x.n
        /\ Head(x.calls).as # "value" => W[x.at + 1] = HeaderOf(Item(x.calls))
    BY <1>7 DEF StoresNext
  <2>2. PICK m \in Member : m = Item(x.calls)
    BY <1>1, <2>1, CallTypes
  <2>3. PICK a \in Nat : a = x.at + Own(x.calls) /\ (Head(x.calls).as # "value" => a = x.at + 1)
    <3>1. Own(x.calls) \in Nat /\ (Head(x.calls).as # "value" => Own(x.calls) = 1)
      BY DEF Own, OneIf
    <3>2. x.at + Own(x.calls) \in Nat
      BY <1>1, <3>1
    <3> QED BY <3>1, <3>2
  <2>4. m.size \in Nat /\ m.class \in Class
    BY DEF Member
  <2>5. a <= y.at
    <3>1. CASE IsPrimitive(m)
      BY <1>1, <1>7, <2>2, <2>3, <3>1 DEF StoresNext, ValueStored
    <3>2. CASE IsObject(m)
      BY <1>1, <1>7, <2>2, <2>3, <3>2 DEF StoresNext, ObjectStored
    <3>3. CASE m.type = "Array"
      BY <1>1, <1>7, <2>2, <2>3, <3>3, StoredArray
    <3> QED BY <3>1, <3>2, <3>3, MemberKinds DEF IsVector, IsObjects
  <2>6. Head(x.calls).as # "value" => V[x.at + 1] = HeaderOf(Item(x.calls))
    BY <1>1, <1>3, <2>1, <2>3, <2>5, SMTT(30)
  <2>7. m.type = "Array" =>
          /\ V[a + 1] = Header(FlagsOf(m), GetHeaderEnum(m.sub))
          /\ V[a + 2] = Size(m.size)
    <3>1. SUFFICES ASSUME m.type = "Array"
          PROVE  V[a + 1] = Header(FlagsOf(m), GetHeaderEnum(m.sub)) /\ V[a + 2] = Size(m.size)
      OBVIOUS
    <3>2. a + 2 <= y.at
      BY <1>7, <2>2, <2>3, <3>1, StoredArray
    <3>3. W[a + 1] = Header(FlagsOf(m), GetHeaderEnum(m.sub)) /\ W[a + 2] = Size(m.size)
      BY <1>7, <2>2, <2>3, <3>1 DEF StoresNext
    <3>4. V[a + 1] = W[a + 1] /\ V[a + 2] = W[a + 2]
      BY <1>1, <1>3, <3>2
    <3> QED BY <3>3, <3>4
  <2>8. IsPrimitive(m) => ValueStored(x, y, V)'
    <3>1. SUFFICES ASSUME IsPrimitive(m) PROVE ValueStored(x, y, V)'
      OBVIOUS
    <3>2. ValueStored(x, y, W)
      BY <1>7, <2>2, <3>1 DEF StoresNext
    <3>3. y.at = a + 1
      BY <2>3, <3>2 DEF ValueStored
    <3>4. V[y.at] = W[y.at]
      BY <1>1, <1>3, <3>3
    <3> QED BY <3>2, <3>4 DEF ValueStored
  <2>9. IsVector(m) => VectorStored(x, y, V)'
    <3>1. SUFFICES ASSUME IsVector(m) PROVE VectorStored(x, y, V)'
      OBVIOUS
    <3>2. VectorStored(x, y, W)
      BY <1>7, <2>2, <3>1 DEF StoresNext
    <3>3. y.at = a + 2 + m.size
      BY <2>2, <2>3, <3>2 DEF VectorStored
    <3>4. ASSUME NEW j \in 1 .. m.size PROVE V[a + 2 + j] = W[a + 2 + j]
      <4>1. j \in Nat
        BY <2>4
      <4>2. a + 2 + j \in Nat /\ a + 2 + j >= 1 /\ a + 2 + j <= y.at
        BY <2>4, <3>3, <4>1
      <4> QED BY <1>3, <4>2
    <3> QED BY <2>2, <2>3, <3>2, <3>4 DEF VectorStored
  <2>10. IsObject(m) => ObjectStored(x, y)'
    BY <1>7, <2>2 DEF StoresNext, ObjectStored
  <2>11. IsObjects(m) => ObjectsStored(x, y, V)'
    <3>1. SUFFICES ASSUME IsObjects(m) PROVE ObjectsStored(x, y, V)'
      OBVIOUS
    <3>2. ObjectsStored(x, y, W)
      BY <1>7, <2>2, <3>1 DEF StoresNext
    <3>3. PICK n \in Nat : n = Len(Members[m.class])
      BY <2>4, ClassMembers
    <3>4. ASSUME ElementsAs(m, Head(x.calls).as) = "value"
          PROVE  /\ y.at = a + 2 + n + 1 /\ V[y.at] = W[y.at]
                 /\ \A j \in 1 .. n : V[a + 2 + j] = W[a + 2 + j]
      <4>1. y.at = a + 2 + n + 1
        BY <2>2, <2>3, <3>2, <3>3, <3>4 DEF ObjectsStored
      <4>2. ASSUME NEW j \in 1 .. n PROVE V[a + 2 + j] = W[a + 2 + j]
        <5>1. j \in Nat /\ j <= n
          OBVIOUS
        <5>2. a + 2 + j \in Nat /\ a + 2 + j >= 1 /\ a + 2 + j <= y.at
          BY <4>1, <5>1
        <5> QED BY <1>3, <5>2
      <4> QED BY <1>1, <1>3, <4>1, <4>2
    <3> QED BY <2>2, <2>3, <3>2, <3>3, <3>4 DEF ObjectsStored
  <2>12. StoresNext(x, y, V)'
    BY <2>1, <2>2, <2>3, <2>6, <2>7, <2>8, <2>9, <2>10, <2>11 DEF StoresNext
  <2> QED BY <1>2, <1>4, <2>12 DEF Moves
<1> QED BY <1>5, <1>6, <1>7 DEF Moves

\* What the writer is at.
IsNow(x) == x = [at |-> Len(stream), calls |-> calls, n |-> Len(sent)]

\* One more step.
LEMMA HistoryGrows ==
  ASSUME Writer!TypeOK, Writer!TypeOK', NEW h, HistoryOf(h, stream), Grows, Prefix(stream, stream'),
         NEW x, IsNow(x), NEW y, IsNow(y)', NEW V, V = stream', Moves(x, y, V)',
         Len(ends') = Len(sent') - OneIf(calls' # <<>>)
  PROVE  HistoryOf(Append(h, y), V)'
<1>1. PICK W \in Seq(Token) : W = stream /\ V \in Seq(Token)
  BY WriterTerms DEF Writer!TypeOK
<1>2. /\ sent \in Seq(Sendable) /\ sent' \in Seq(Sendable)
      /\ ends \in Seq(Nat) /\ ends' \in Seq(Nat)
      /\ calls' \in Seq(CallRecord)
  BY WriterTerms DEF Writer!TypeOK
<1>3. y \in Moment
  BY <1>1, <1>2 DEF IsNow, Moment
<1>4. PICK n \in Nat : n = Len(h) /\ n >= 1 /\ h \in Seq(Moment) /\ h[1] = Start /\ h[n] = x
  BY DEF HistoryOf, IsNow
<1>5. PICK g : g = Append(h, y)
  OBVIOUS
<1>6. /\ g \in Seq(Moment) /\ Len(g) = n + 1 /\ g[n + 1] = y
      /\ \A k \in 1 .. n : g[k] = h[k]
  BY <1>3, <1>4, <1>5, AppendProperties
<1>7. ASSUME NEW k \in 1 .. n PROVE Moves(g[k], g[k + 1], V)'
  <2>1. CASE k = n
    <3>1. g[k] = x /\ g[k + 1] = y
      BY <1>4, <1>6, <2>1
    <3> QED BY <3>1
  <2>2. CASE k # n
    <3>1. k \in 1 .. (n - 1) /\ k + 1 \in 1 .. n
      BY <1>4, <2>2
    <3>2. Moves(h[k], h[k + 1], W)
      BY <1>1, <1>4, <3>1 DEF HistoryOf
    <3>3. h[k] \in Moment /\ h[k + 1] \in Moment
      BY <1>4, <3>1
    <3>4. PICK a \in Moment, b \in Moment : a = h[k] /\ b = h[k + 1]
      BY <3>3
    <3>5. Moves(a, b, V)'
      BY <1>1, <1>2, <3>2, <3>4, MovesKept
    <3> QED BY <1>6, <3>1, <3>4, <3>5
  <2> QED BY <2>1, <2>2
<1>8. g[1] = Start /\ Len(g) >= 1 /\ Len(g) - 1 = n /\ g[Len(g)] = y
  BY <1>4, <1>6
<1>9. HistoryOf(g, V)'
  BY <1>1, <1>6, <1>7, <1>8 DEF HistoryOf, IsNow
<1> QED BY <1>5, <1>9

\* One token, and what is put in front of a member.
LEMMA OwnWritten ==
  ASSUME stream \in Seq(Token), NEW m \in Member, NEW s, s = stream \o Writer!OwnHeader(m)
  PROVE  /\ s \in Seq(Token) /\ Len(s) = Len(stream) + Own(calls) /\ Prefix(stream, s)
         /\ Head(calls).as # "value" => s[Len(stream) + 1] = HeaderOf(m)
         /\ Own(calls) \in Nat
<1>1. Writer!OwnHeader(m) \in Seq(Token)
  BY HeadersStored, WriterTerms
<1>2. PICK H \in Seq(Token) : H = Writer!OwnHeader(m)
  BY <1>1
<1>3. /\ s \in Seq(Token) /\ Len(s) = Len(stream) + Len(H) /\ Prefix(stream, s)
      /\ \A j \in 1 .. Len(H) : s[Len(stream) + j] = H[j]
  BY <1>2, Behind
<1>4. CASE Head(calls).as = "value"
  <2>1. H = <<>>
    BY <1>2, <1>4 DEF Writer!OwnHeader, Writer!As
  <2>2. Len(H) = 0 /\ Own(calls) = 0
    BY <1>4, <2>1 DEF Own, OneIf
  <2> QED BY <1>3, <1>4, <2>2
<1>5. CASE Head(calls).as # "value"
  <2>1. H = <<Writer!MemberHeader(m)>>
    BY <1>2, <1>5 DEF Writer!OwnHeader, Writer!As
  <2>2. H = <<HeaderOf(m)>>
    BY <2>1, WriterTerms
  <2>3. Len(H) = 1 /\ Own(calls) = 1 /\ H[1] = HeaderOf(m)
    BY <1>5, <2>2 DEF Own, OneIf
  <2> QED BY <1>3, <2>3
<1> QED BY <1>4, <1>5

\* The header of an array.
LEMMA ArrayWritten ==
  ASSUME NEW r \in Seq(Token), NEW m \in Member, m.type = "Array", NEW s, s = r \o Writer!ArrayHeader(m)
  PROVE  /\ s \in Seq(Token) /\ Len(s) = Len(r) + 2 /\ Prefix(r, s)
         /\ s[Len(r) + 1] = Header(FlagsOf(m), GetHeaderEnum(m.sub))
         /\ s[Len(r) + 2] = Size(m.size)
<1>1. Writer!ArrayHeader(m) \in Seq(Token)
  BY HeadersStored, WriterTerms
<1>2. PICK A \in Seq(Token) : A = Writer!ArrayHeader(m)
  BY <1>1
<1>3. /\ s \in Seq(Token) /\ Len(s) = Len(r) + Len(A) /\ Prefix(r, s)
      /\ \A j \in 1 .. Len(A) : s[Len(r) + j] = A[j]
  BY <1>2, Behind
<1>4. A = <<Header(FlagsOf(m), GetHeaderEnum(m.sub)), Size(m.size)>>
  <2>1. \A i, type : Writer!Header(i, type) = Header(i, type)
    BY DEF Writer!Header, Header
  <2>2. Writer!GetHeaderEnum(m.sub) = GetHeaderEnum(m.sub)
    BY DEF Writer!GetHeaderEnum, GetHeaderEnum
  <2>3. A = <<Writer!Header(Writer!Flags(m), Writer!GetHeaderEnum(m.sub)), Writer!Size(m.size)>>
    BY <1>2 DEF Writer!ArrayHeader
  <2> QED BY <2>1, <2>2, <2>3, WriterTerms
<1>5. Len(A) = 2 /\ A[1] = Header(FlagsOf(m), GetHeaderEnum(m.sub)) /\ A[2] = Size(m.size)
  BY <1>4
<1> QED BY <1>3, <1>5

\* Where the writer comes to by a step.
Extends(x, y, V) ==
  /\ Moves(x, y, V)' /\ Grows /\ Prefix(stream, V)
  /\ Len(ends') = Len(sent') - OneIf(calls' # <<>>)
\* What is known before one.
Before(x, y, V) ==
  /\ Writer!TypeOK /\ Writer!TypeOK' /\ IsNow(x) /\ IsNow(y)' /\ V = stream'
  /\ Len(ends) = Len(sent) - OneIf(calls # <<>>)

\* What the writer has is of its kinds.
LEMMA BeforeTypes ==
  ASSUME NEW x, NEW y, NEW V, Before(x, y, V)
  PROVE  /\ stream \in Seq(Token) /\ V \in Seq(Token) /\ calls \in Seq(CallRecord)
         /\ sent \in Seq(Sendable) /\ ends \in Seq(Nat)
         /\ x.at = Len(stream) /\ x.calls = calls /\ x.n = Len(sent)
         /\ y.at = Len(V) /\ y.calls = calls' /\ y.n = Len(sent')
         /\ Len(sent) \in Nat /\ Len(ends) \in Nat /\ Len(stream) \in Nat /\ Len(V) \in Nat
  BY WriterTerms DEF Before, Writer!TypeOK, IsNow

\* Nothing becomes longer.
LEMMA SameGrows ==
  ASSUME sent \in Seq(Sendable), ends \in Seq(Nat), sent' = sent, ends' = ends
  PROVE  Grows
BY DEF Grows, Prefix

\* Some message is entered.
LEMMA OpensNext ==
  ASSUME NEW x, NEW y, NEW V, Before(x, y, V), NEW c \in Sendable, Writer!StoreEntryPoint(c)
  PROVE  Extends(x, y, V)
<1>1. /\ stream \in Seq(Token) /\ V \in Seq(Token) /\ calls = <<>>
      /\ sent \in Seq(Sendable) /\ ends \in Seq(Nat)
      /\ x.at = Len(stream) /\ x.calls = calls /\ x.n = Len(sent)
      /\ y.at = Len(V) /\ y.calls = calls' /\ y.n = Len(sent')
      /\ Len(sent) \in Nat /\ Len(ends) \in Nat /\ Len(stream) \in Nat
  BY BeforeTypes DEF Writer!StoreEntryPoint
<1>2. V = stream /\ ends' = ends /\ sent' = Append(sent, c)
  BY DEF Before, Writer!StoreEntryPoint
<1>3. PICK n \in Nat : n = Len(sent)
  BY <1>1
<1>4. /\ Len(sent') = n + 1 /\ sent'[n + 1] = c
      /\ \A i \in 1 .. n : sent'[i] = sent[i]
  BY <1>1, <1>2, <1>3, AppendProperties
<1>5. calls' = <<CallOf(c, <<n + 1>>, "object")>>
  <2>1. calls' = <<Writer!Call(c, <<Len(sent')>>, "object")>>
    BY DEF Writer!StoreEntryPoint
  <2> QED BY <1>4, <2>1, WriterTerms
<1>6. Opens(x, y)'
  BY <1>1, <1>2, <1>3, <1>4, <1>5 DEF Opens
<1>7. Moves(x, y, V)'
  BY <1>1, <1>2, <1>6 DEF Moves
<1>8. Grows /\ Prefix(stream, V)
  BY <1>1, <1>2, <1>3, <1>4 DEF Grows, Prefix
<1>9. Len(ends') = Len(sent') - OneIf(calls' # <<>>)
  <2>1. Len(ends) = n - 0
    BY <1>1, <1>3 DEF Before, OneIf
  <2>2. calls' # <<>>
    BY <1>5
  <2> QED BY <1>2, <1>3, <1>4, <2>1, <2>2 DEF OneIf
<1> QED BY <1>7, <1>8, <1>9 DEF Extends

\* OnSerialise returns.
LEMMA ReturnsNext ==
  ASSUME NEW x, NEW y, NEW V, Before(x, y, V), Writer!Return
  PROVE  Extends(x, y, V)
<1>1. /\ stream \in Seq(Token) /\ V \in Seq(Token) /\ calls \in Seq(CallRecord)
      /\ sent \in Seq(Sendable) /\ ends \in Seq(Nat)
      /\ x.at = Len(stream) /\ x.calls = calls /\ x.n = Len(sent)
      /\ y.at = Len(V) /\ y.calls = calls' /\ y.n = Len(sent')
      /\ Len(sent) \in Nat /\ Len(ends) \in Nat /\ Len(stream) \in Nat /\ Len(V) \in Nat
  BY BeforeTypes
<1>2. /\ calls # <<>> /\ Head(calls).todo = <<>> /\ calls' = Tail(calls) /\ sent' = sent
      /\ V = IF Head(calls).as = "object" THEN Append(stream, Terminator) ELSE stream
      /\ ends' = IF calls' = <<>> THEN Append(ends, Len(V)) ELSE ends
  BY WriterTerms DEF Before, Writer!Return, Writer!As
<1>3. Len(ends) = Len(sent) - 1
  BY <1>2 DEF Before, OneIf
<1>4. /\ Len(V) = Len(stream) + OneIf(Head(calls).as = "object") /\ Prefix(stream, V)
      /\ Head(calls).as = "object" => V[Len(V)] = Terminator
      /\ Len(stream) <= Len(V)
  <2>1. CASE Head(calls).as = "object"
    <3>1. V = Append(stream, Terminator)
      BY <1>2, <2>1
    <3>2. Len(V) = Len(stream) + 1 /\ V[Len(stream) + 1] = Terminator
          /\ \A i \in 1 .. Len(stream) : V[i] = stream[i]
      BY <1>1, <3>1, AppendProperties
    <3> QED BY <1>1, <2>1, <3>2 DEF Prefix, OneIf
  <2>2. CASE Head(calls).as # "object"
    BY <1>1, <1>2, <2>2 DEF Prefix, OneIf
  <2> QED BY <2>1, <2>2
<1>5. /\ Grows /\ Len(ends') = Len(sent') - OneIf(calls' # <<>>)
      /\ calls' = <<>> => Len(sent) \in 1 .. Len(ends') /\ ends'[Len(sent)] = Len(V)
  <2>1. CASE calls' = <<>>
    <3>1. ends' = Append(ends, Len(V))
      BY <1>2, <2>1
    <3>2. /\ Len(ends') = Len(ends) + 1 /\ ends'[Len(ends) + 1] = Len(V)
          /\ \A i \in 1 .. Len(ends) : ends'[i] = ends[i]
      BY <1>1, <3>1, AppendProperties
    <3>3. Len(ends') = Len(sent) /\ Len(ends) + 1 = Len(sent)
      BY <1>1, <1>3, <3>2
    <3>4. Prefix(ends, ends') /\ Prefix(sent, sent')
      BY <1>1, <1>2, <3>2, <3>3 DEF Prefix
    <3>5. Len(sent) \in 1 .. Len(ends') /\ ends'[Len(sent)] = Len(V)
      BY <1>1, <3>2, <3>3
    <3>6. Len(ends') = Len(sent') - OneIf(calls' # <<>>)
      <4>1. OneIf(calls' # <<>>) = 0
        BY <2>1 DEF OneIf
      <4> QED BY <1>1, <1>2, <3>3, <4>1
    <3> QED BY <3>4, <3>5, <3>6 DEF Grows
  <2>2. CASE calls' # <<>>
    BY <1>1, <1>2, <1>3, <2>2, SameGrows DEF OneIf
  <2> QED BY <2>1, <2>2
<1>6. Returns(x, y, V)'
  BY <1>1, <1>2, <1>4, <1>5 DEF Returns
<1>7. Moves(x, y, V)'
  BY <1>1, <1>4, <1>6 DEF Moves
<1> QED BY <1>4, <1>5, <1>7 DEF Extends

\* A Store call: what remains to be said of each.
StoresOwn(x, y, V, m) ==
  /\ IsPrimitive(m) => ValueStored(x, y, V)'
  /\ IsVector(m) => VectorStored(x, y, V)'
  /\ IsObject(m) => ObjectStored(x, y)'
  /\ IsObjects(m) => ObjectsStored(x, y, V)'

\* Behind the header of its own, and behind that of the array.
LEMMA StoresMoves ==
  ASSUME NEW x, NEW y, NEW V, Before(x, y, V), calls # <<>>, Head(calls).todo # <<>>, calls' # <<>>,
         sent' = sent, ends' = ends,
         NEW m \in Member, m = Item(calls),
         NEW s \in Seq(Token), s = stream \o Writer!OwnHeader(m), Prefix(s, V),
         m.type = "Array" => Prefix(s \o Writer!ArrayHeader(m), V),
         StoresOwn(x, y, V, m)
  PROVE  Extends(x, y, V)
<1>1. /\ stream \in Seq(Token) /\ V \in Seq(Token)
      /\ sent \in Seq(Sendable) /\ ends \in Seq(Nat)
      /\ x.at = Len(stream) /\ x.calls = calls /\ x.n = Len(sent)
      /\ y.at = Len(V) /\ y.calls = calls' /\ y.n = Len(sent')
      /\ Len(sent) \in Nat /\ Len(stream) \in Nat /\ Len(V) \in Nat
  BY BeforeTypes
<1>2. /\ Len(s) = Len(stream) + Own(calls) /\ Prefix(stream, s)
      /\ Head(calls).as # "value" => s[Len(stream) + 1] = HeaderOf(m)
      /\ Own(calls) \in Nat
  BY <1>1, OwnWritten
<1>3. Prefix(stream, V)
  BY <1>1, <1>2, PrefixTwice
<1>4. Head(x.calls).as # "value" => V[x.at + 1] = HeaderOf(Item(x.calls))
  <2>1. SUFFICES ASSUME Head(calls).as # "value" PROVE V[Len(stream) + 1] = HeaderOf(m)
    BY <1>1
  <2>2. Len(s) = Len(stream) + 1
    BY <1>2, <2>1 DEF Own, OneIf
  <2>3. Len(stream) + 1 \in 1 .. Len(s)
    BY <1>1, <2>2
  <2> QED BY <1>2, <2>1, <2>3 DEF Prefix
<1>5. PICK a \in Nat : a = x.at + Own(x.calls) /\ a = Len(s)
  BY <1>1, <1>2
<1>6. m.type = "Array" =>
        /\ V[a + 1] = Header(FlagsOf(m), GetHeaderEnum(m.sub))
        /\ V[a + 2] = Size(m.size)
  <2>1. SUFFICES ASSUME m.type = "Array"
        PROVE  V[a + 1] = Header(FlagsOf(m), GetHeaderEnum(m.sub)) /\ V[a + 2] = Size(m.size)
    OBVIOUS
  <2>2. PICK t : t = s \o Writer!ArrayHeader(m)
    OBVIOUS
  <2>3. /\ Len(t) = Len(s) + 2
        /\ t[Len(s) + 1] = Header(FlagsOf(m), GetHeaderEnum(m.sub))
        /\ t[Len(s) + 2] = Size(m.size)
    BY <2>1, <2>2, ArrayWritten
  <2>4. a + 1 \in 1 .. Len(t) /\ a + 2 \in 1 .. Len(t)
    BY <1>5, <2>3
  <2>5. V[a + 1] = t[a + 1] /\ V[a + 2] = t[a + 2]
    BY <2>1, <2>2, <2>4 DEF Prefix
  <2> QED BY <1>5, <2>3, <2>5
<1>7. StoresNext(x, y, V)'
  BY <1>1, <1>4, <1>5, <1>6 DEF StoresNext, StoresOwn
<1>8. Moves(x, y, V)'
  BY <1>1, <1>3, <1>7 DEF Moves, Prefix
<1>9. Grows
  BY <1>1, SameGrows
<1>10. Len(ends') = Len(sent') - OneIf(calls' # <<>>)
  BY DEF Before, OneIf
<1> QED BY <1>3, <1>8, <1>9, <1>10 DEF Extends

\* Which kind of a member it is.
LEMMA OneKind ==
  ASSUME NEW m \in Member
  PROVE  /\ IsPrimitive(m) => m.type # "Array"
         /\ IsObject(m) => m.type # "Array"
         /\ IsVector(m) => m.type = "Array"
         /\ IsObjects(m) => m.type = "Array"
  BY DEF IsPrimitive, IsObject, IsVector, IsObjects, PrimitiveTypes, IntegerTypes

\* Nothing behind is what is there.
LEMMA PrefixSelf ==
  ASSUME NEW s
  PROVE  Len(s) \in Nat => Prefix(s, s)
  BY DEF Prefix

\* Store.
LEMMA ValueNext ==
  ASSUME NEW x, NEW y, NEW V, Before(x, y, V), calls # <<>>, Head(calls).todo # <<>>,
         NEW m \in Member, m = Item(calls), NEW path, path = ItemPath(calls), Writer!Store(m, path)
  PROVE  Extends(x, y, V)
<1>1. /\ stream \in Seq(Token) /\ calls \in Seq(CallRecord)
      /\ x.at = Len(stream) /\ x.calls = calls /\ y.at = Len(V) /\ y.calls = calls'
      /\ Len(stream) \in Nat
  BY BeforeTypes
<1>2. /\ IsPrimitive(m) /\ calls' = AfterStore(calls) /\ sent' = sent /\ ends' = ends
      /\ V = stream \o Writer!OwnHeader(m) \o <<Value(path)>>
  BY WriterTerms DEF Before, Writer!Store
<1>3. PICK s : s = stream \o Writer!OwnHeader(m)
  OBVIOUS
<1>4. s \in Seq(Token) /\ Len(s) = Len(stream) + Own(calls) /\ Own(calls) \in Nat
  BY <1>1, <1>3, OwnWritten
<1>5. path \in Seq(Nat) /\ AfterStore(calls) # <<>>
  BY <1>1, CallTypes
<1>6. <<Value(path)>> \in Seq(Token)
  BY <1>5 DEF Value, Token
<1>7. PICK t \in Seq(Token) : t = <<Value(path)>>
  BY <1>6
<1>8. /\ Len(V) = Len(s) + 1 /\ Prefix(s, V) /\ V[Len(s) + 1] = Value(path)
  <2>1. V = s \o t
    BY <1>2, <1>3, <1>7
  <2>2. /\ Len(V) = Len(s) + Len(t) /\ Prefix(s, V)
        /\ \A j \in 1 .. Len(t) : V[Len(s) + j] = t[j]
    <3>1. PICK r \in Seq(Token) : r = s
      BY <1>4
    <3> QED BY <2>1, <3>1, Behind
  <2>3. Len(t) = 1 /\ t[1] = Value(path)
    BY <1>7
  <2> QED BY <2>2, <2>3
<1>9. ValueStored(x, y, V)'
  BY <1>1, <1>2, <1>4, <1>8 DEF ValueStored
<1>10. StoresOwn(x, y, V, m)
  BY <1>2, <1>9, MemberKinds DEF StoresOwn
<1>11. m.type # "Array"
  BY <1>2, OneKind
<1> QED BY <1>2, <1>3, <1>4, <1>5, <1>8, <1>10, <1>11, StoresMoves

\* StoreVector.
LEMMA VectorNext ==
  ASSUME NEW x, NEW y, NEW V, Before(x, y, V), calls # <<>>, Head(calls).todo # <<>>,
         NEW m \in Member, m = Item(calls), NEW path, path = ItemPath(calls), Writer!StoreVector(m, path)
  PROVE  Extends(x, y, V)
<1>1. /\ stream \in Seq(Token) /\ calls \in Seq(CallRecord)
      /\ x.at = Len(stream) /\ x.calls = calls /\ y.at = Len(V) /\ y.calls = calls'
      /\ Len(stream) \in Nat
  BY BeforeTypes
<1>2. PICK r : r = [k \in 1 .. m.size |-> Value(Append(path, k))]
  OBVIOUS
<1>3. /\ IsVector(m) /\ calls' = AfterStore(calls) /\ sent' = sent /\ ends' = ends
      /\ V = stream \o Writer!OwnHeader(m) \o Writer!ArrayHeader(m) \o r
  BY <1>2, WriterTerms DEF Before, Writer!StoreVector
<1>4. PICK s : s = stream \o Writer!OwnHeader(m)
  OBVIOUS
<1>5. s \in Seq(Token) /\ Len(s) = Len(stream) + Own(calls) /\ Own(calls) \in Nat
  BY <1>1, <1>4, OwnWritten
<1>6. path \in Seq(Nat) /\ AfterStore(calls) # <<>> /\ m.type = "Array" /\ m.size \in Nat
  BY <1>1, <1>3, CallTypes, OneKind DEF Member
<1>7. PICK t : t = s \o Writer!ArrayHeader(m)
  OBVIOUS
<1>8. t \in Seq(Token) /\ Len(t) = Len(s) + 2 /\ Prefix(s, t)
  BY <1>5, <1>6, <1>7, ArrayWritten
<1>9. r \in Seq(Token) /\ Len(r) = m.size
  <2>1. ASSUME NEW k \in 1 .. m.size PROVE Value(Append(path, k)) \in Token
    <3>1. k \in Nat
      BY <1>6
    <3>2. Append(path, k) \in Seq(Nat)
      BY <1>6, <3>1
    <3> QED BY <3>2 DEF Value, Token
  <2>2. r \in [1 .. m.size -> Token]
    BY <1>2, <2>1
  <2>3. r \in Seq(Token)
    BY <1>6, <2>2, FunctionIsSeq
  <2>4. Len(r) = m.size
    BY <1>2, <1>6, <2>3
  <2> QED BY <2>3, <2>4
<1>10. V = t \o r
  BY <1>3, <1>4, <1>7
<1>11. /\ V \in Seq(Token) /\ Len(V) = Len(t) + Len(r) /\ Prefix(t, V)
       /\ \A j \in 1 .. Len(r) : V[Len(t) + j] = r[j]
  <2>1. PICK a \in Seq(Token), b \in Seq(Token) : a = t /\ b = r
    BY <1>8, <1>9
  <2> QED BY <1>10, <2>1, Behind
<1>12. \A j \in 1 .. m.size : V[Len(s) + 2 + j] = Value(Append(path, j))
  BY <1>2, <1>8, <1>9, <1>11
<1>13. VectorStored(x, y, V)'
  <2>1. y.at = x.at + Own(x.calls) + 2 + m.size
    BY <1>1, <1>5, <1>6, <1>8, <1>9, <1>11
  <2>2. \A j \in 1 .. m.size : V[x.at + Own(x.calls) + 2 + j] = Value(Append(path, j))
    BY <1>1, <1>5, <1>12
  <2> QED BY <1>1, <1>3, <2>1, <2>2 DEF VectorStored
<1>14. StoresOwn(x, y, V, m)
  BY <1>3, <1>13, MemberKinds DEF StoresOwn
<1>15. Prefix(s, V)
  BY <1>5, <1>8, <1>11, PrefixTwice
<1> QED BY <1>3, <1>4, <1>5, <1>6, <1>7, <1>11, <1>14, <1>15, StoresMoves

\* The calls that it leads to are there.
LEMMA CallsBehind ==
  ASSUME NEW c \in Seq(CallRecord), NEW d \in Seq(CallRecord), d # <<>>
  PROVE  c \o d # <<>>
<1>1. Len(c \o d) = Len(c) + Len(d) /\ Len(c) \in Nat /\ Len(d) \in Nat /\ Len(d) # 0
  BY EmptySeq
<1>2. Len(<<>>) = 0
  OBVIOUS
<1> QED BY <1>1, <1>2

\* StoreObject.
LEMMA ObjectNext ==
  ASSUME NEW x, NEW y, NEW V, Before(x, y, V), calls # <<>>, Head(calls).todo # <<>>,
         NEW m \in Member, m = Item(calls), NEW path, path = ItemPath(calls), Writer!StoreObject(m, path)
  PROVE  Extends(x, y, V)
<1>1. /\ stream \in Seq(Token) /\ calls \in Seq(CallRecord)
      /\ x.at = Len(stream) /\ x.calls = calls /\ y.at = Len(V) /\ y.calls = calls'
      /\ Len(stream) \in Nat
  BY BeforeTypes
<1>2. /\ IsObject(m) /\ calls' = <<CallOf(m.class, path, "object")>> \o AfterStore(calls)
      /\ sent' = sent /\ ends' = ends /\ V = stream \o Writer!OwnHeader(m)
  BY WriterTerms DEF Before, Writer!StoreObject
<1>3. PICK s : s = stream \o Writer!OwnHeader(m)
  OBVIOUS
<1>4. s \in Seq(Token) /\ Len(s) = Len(stream) + Own(calls) /\ Own(calls) \in Nat /\ s = V
  BY <1>1, <1>2, <1>3, OwnWritten
<1>5. ObjectStored(x, y)'
  BY <1>1, <1>2, <1>4 DEF ObjectStored
<1>6. StoresOwn(x, y, V, m)
  BY <1>2, <1>5, MemberKinds DEF StoresOwn
<1>7. m.type # "Array" /\ Prefix(s, V)
  <2>1. Len(s) \in Nat
    BY <1>4
  <2> QED BY <1>2, <1>4, <2>1, OneKind, PrefixSelf
<1>8. calls' # <<>>
  <2>1. AfterStore(calls) \in Seq(CallRecord)
    BY <1>1, CallTypes
  <2>2. Len(calls') = 1 + Len(AfterStore(calls)) /\ Len(AfterStore(calls)) \in Nat
    BY <1>2, <2>1, Fronted
  <2>3. Len(<<>>) = 0
    OBVIOUS
  <2> QED BY <2>2, <2>3
<1> QED BY <1>2, <1>3, <1>4, <1>6, <1>7, <1>8, StoresMoves

\* The elements of a vector.
LEMMA ElementCalls ==
  ASSUME calls \in Seq(CallRecord), calls # <<>>, Head(calls).todo # <<>>,
         NEW m \in Member, NEW path \in Seq(Nat), NEW as \in {"object", "value", "inner"},
         calls' = Writer!Elements(m, path, as) \o Writer!Advanced
  PROVE  /\ calls' # <<>>
         /\ calls' = [k \in 1 .. m.size |-> CallOf(m.class, Append(path, k), as)] \o AfterStore(calls)
<1>1. Writer!Elements(m, path, as) = [k \in 1 .. m.size |-> CallOf(m.class, Append(path, k), as)]
  BY WriterTerms DEF Writer!Elements
<1>2. Writer!Elements(m, path, as) \in Seq(CallRecord)
  BY ElementsStored, WriterTerms
<1>3. AfterStore(calls) \in Seq(CallRecord) /\ AfterStore(calls) # <<>>
  BY CallTypes
<1>4. Writer!Advanced = AfterStore(calls)
  BY WriterTerms
<1> QED BY <1>1, <1>2, <1>3, <1>4, CallsBehind

\* What is known before a vector of objects is stored.
LEMMA ObjectsBefore ==
  ASSUME NEW x, NEW y, NEW V, Before(x, y, V), calls # <<>>, Head(calls).todo # <<>>,
         NEW m \in Member, m = Item(calls), IsObjects(m),
         NEW path, path = ItemPath(calls),
         NEW s, s = stream \o Writer!OwnHeader(m), NEW t, t = s \o Writer!ArrayHeader(m)
  PROVE  /\ stream \in Seq(Token) /\ calls \in Seq(CallRecord)
         /\ x.at = Len(stream) /\ x.calls = calls /\ y.at = Len(V) /\ y.calls = calls'
         /\ Len(stream) \in Nat /\ Own(calls) \in Nat
         /\ s \in Seq(Token) /\ Len(s) = Len(stream) + Own(calls)
         /\ t \in Seq(Token) /\ Len(t) = Len(stream) + Own(calls) + 2 /\ Prefix(s, t)
         /\ path \in Seq(Nat) /\ m.type = "Array" /\ m.size \in Nat /\ m.class \in Class
         /\ m.packed \in BOOLEAN
         /\ Prefix(t, t)
<1>1. /\ stream \in Seq(Token) /\ calls \in Seq(CallRecord)
      /\ x.at = Len(stream) /\ x.calls = calls /\ y.at = Len(V) /\ y.calls = calls'
      /\ Len(stream) \in Nat
  BY BeforeTypes
<1>2. s \in Seq(Token) /\ Len(s) = Len(stream) + Own(calls) /\ Own(calls) \in Nat
  BY <1>1, OwnWritten
<1>3. path \in Seq(Nat) /\ m.type = "Array" /\ m.size \in Nat /\ m.class \in Class /\ m.packed \in BOOLEAN
  BY <1>1, CallTypes, OneKind DEF Member
<1>4. t \in Seq(Token) /\ Len(t) = Len(s) + 2 /\ Prefix(s, t)
  BY <1>2, <1>3, ArrayWritten
<1>5. Len(t) = Len(stream) + Own(calls) + 2 /\ Len(t) \in Nat
  BY <1>1, <1>2, <1>4
<1>6. Prefix(t, t)
  BY <1>5, PrefixSelf
<1> QED BY <1>1, <1>2, <1>3, <1>4, <1>5, <1>6

\* StoreObjectVector without the flag, and in the value message whatever the flag.
LEMMA ObjectVectorNext ==
  ASSUME NEW x, NEW y, NEW V, Before(x, y, V), calls # <<>>, Head(calls).todo # <<>>,
         NEW m \in Member, m = Item(calls), NEW path, path = ItemPath(calls),
         Writer!StoreObjectVector(m, path) \/ Writer!StoreInnerVector(m, path)
  PROVE  Extends(x, y, V)
<1> DEFINE s == stream \o Writer!OwnHeader(m)
           t == s \o Writer!ArrayHeader(m)
<1>1. s = stream \o Writer!OwnHeader(m) /\ t = s \o Writer!ArrayHeader(m)
  OBVIOUS
<1> HIDE DEF s, t
<1>2. IsObjects(m) /\ sent' = sent /\ ends' = ends
  BY WriterTerms DEF Writer!StoreObjectVector, Writer!StoreInnerVector
<1>3. /\ stream \in Seq(Token) /\ calls \in Seq(CallRecord)
      /\ x.at = Len(stream) /\ x.calls = calls /\ y.at = Len(V) /\ y.calls = calls'
      /\ Len(stream) \in Nat /\ Own(calls) \in Nat
      /\ s \in Seq(Token) /\ Len(s) = Len(stream) + Own(calls)
      /\ t \in Seq(Token) /\ Len(t) = Len(stream) + Own(calls) + 2 /\ Prefix(s, t)
      /\ path \in Seq(Nat) /\ m.type = "Array" /\ m.size \in Nat
      /\ Prefix(t, t)
  BY <1>1, <1>2, ObjectsBefore, ZenonT(40)
<1>4. V = t
  <2>1. CASE Writer!StoreObjectVector(m, path)
    BY <1>1, <2>1 DEF Writer!StoreObjectVector, Before
  <2>2. CASE Writer!StoreInnerVector(m, path)
    <3>1. Writer!OwnHeader(m) = <<>>
      BY <2>2 DEF Writer!StoreInnerVector, Writer!OwnHeader
    <3>2. s = stream
      BY <1>1, <1>3, <3>1
    <3> QED BY <1>1, <2>2, <3>2 DEF Writer!StoreInnerVector, Before
  <2> QED BY <2>1, <2>2
<1>5. PICK as \in {"object", "inner"} :
        /\ as = ElementsAs(m, Head(calls).as)
        /\ calls' = Writer!Elements(m, path, as) \o Writer!Advanced
  <2>1. CASE Writer!StoreObjectVector(m, path)
    BY <2>1 DEF Writer!StoreObjectVector, ElementsAs, Writer!As
  <2>2. CASE Writer!StoreInnerVector(m, path)
    BY <2>2 DEF Writer!StoreInnerVector, ElementsAs, Writer!As
  <2> QED BY <2>1, <2>2
<1>6. /\ calls' # <<>>
      /\ calls' = [k \in 1 .. m.size |-> CallOf(m.class, Append(path, k), as)] \o AfterStore(calls)
  BY <1>3, <1>5, ElementCalls, ZenonT(40)
<1>7. ObjectsStored(x, y, V)'
  BY <1>3, <1>4, <1>5, <1>6 DEF ObjectsStored
<1>8. StoresOwn(x, y, V, m)
  BY <1>2, <1>7, MemberKinds DEF StoresOwn
<1> QED BY <1>1, <1>2, <1>3, <1>4, <1>6, <1>8, StoresMoves

\* StoreObjectVector with the flag.
LEMMA PackedVectorNext ==
  ASSUME NEW x, NEW y, NEW V, Before(x, y, V), calls # <<>>, Head(calls).todo # <<>>,
         NEW m \in Member, m = Item(calls), NEW path, path = ItemPath(calls),
         Writer!StorePackedVector(m, path)
  PROVE  Extends(x, y, V)
<1> DEFINE s == stream \o Writer!OwnHeader(m)
           t == s \o Writer!ArrayHeader(m)
<1>1. s = stream \o Writer!OwnHeader(m) /\ t = s \o Writer!ArrayHeader(m)
  OBVIOUS
<1> HIDE DEF s, t
<1>2. IsObjects(m) /\ sent' = sent /\ ends' = ends /\ m.packed /\ Head(calls).as # "value"
  BY WriterTerms DEF Writer!StorePackedVector, Writer!As
<1>3. /\ stream \in Seq(Token) /\ calls \in Seq(CallRecord)
      /\ x.at = Len(stream) /\ x.calls = calls /\ y.at = Len(V) /\ y.calls = calls'
      /\ Len(stream) \in Nat /\ Own(calls) \in Nat
      /\ s \in Seq(Token) /\ Len(s) = Len(stream) + Own(calls)
      /\ t \in Seq(Token) /\ Len(t) = Len(stream) + Own(calls) + 2 /\ Prefix(s, t)
      /\ path \in Seq(Nat) /\ m.type = "Array" /\ m.size \in Nat /\ m.class \in Class
      /\ Prefix(t, t)
  <2>1. IsObjects(m)
    BY <1>2
  <2> QED BY <1>1, <2>1, ObjectsBefore, ZenonT(40)
<1>4. PICK todo \in Seq(Member) : todo = Members[m.class]
  BY <1>3, ClassMembers
<1> DEFINE n == Len(todo)
<1>20. n \in Nat /\ n = Len(Members[m.class])
  BY <1>4
<1> HIDE DEF n
<1>5. PICK r : r = [i \in 1 .. n |-> HeaderOf(todo[i])]
  OBVIOUS
<1>6. r = [i \in 1 .. Len(Members[m.class]) |-> Writer!MemberHeader(Members[m.class][i])]
  BY <1>4, <1>5, <1>20, WriterTerms
<1>7. V = (t \o r) \o <<Terminator>>
  BY <1>1, <1>6, WriterTerms DEF Before, Writer!StorePackedVector
<1>8. r \in Seq(Token) /\ Len(r) = n
  <2>1. ASSUME NEW i \in 1 .. n PROVE HeaderOf(todo[i]) \in Token
    <3>1. todo[i] \in Member
      BY <1>4 DEF n
    <3> QED BY <3>1, HeadersStored, WriterTerms
  <2>2. r \in [1 .. n -> Token]
    BY <1>5, <2>1
  <2>3. r \in Seq(Token)
    BY <1>20, <2>2, FunctionIsSeq
  <2>4. Len(r) = n
    BY <1>5, <1>20, <2>3
  <2> QED BY <2>3, <2>4
<1>9. PICK u : u = t \o r
  OBVIOUS
<1>10. /\ u \in Seq(Token) /\ Len(u) = Len(t) + n /\ Prefix(t, u)
       /\ \A j \in 1 .. n : u[Len(t) + j] = r[j]
  <2>1. PICK a \in Seq(Token), b \in Seq(Token) : a = t /\ b = r
    BY <1>3, <1>8
  <2> QED BY <1>8, <1>9, <2>1, Behind
<1>31. <<Terminator>> \in Seq(Token)
  <2>1. Terminator \in Token
    BY DEF Terminator, Header, Token, HeaderToken, HeaderTypes
  <2>2. \A z \in Token : <<z>> \in Seq(Token)
    OBVIOUS
  <2> QED BY <2>1, <2>2
<1>11. PICK e \in Seq(Token) : e = <<Terminator>>
  BY <1>31
<1>21. Len(e) = 1 /\ e[1] = Terminator
  BY <1>11
<1>12. /\ V \in Seq(Token) /\ Len(V) = Len(u) + 1 /\ Prefix(u, V) /\ V[Len(u) + 1] = Terminator
  <2>1. PICK a \in Seq(Token) : a = u
    BY <1>10
  <2>3. V = a \o e
    BY <1>7, <1>9, <1>11, <2>1
  <2>2. /\ V \in Seq(Token) /\ Len(V) = Len(u) + Len(e) /\ Prefix(u, V)
        /\ \A j \in 1 .. Len(e) : V[Len(u) + j] = e[j]
    BY <2>1, <2>3, Behind
  <2> QED BY <1>21, <2>2
<1>13. PICK a \in Nat : a = Len(t) /\ a = x.at + Own(x.calls) + 2
  BY <1>3
<1>14. /\ y.at = a + n + 1 /\ V[y.at] = Terminator
       /\ \A j \in 1 .. n : V[a + j] = HeaderOf(todo[j])
  <2>1. y.at = a + n + 1 /\ Len(u) = a + n
    BY <1>3, <1>10, <1>12, <1>13, <1>20
  <2>2. ASSUME NEW j \in 1 .. n PROVE V[a + j] = HeaderOf(todo[j])
    <3>1. j \in Nat /\ a + j \in 1 .. Len(u)
      BY <1>20, <2>1
    <3>2. V[a + j] = u[a + j]
      BY <1>12, <3>1 DEF Prefix
    <3> QED BY <1>5, <1>10, <1>13, <3>2
  <2> QED BY <1>12, <2>1, <2>2
<1>15. ElementsAs(m, Head(calls).as) = "value"
  BY <1>2 DEF ElementsAs
<1>16. /\ calls' # <<>>
       /\ calls' = [k \in 1 .. m.size |-> CallOf(m.class, Append(path, k), "value")] \o AfterStore(calls)
  <2>1. calls' = Writer!Elements(m, path, "value") \o Writer!Advanced
    BY DEF Writer!StorePackedVector
  <2> QED BY <1>3, <2>1, ElementCalls
<1>17. ObjectsStored(x, y, V)'
  BY <1>3, <1>4, <1>20, <1>13, <1>14, <1>15, <1>16 DEF ObjectsStored
<1>18. StoresOwn(x, y, V, m)
  BY <1>2, <1>17, MemberKinds DEF StoresOwn
<1>19. Prefix(t, V) /\ Prefix(s, V)
  BY <1>3, <1>10, <1>12, PrefixTwice
<1> QED BY <1>1, <1>2, <1>3, <1>16, <1>18, <1>19, StoresMoves

\* Every step of the writer.
LEMMA WriterExtends ==
  ASSUME NEW x, NEW y, NEW V, Before(x, y, V), Writer!Next
  PROVE  Extends(x, y, V)
<1>1. CASE \E c \in Sendable : Writer!StoreEntryPoint(c)
  BY <1>1, OpensNext
<1>2. CASE Writer!Return
  BY <1>2, ReturnsNext
<1>3. CASE Writer!StoreMember
  <2>1. calls # <<>> /\ Head(calls).todo # <<>> /\ calls \in Seq(CallRecord)
    BY <1>3, BeforeTypes DEF Writer!StoreMember
  <2>2. PICK m \in Member : m = Item(calls)
    BY <2>1, CallTypes
  <2>4. PICK path : path = ItemPath(calls)
    OBVIOUS
  <2>3. \/ Writer!Store(m, path) \/ Writer!StoreVector(m, path) \/ Writer!StoreObject(m, path)
        \/ Writer!StoreObjectVector(m, path) \/ Writer!StorePackedVector(m, path)
        \/ Writer!StoreInnerVector(m, path)
    BY <1>3, <2>2, <2>4 DEF Writer!StoreMember, Item, ItemPath
  <2> QED BY <2>1, <2>2, <2>3, <2>4, ValueNext, VectorNext, ObjectNext, ObjectVectorNext, PackedVectorNext
<1> QED BY <1>1, <1>2, <1>3 DEF Writer!Next

-----------------------------------------------------------------------------
(*****************************************************************************)
(* Both ends together.                                                     *)
(*****************************************************************************)
\* The history grows with every step of the writer.
LEMMA WriterFollows ==
  ASSUME Writer!TypeOK, Writer!TypeOK', NEW h, HistoryOf(h, stream), Writer!Next
  PROVE  \E g : HistoryOf(g, stream)'
<1>1. PICK x : x = [at |-> Len(stream), calls |-> calls, n |-> Len(sent)]
  OBVIOUS
<1>2. PICK y : y = [at |-> Len(stream'), calls |-> calls', n |-> Len(sent')]
  OBVIOUS
<1>3. PICK V : V = stream'
  OBVIOUS
<1>4. IsNow(x) /\ IsNow(y)'
  BY <1>1, <1>2 DEF IsNow
<1>5. Len(ends) = Len(sent) - OneIf(calls # <<>>)
  BY DEF HistoryOf
<1>6. Before(x, y, V)
  BY <1>3, <1>4, <1>5 DEF Before
<1>7. Extends(x, y, V)
  BY <1>6, WriterExtends
<1>8. HistoryOf(Append(h, y), V)'
  BY <1>3, <1>4, <1>7, HistoryGrows DEF Extends
<1>9. HistoryOf(Append(h, y), stream)'
  BY <1>3, <1>8
<1> QED BY <1>9

\* What arrives is a part of what was written, and nothing of it is read yet.
LEMMA DeliverFollows ==
  ASSUME Writer!TypeOK, Reader!ReaderInit, NEW h, NEW W, W = stream, HistoryOf(h, stream),
         NEW n \in 0 .. Len(stream), stream' = SubSeq(stream, 1, n),
         UNCHANGED <<calls, sent, ends, readerVars>>
  PROVE  Placed(h, W)'
<1>1. HistoryOf(h, W)'
  BY HistoryStays
<1>2. stream \in Seq(Token) /\ Len(stream) \in Nat /\ Len(sent) \in Nat
  BY WriterTerms, LenProperties DEF Writer!TypeOK
<1>3. Len(stream') = n /\ \A i \in 1 .. n : stream'[i] = stream[i]
  BY <1>2, SubSeqProperties
<1>4. Prefix(stream, W)'
  BY <1>2, <1>3 DEF Prefix
<1>5. /\ frames' = <<>> /\ pos' = 1 /\ ~mCurrentIndexPending' /\ mCurrentPendingVariables' = Null
      /\ mVariableHistory' = <<>> /\ ~mObjectSkipping' /\ result' = {} /\ entered' = <<>>
  BY DEF Reader!ReaderInit, readerVars
<1>6. Len(h) >= 1 /\ Len(h) \in Nat /\ h[1] = Start
  BY LenProperties DEF HistoryOf
<1>7. h[1].at = 0 /\ h[1].calls = <<>> /\ h[1].n = 0
  BY <1>6 DEF Start
<1>8. Round' = 0
  BY <1>5 DEF Round
<1>9. AllOwed(0)' = {}
  BY DEF AllOwed
<1>10. Reached(h[1].at)'
  BY <1>3, <1>5, <1>7 DEF Reached
<1>11. Idle(h[1])'
  <2>1. Len(sent') \in Nat
    BY <1>2
  <2>2. 0 <= Len(stream')
    BY <1>3
  <2>3. result' = AllOwed(Round)'
    BY <1>5, <1>8, <1>9
  <2> QED BY <1>5, <1>7, <1>8, <1>10, <2>1, <2>2, <2>3 DEF Idle
<1>12. Somewhere(h, W)'
  BY <1>6, <1>11 DEF Somewhere
<1> QED BY <1>1, <1>4, <1>12 DEF Placed

\* The two ends, and where they stand.
WholeInv == PhaseInv /\ IInv /\ OutcomeInv /\ CleanPaths /\ MessagesInv /\ FollowInv

\* Of nothing entered nothing is said.
LEMMA NothingYet ==
  ASSUME frames = <<>>, outcome = <<>>, entered = <<>>, mCleanExit, mVariableHistory = <<>>
  PROVE  OutcomeInv /\ CleanPaths /\ MessagesInv
<1>1. OutcomeInv
  BY DEF OutcomeInv
<1>2. CleanPaths
  <2>1. Len(frames) = 0 /\ Len(mVariableHistory) = 0
    OBVIOUS
  <2> QED BY <2>1 DEF CleanPaths, PathsInv
<1>3. MessagesInv
  BY DEF MessagesInv
<1> QED BY <1>1, <1>2, <1>3

\* Nor after a step that enters nothing.
LEMMA StartsEmpty ==
  ASSUME frames' = <<>>, outcome' = <<>>, entered' = <<>>, mCleanExit', mVariableHistory' = <<>>
  PROVE  OutcomeInv' /\ CleanPaths' /\ MessagesInv'
<1>1. OutcomeInv'
  BY DEF OutcomeInv
<1>2. CleanPaths'
  <2>1. Len(frames') = 0 /\ Len(mVariableHistory') = 0
    OBVIOUS
  <2> QED BY <2>1 DEF CleanPaths, PathsInv
<1>3. MessagesInv'
  BY DEF MessagesInv
<1> QED BY <1>1, <1>2, <1>3

\* A step of the writer.
LEMMA WholeWrite ==
  ASSUME WholeInv, PhaseInv', IInv', Write
  PROVE  WholeInv'
<1>1. /\ phase = "write" /\ phase' = "write" /\ Writer!Next /\ UNCHANGED readerVars
      /\ Reader!ReaderInit
  BY DEF Write, WholeInv, FollowInv
<1>2. PICK h : HistoryOf(h, stream)
  BY <1>1 DEF WholeInv, FollowInv
<1>3. Writer!TypeOK /\ Writer!TypeOK'
  BY DEF WholeInv, PhaseInv
<1>4. \E g : HistoryOf(g, stream)'
  BY <1>1, <1>2, <1>3, WriterFollows
<1>5. Reader!ReaderInit'
  BY <1>1 DEF Reader!ReaderInit, readerVars
<1>6. FollowInv'
  BY <1>1, <1>4, <1>5 DEF FollowInv
<1>7. OutcomeInv' /\ CleanPaths' /\ MessagesInv'
  <2>1. /\ frames' = <<>> /\ outcome' = <<>> /\ entered' = <<>> /\ mCleanExit'
        /\ mVariableHistory' = <<>>
    BY <1>5 DEF Reader!ReaderInit
  <2> QED BY <2>1, StartsEmpty
<1> QED BY <1>6, <1>7 DEF WholeInv

\* What was written arrives.
LEMMA WholeDeliver ==
  ASSUME WholeInv, PhaseInv', IInv', Deliver
  PROVE  WholeInv'
<1>1. /\ phase = "write" /\ phase' = "read" /\ calls = <<>> /\ UNCHANGED <<calls, sent, ends, readerVars>>
      /\ Reader!ReaderInit
  BY DEF Deliver, WholeInv, FollowInv
<1>2. PICK h : HistoryOf(h, stream)
  BY <1>1 DEF WholeInv, FollowInv
<1>3. Writer!TypeOK
  BY DEF WholeInv, PhaseInv
<1>4. PICK n \in 0 .. Len(stream) : stream' = SubSeq(stream, 1, n)
  <2>1. stream \in Seq(Token) /\ Len(stream) \in Nat
    BY <1>3, WriterTerms, LenProperties DEF Writer!TypeOK
  <2> QED BY <2>1 DEF Deliver, Arrived
<1>5. PICK W : W = stream
  OBVIOUS
<1>6. Placed(h, W)'
  BY <1>1, <1>2, <1>3, <1>4, <1>5, DeliverFollows
<1>7. FollowInv'
  BY <1>1, <1>6 DEF FollowInv
<1>8. OutcomeInv' /\ CleanPaths' /\ MessagesInv'
  <2>1. /\ frames' = <<>> /\ outcome' = <<>> /\ entered' = <<>> /\ mCleanExit'
        /\ mVariableHistory' = <<>>
    BY <1>1 DEF Reader!ReaderInit, readerVars
  <2> QED BY <2>1, StartsEmpty
<1> QED BY <1>7, <1>8 DEF WholeInv

\* The reader.
LEMMA WholeRead ==
  ASSUME WholeInv, PhaseInv', IInv', Read
  PROVE  WholeInv'
<1>1. /\ phase = "read" /\ phase' = "read" /\ Reader!ReaderNext /\ UNCHANGED <<calls, sent, ends>>
      /\ calls = <<>>
  BY DEF Read, WholeInv, FollowInv
<1>2. PICK h : \E W : Placed(h, W)
  BY <1>1 DEF WholeInv, FollowInv
<1>3. PICK W : Placed(h, W)
  BY <1>2
<1>4. Ends
  BY DEF WholeInv, PhaseInv, Ends
<1>5. SUFFICES OutcomeInv' /\ CleanPaths' /\ MessagesInv' /\ Placed(h, W)'
  BY <1>1 DEF WholeInv, FollowInv
<1>6. CASE Reader!Step
  <2>1. Ends'
    BY <1>1, <1>4, <1>6, EndsStep
  <2>2. stream' = stream /\ entered' = entered
    BY <1>6, StepQuiet
  <2>3. Kindly
    BY <1>1, <2>2 DEF Kindly
  <2>4. CleanPaths'
    BY <1>6, CleanPathsStep DEF WholeInv
  <2>5. MessagesInv'
    BY <1>1, <1>3, <1>4, <1>6, <2>1, <2>3, MessagesStep DEF WholeInv
  <2>6. Placed(h, W)'
    BY <1>1, <1>3, <1>4, <1>6, <2>3, PlacedStep
  <2> QED BY <2>1, <2>4, <2>5, <2>6 DEF Ends
<1>7. CASE \E c \in Readable : Reader!Enter(c)
  <2>1. PICK c \in Readable : Reader!Enter(c)
    BY <1>7
  <2>2. Ends'
    BY <1>1, <1>4, <2>1, EndsEnter
  <2>3. CleanPaths'
    <3>1. Round \in Nat
      BY <1>4, RoundNow
    <3> QED BY <2>1, <3>1, PathsEnter DEF WholeInv
  <2>4. MessagesInv'
    BY <1>1, <1>4, <2>1, MessagesEnter DEF WholeInv
  <2>5. Placed(h, W)'
    BY <1>1, <1>3, <1>4, <2>1, PlacedEnter
  <2> QED BY <2>2, <2>3, <2>4, <2>5 DEF Ends
<1>8. CASE Reader!Destroy
  <2>1. Ends'
    BY <1>1, <1>4, <1>8, EndsDestroy
  <2>2. UNCHANGED <<stream, pos, frames, mObjectSkipping, mCurrentType, mCurrentIndex,
          mCurrentIndexPending, mCleanExit, mCurrentPendingVariables, mVariableHistory,
          result, entered, outcome>>
    BY <1>8 DEF Reader!Destroy, Reader!streamFlags
  <2>3. CleanPaths'
    BY <2>2, PathsQuiet DEF WholeInv
  <2>4. MessagesInv'
    BY <1>1, <2>2, MessagesQuiet DEF WholeInv
  <2>5. Placed(h, W)'
    BY <1>1, <1>3, <2>2, PlacedQuiet
  <2> QED BY <2>1, <2>3, <2>4, <2>5 DEF Ends
<1> QED BY <1>1, <1>6, <1>7, <1>8 DEF Reader!ReaderNext

\* Nothing happens.
LEMMA WholeStays ==
  ASSUME WholeInv, PhaseInv', IInv', UNCHANGED vars
  PROVE  WholeInv'
<1>1. UNCHANGED <<phase, stream, pos, calls, sent, ends, frames, mObjectSkipping, mCurrentType, mCurrentIndex,
          mCurrentIndexPending, mCleanExit, mCurrentPendingVariables, mVariableHistory,
          lent, alive, result, entered, outcome>>
  BY DEF vars, readerVars
<1>2. OutcomeInv'
  BY <1>1 DEF WholeInv, OutcomeInv
<1>3. CleanPaths'
  BY <1>1, PathsQuiet DEF WholeInv
<1>4. MessagesInv'
  BY <1>1, MessagesQuiet DEF WholeInv
<1>5. CASE phase = "write"
  <2>1. Reader!ReaderInit'
    BY <1>1, <1>5 DEF WholeInv, FollowInv, Reader!ReaderInit
  <2>2. PICK h : HistoryOf(h, stream)
    BY <1>5 DEF WholeInv, FollowInv
  <2>3. PICK W : W = stream
    OBVIOUS
  <2>4. HistoryOf(h, W)'
    BY <1>1, <2>2, <2>3, HistoryStays
  <2>5. HistoryOf(h, stream)'
    BY <1>1, <2>3, <2>4
  <2>6. FollowInv'
    BY <1>1, <1>5, <2>1, <2>5 DEF FollowInv
  <2> QED BY <1>2, <1>3, <1>4, <2>6 DEF WholeInv
<1>6. CASE phase = "read"
  <2>1. PICK h : \E W : Placed(h, W)
    BY <1>6 DEF WholeInv, FollowInv
  <2>2. PICK W : Placed(h, W)
    BY <2>1
  <2>3. Placed(h, W)'
    BY <1>1, <2>2, PlacedQuiet
  <2>4. FollowInv'
    BY <1>1, <1>6, <2>3 DEF WholeInv, FollowInv
  <2> QED BY <1>2, <1>3, <1>4, <2>4 DEF WholeInv
<1> QED BY <1>5, <1>6 DEF WholeInv, PhaseInv

\* At first nothing is written.
LEMMA WholeInit == Init => WholeInv
<1> SUFFICES ASSUME Init
             PROVE  WholeInv
  OBVIOUS
<1>1. /\ phase = "write" /\ stream = <<>> /\ calls = <<>> /\ sent = <<>> /\ ends = <<>>
      /\ Reader!ReaderInit
  BY DEF Init, Writer!Init
<1>2. Start \in Moment
  BY DEF Start, Moment
<1>3. PICK h \in Seq(Moment) : h = <<Start>>
  <2>1. \A x \in Moment : <<x>> \in Seq(Moment)
    OBVIOUS
  <2>2. <<Start>> \in Seq(Moment)
    BY <1>2, <2>1
  <2> QED BY <2>2
<1>4. Len(h) = 1 /\ h[1] = Start
  BY <1>3
<1>5. HistoryOf(h, stream)
  <2>1. Start = [at |-> Len(stream), calls |-> calls, n |-> Len(sent)]
    BY <1>1 DEF Start
  <2>2. Len(ends) = Len(sent) - OneIf(calls # <<>>)
    BY <1>1 DEF OneIf
  <2>3. stream \in Seq(Token)
    BY <1>1
  <2> QED BY <1>4, <2>1, <2>2, <2>3 DEF HistoryOf
<1>6. FollowInv
  BY <1>1, <1>5 DEF FollowInv
<1>7. OutcomeInv /\ CleanPaths /\ MessagesInv
  <2>1. /\ frames = <<>> /\ outcome = <<>> /\ entered = <<>> /\ mCleanExit
        /\ mVariableHistory = <<>>
    BY <1>1 DEF Reader!ReaderInit
  <2> QED BY <2>1, NothingYet
<1> QED BY <1>6, <1>7, InitHolds DEF WholeInv

\* Every step of either end preserves it.
LEMMA WholeNext == WholeInv /\ [Next]_vars => WholeInv'
<1> SUFFICES ASSUME WholeInv, [Next]_vars
             PROVE  WholeInv'
  OBVIOUS
<1>1. PhaseInv' /\ IInv'
  BY NextHolds DEF WholeInv
<1> QED BY <1>1, WholeWrite, WholeDeliver, WholeRead, WholeStays DEF Next, Finished

\* A reader of which the end is still to be written misreads nothing.
LEMMA WholeReads ==
  ASSUME WholeInv
  PROVE  NeverMisreads
<1>1. CASE phase = "write"
  <2>1. frames = <<>>
    BY <1>1 DEF WholeInv, FollowInv, Reader!ReaderInit
  <2>2. ~Reader!OutOfStep
    BY <2>1 DEF Reader!OutOfStep
  <2>3. ~Reader!Overrun
    BY <2>1 DEF Reader!Overrun, Reader!PackedAt, Reader!Running
  <2> QED BY <2>2, <2>3 DEF NeverMisreads
<1>2. CASE phase = "read"
  <2>1. PICK h : \E W : Placed(h, W)
    BY <1>2 DEF WholeInv, FollowInv
  <2>2. PICK W : Placed(h, W)
    BY <2>1
  <2>3. calls = <<>> /\ Ends
    BY <1>2 DEF WholeInv, FollowInv, Ends, PhaseInv
  <2> QED BY <2>2, <2>3, PlacedReads
<1> QED BY <1>1, <1>2 DEF WholeInv, PhaseInv

-----------------------------------------------------------------------------
\* The invariant of the two ends together.
THEOREM RoundTripInvariant == Spec => []WholeInv
BY WholeInit, WholeNext, PTL DEF Spec

\* What is read as a header, a size or a value was written as one: reading and
\* skipping never get out of step with the writer, whatever the classes of the two
\* sides and the order of their members, unless for the sake of a packed vector that
\* the format does not support (SkipVariable, ReadArrayHeader, StoreTemplate of the
\* value message).
THEOREM ReadsInStep == Spec => []NeverMisreads
<1>1. WholeInv => NeverMisreads
  BY WholeReads
<1> QED
  BY <1>1, RoundTripInvariant, PTL

\* A message that Enter returns from holds exactly the values that the two classes
\* have in common, each where it belongs (StoreTemplate, ReadRemaining and
\* SkipVariable of binaryDeserMessage.h).
THEOREM RoundTripHolds == Spec => []RoundTrip
<1>1. WholeInv => RoundTrip
  BY SoundMessages DEF WholeInv
<1> QED
  BY <1>1, RoundTripInvariant, PTL

\* Enter consumes exactly one message, and does not return normally from one whose
\* end is missing (ReadRemaining).
THEOREM ConsumesOneMessage == Spec => []StreamInStep
<1>1. WholeInv => StreamInStep
  BY SoundMessages DEF WholeInv
<1> QED
  BY <1>1, RoundTripInvariant, PTL

\* An exception is thrown for the reason it names, and only then (exceptions.h,
\* FillReadBuffer, StoreEntryPoint).
THEOREM ThrowsForReason == Spec => []FailuresJustified
<1>1. WholeInv => FailuresJustified
  BY SoundMessages DEF WholeInv
<1> QED
  BY <1>1, RoundTripInvariant, PTL

\* Two types of one index are always found out (exceptions.h:121).
THEOREM MismatchFound == Spec => []MismatchReported
<1>1. WholeInv => MismatchReported
  BY SoundMessages DEF WholeInv
<1> QED
  BY <1>1, RoundTripInvariant, PTL

-----------------------------------------------------------------------------
(***************************************************************************)
(* Classes without packed vectors.  Nothing that they write makes the      *)
(* reader read a packed vector, so that the premise of ArraysBack holds of *)
(* every behaviour.                                                        *)
(***************************************************************************)
PlainClasses == \A c \in Class : \A m \in MembersOf(c) : ~m.packed

\* There is one array for each object that is being read.
OneArrayEach == mCleanExit => lent = Len(mVariableHistory)

\* None of them has a packed vector within.
LEMMA PlainWithin ==
  ASSUME PlainClasses, NEW c \in Class
  PROVE  ~HasPackedTo[MaxDepth][c]
<1> DEFINE S == {d \in 0 .. MaxDepth : \A x \in Class : ~HasPackedTo[d][x]}
<1>1. MaxDepth \in Nat
  BY DepthAssumption
<1>2. 0 \in S
  BY <1>1, PackedLevels
<1>3. \A n \in 1 .. MaxDepth : n - 1 \in S => n \in S
  <2> SUFFICES ASSUME NEW n \in 1 .. MaxDepth, n - 1 \in S
               PROVE  n \in S
    OBVIOUS
  <2>1. \A x \in Class : ~HasPackedTo[n - 1][x]
    OBVIOUS
  <2>2. \A x \in Class : \A m \in MembersOf(x) : ~m.packed /\ ~HasPackedTo[n - 1][m.class]
    BY <2>1, MemberTypes DEF PlainClasses
  <2>3. \A x \in Class : ~HasPackedTo[n][x]
    BY <2>2, PackedLevels
  <2>4. n \in 0 .. MaxDepth
    BY <1>1
  <2> QED BY <2>3, <2>4
<1> HIDE DEF S
<1>4. 0 .. MaxDepth \subseteq S
  BY <1>1, <1>2, <1>3, InductionUpto
<1>5. MaxDepth \in S
  BY <1>1, <1>4
<1> QED BY <1>5 DEF S

\* So the format supports every message of such classes.
LEMMA PlainSupported ==
  ASSUME PlainClasses, NEW wr \in ClassPairs
  PROVE  ~Unsupported[wr]
<1>1. Pairs[wr] \subseteq ClassPairs
  BY PairsFixed
<1>2. \A p \in Pairs[wr] : \A m \in MembersOf(p[1]) : ~m.packed /\ ~HasPacked(m)
  <2> SUFFICES ASSUME NEW p \in Pairs[wr], NEW m \in MembersOf(p[1])
               PROVE  ~m.packed /\ ~HasPacked(m)
    OBVIOUS
  <2>1. p[1] \in Class
    BY <1>1 DEF ClassPairs
  <2>2. ~m.packed /\ m.class \in Class
    BY <2>1, MemberTypes DEF PlainClasses
  <2>3. ~HasPackedTo[MaxDepth][m.class]
    BY <2>2, PlainWithin
  <2> QED BY <2>2, <2>3 DEF HasPacked
<1>3. PackedPairs[wr] = {}
  BY <1>2 DEF PackedPairs, Both
<1> QED BY <1>2, <1>3 DEF Unsupported

\* A message that has an array for each object reads no packed vector.
LEMMA NonePacked ==
  ASSUME IInv, OneArrayEach
  PROVE  NoPackedVector
<1>1. CASE ~mCleanExit
  BY <1>1 DEF IInv, DeadInv, Entering, NoPackedVector, IsPackedFrame
<1>2. CASE mCleanExit
  <2>1. PICK n \in Nat : n = Len(frames)
    BY LenProperties DEF IInv, ReaderTypes
  <2>2. PICK S : S = {i \in 1 .. n : IsPackedFrame(frames[i])}
    OBVIOUS
  <2>3. PICK T : T = {i \in 1 .. n : IsEntered(frames[i])}
    OBVIOUS
  <2>4. IsFiniteSet(1 .. n) /\ S \subseteq 1 .. n /\ T \subseteq 1 .. n
    <3>1. IsFiniteSet(1 .. n)
      BY <2>1, FS_Interval
    <3> QED BY <2>2, <2>3, <3>1
  <2>5. IsFiniteSet(S) /\ Cardinality(S) \in Nat /\ Cardinality(T) \in Nat
    BY <2>4, FS_Subset, FS_CardinalityType
  <2>6. Len(mVariableHistory) = Cardinality(T) /\ lent = Cardinality(T) + Cardinality(S)
    BY <1>2, <2>1, <2>2, <2>3 DEF IInv, ClosuresLive, Depth, PackedDepth
  <2>7. Cardinality(S) = 0
    BY <1>2, <2>5, <2>6 DEF OneArrayEach
  <2>8. S = {}
    BY <2>5, <2>7, FS_EmptySet
  <2> QED BY <2>1, <2>2, <2>8 DEF NoPackedVector
<1> QED BY <1>1, <1>2

\* A reader in step does not find a vector packed that was not written so.
LEMMA PlainBody ==
  ASSUME WholeInv, PlainClasses, phase = "read"
  PROVE  ~Reader!ReadPackedVector
<1> SUFFICES ASSUME Reader!ReadPackedVector
             PROVE  FALSE
  OBVIOUS
<1>1. PICK f : f = frames[1]
  OBVIOUS
<1>2. frames # <<>> /\ f.what = "body" /\ f.flags % 2 = 1
  BY <1>1 DEF Reader!ReadPackedVector, Reader!Running, Reader!Top
<1>3. mCleanExit
  BY <1>1, <1>2 DEF WholeInv, IInv, DeadInv, Entering
<1>4. Ends
  BY DEF WholeInv, PhaseInv, Ends
<1>5. Round \in Nat /\ Round >= 1 /\ \A q \in 1 .. Round : q <= Len(sent) => Classes(q) \in ClassPairs
  BY <1>2, <1>4, RoundNow
<1>6. Supported(Round)
  BY <1>5, PlainSupported DEF Supported
<1>7. PICK h : \E W : Placed(h, W)
  BY DEF WholeInv, FollowInv
<1>8. PICK W : Placed(h, W)
  BY <1>7
<1>9. ~Beyond /\ ~Doomed
  BY <1>1, <1>2 DEF Beyond, Doomed
<1>10. PICK k \in 1 .. Len(h) : Idle(h[k]) \/ \E g : Following(h[k], W, g)
  BY <1>3, <1>6, <1>8, <1>9 DEF Placed, Somewhere
<1>11. PICK g : Following(h[k], W, g)
  BY <1>2, <1>10 DEF Idle
<1>12. Stands(f, g[1], g[2], PairNow) /\ Round <= Len(sent)
  <2>1. Chain(frames, g, PairNow) /\ Len(frames) \in Nat /\ Len(frames) >= 1
    BY <1>2, <1>4, <1>11, EmptySeq, LenProperties DEF Following, Ends, IInv, ReaderTypes
  <2>2. 1 \in 1 .. Len(frames) /\ 1 + 1 = 2
    BY <2>1
  <2> QED BY <1>1, <1>11, <2>1, <2>2 DEF Chain, Following
<1>13. PICK pr \in Pairs[PairNow] : Item(g[1].calls) \in MembersOf(pr[1])
  BY <1>2, <1>12 DEF Stands, StandsBody, Reads
<1>14. f.flags = FlagsOf(Item(g[1].calls))
  BY <1>2, <1>12 DEF Stands, StandsBody
<1>15. PairNow \in ClassPairs
  BY <1>5, <1>12 DEF PairNow
<1>16. pr[1] \in Class
  BY <1>15, PairsFixed DEF ClassPairs
<1>17. ~Item(g[1].calls).packed
  BY <1>13, <1>16 DEF PlainClasses
<1>18. f.flags = 0
  BY <1>14, <1>17 DEF FlagsOf
<1> QED BY <1>2, <1>18

\* Arrays are taken and given back in pairs.
LEMMA KeepsArrays ==
  ASSUME WholeInv, OneArrayEach, PlainClasses, phase = "read", Reader!Step, mCleanExit'
  PROVE  lent' = Len(mVariableHistory')
<1>1. ReaderTypes /\ NoPackedVector /\ ~Reader!ReadPackedVector
  BY NonePacked, PlainBody DEF WholeInv, IInv
<1>2. mCleanExit
  <2>1. ~mCleanExit => Reader!RefuseReuse \/ Reader!RejectType \/ Reader!FillReadBufferFails
    BY DeadThrows DEF WholeInv
  <2> QED BY <2>1 DEF Reader!RefuseReuse, Reader!RejectType, Reader!FillReadBufferFails, Reader!Throw
<1>3. /\ lent = Len(mVariableHistory) /\ Len(mVariableHistory) \in Nat
      /\ mVariableHistory \in Seq({Null} \cup SUBSET Reader!PendingMember)
      /\ mCurrentPendingVariables \in {Null} \cup SUBSET Reader!PendingMember
  BY <1>1, <1>2, LenProperties DEF OneArrayEach, ReaderTypes
<1>4. ~Reader!LeavePackedVector
  <2>1. \A i \in 1 .. Len(frames) : frames[i].what # "packed"
    BY <1>1 DEF NoPackedVector, IsPackedFrame
  <2>2. frames # <<>> => 1 \in 1 .. Len(frames)
    BY <1>1, EmptySeq, LenProperties DEF ReaderTypes
  <2> QED BY <2>1, <2>2 DEF Reader!LeavePackedVector, Reader!PackedAt, Reader!Running, Reader!Top
<1>5. CASE Reader!StoreEntryPoint
  <2>1. lent' = lent + 1 /\ mVariableHistory' = <<mCurrentPendingVariables>> \o mVariableHistory
    BY <1>5 DEF Reader!StoreEntryPoint
  <2>2. Len(mVariableHistory') = Len(mVariableHistory) + 1
    BY <1>3, <2>1, Fronted
  <2> QED BY <1>3, <2>1, <2>2
<1>6. CASE Reader!LeaveObject
  <2>1. lent' = lent - 1 /\ mVariableHistory' = Tail(mVariableHistory)
    BY <1>6 DEF Reader!LeaveObject, Reader!Release, Reader!PopHistory
  <2>2. mVariableHistory # <<>>
    <3>1. frames # <<>> /\ frames[1].at = "found"
      BY <1>6 DEF Reader!LeaveObject, Reader!Remaining, Reader!AtPoint, Reader!Top
    <3> QED BY <1>2, <3>1 DEF WholeInv, IInv, BottomInv, Entering
  <2>3. Len(Tail(mVariableHistory)) = Len(mVariableHistory) - 1
    BY <1>3, <2>2, HeadTailProperties
  <2> QED BY <1>3, <2>1, <2>3
<1>7. CASE ~Reader!StoreEntryPoint /\ ~Reader!LeaveObject
  <2>1. CASE \/ Reader!StoreKept \/ Reader!StoreLater \/ Reader!NoHeaderKept \/ Reader!ReadHeader
             \/ Reader!ReadNow \/ Reader!ReadNowReturns \/ Reader!StoreFound
             \/ Reader!StoreOther \/ Reader!RemainingKept \/ Reader!SkipUnknown
    <3>1. lent' = lent /\ mVariableHistory' = mVariableHistory
      BY <2>1 DEF Reader!StoreKept, Reader!StoreLater, Reader!NoHeaderKept, Reader!ReadHeader,
        Reader!ReadNow, Reader!ReadNowReturns, Reader!StoreFound, Reader!StoreOther,
        Reader!RemainingKept, Reader!SkipUnknown, Reader!arrays, Reader!messageVars
    <3> QED BY <1>3, <3>1
  <2>2. CASE \/ Reader!ReadPrimitive \/ Reader!ReadObject \/ Reader!ReadArrayHeader
             \/ Reader!ReadPrimitiveVector \/ Reader!ReadObjectVector
             \/ Reader!SkipPrimitive \/ Reader!SkipArrayHeader
             \/ Reader!SkipElements \/ Reader!SkipObjects \/ Reader!LeaveSkipped
    <3>1. lent' = lent /\ mVariableHistory' = mVariableHistory
      BY <2>2 DEF Reader!ReadPrimitive, Reader!ReadObject, Reader!ReadArrayHeader,
        Reader!ReadPrimitiveVector, Reader!ReadObjectVector, Reader!SkipPrimitive,
        Reader!SkipArrayHeader, Reader!SkipElements, Reader!SkipObjects, Reader!LeaveSkipped,
        Reader!arrays, Reader!messageVars
    <3> QED BY <1>3, <3>1
  <2>3. CASE \/ Reader!CacheHeaders \/ Reader!NextElement \/ Reader!StoreMissing
             \/ Reader!StoreNext \/ Reader!StorePending \/ Reader!ReadPending
             \/ Reader!ReadPendingReturns \/ Reader!PassHeader \/ Reader!ElementRead
    <3>1. lent' = lent /\ mVariableHistory' = mVariableHistory
      BY <2>3 DEF Reader!CacheHeaders, Reader!NextElement, Reader!StoreMissing,
        Reader!StoreNext, Reader!StorePending, Reader!ReadPending,
        Reader!ReadPendingReturns, Reader!PassHeader, Reader!ElementRead, Reader!messageVars
    <3> QED BY <1>3, <3>1
  <2>4. CASE Reader!RefuseReuse \/ Reader!RejectType \/ Reader!FillReadBufferFails
    BY <2>4 DEF Reader!RefuseReuse, Reader!RejectType, Reader!FillReadBufferFails, Reader!Throw
  <2> QED BY <1>1, <1>4, <1>7, <2>1, <2>2, <2>3, <2>4, Zenon DEF Reader!Step
<1> QED BY <1>5, <1>6, <1>7

\* So do all other steps.
LEMMA KeepsOne ==
  ASSUME WholeInv, WholeInv', OneArrayEach, PlainClasses, [Next]_vars
  PROVE  OneArrayEach'
<1>1. CASE Read
  <2>1. phase = "read" /\ Reader!ReaderNext
    BY <1>1 DEF Read
  <2>2. CASE Reader!Step
    BY <2>1, <2>2, KeepsArrays DEF OneArrayEach
  <2>3. CASE \E c \in Readable : Reader!Enter(c)
    BY <2>3 DEF Reader!Enter, Reader!messageVars, OneArrayEach
  <2>4. CASE Reader!Destroy
    BY <2>4 DEF Reader!Destroy, Reader!streamFlags, OneArrayEach
  <2> QED BY <2>1, <2>2, <2>3, <2>4 DEF Reader!ReaderNext
<1>2. CASE UNCHANGED readerVars
  BY <1>2 DEF readerVars, OneArrayEach
<1> QED BY <1>1, <1>2 DEF Next, Write, Deliver, Finished, vars, readerVars

\* Between classes without packed vectors every array is back when the message
\* dies, whatever exceptions have ended its calls (the destructor; the assertion at
\* memoryPool.h:81).  nullptr is not a set of closures.
THEOREM PlainArraysBack ==
  ASSUME PlainClasses, Null \notin SUBSET Reader!PendingMember
  PROVE  Spec => []ArraysReturned
<1>1. Init => OneArrayEach
  BY DEF Init, Reader!ReaderInit, OneArrayEach
<1>2. WholeInv /\ WholeInv' /\ OneArrayEach /\ [Next]_vars => OneArrayEach'
  BY KeepsOne
<1>3. WholeInv /\ OneArrayEach => NoPackedVector
  BY NonePacked DEF WholeInv
<1>4. Spec => []NoPackedVector
  BY <1>1, <1>2, <1>3, RoundTripInvariant, PTL DEF Spec
<1>5. Spec /\ []NoPackedVector => []ArraysReturned
  BY ArraysBack
<1> QED
  BY <1>4, <1>5, PTL

=============================================================================
