------------------------- MODULE BinaryDeserMessage -------------------------
(***************************************************************************)
(* BinaryDeserialisationMessage (binary/binaryDeserMessage.h): reads the   *)
(* members of a class from a stream that may hold them in another order,   *)
(* lack some and have others.                                              *)
(*                                                                         *)
(* A Store call that meets the header of another member keeps the header   *)
(* in mCurrentIndex and mCurrentType and leaves its own member pending;    *)
(* a member met later is read through the closure its Store left.  What    *)
(* nobody asked for is skipped.  Nested objects recurse, each with pending *)
(* members of its own.                                                     *)
(*                                                                         *)
(* frames is the stack of the calls in progress, the innermost first.      *)
(*   "object"   StoreEntryPoint and the StoreTemplate and ReadRemaining    *)
(*              under it; todo holds the Store calls OnSerialise has still *)
(*              to make                                                    *)
(*   "skip"     ReadRemaining for an object that is skipped                *)
(*   "read"     the Read of a proxy: ReadPrimitive, ReadVector, ...        *)
(*   "body"     the same after ReadArrayHeader                             *)
(*   "cache"    CacheHeaders for a packed vector                           *)
(*   "packed"   BinaryDeserialisationValueMessage, Entered with one        *)
(*              element after the other: headers[h] is the next header,    *)
(*              pending holds the members left for later                   *)
(*   "unknown"  SkipVariable;  "skipArray"  SkipArray, which does not look *)
(*              at the Packed flag of a vector of objects                  *)
(***************************************************************************)
EXTENDS BinaryFormat

CONSTANTS
  Readable,       \* classes the caller Enters with
  MaxReads,       \* bound on the calls of Enter
  Null            \* nullptr

VARIABLES
  stream,                     \* what the stream reader delivers
  pos,                        \* where it reads next
  frames,
  mCurrentType, mCurrentIndex, mCurrentIndexPending,
  mObjectSkipping, mCleanExit,
  mCurrentPendingVariables,   \* Null, or the pending members of the object
  mVariableHistory,           \* those of the objects around it, innermost first
  lent,                       \* arrays that mPendingPool has handed out
  alive,                      \* the message has not been destroyed
  result,                     \* <<path read, path written>> of each value read
  entered, outcome            \* of each call of Enter (history)

messageVars == <<mCurrentType, mCurrentIndex, mCurrentIndexPending, mObjectSkipping,
                 mCleanExit, mCurrentPendingVariables, mVariableHistory, lent, alive>>
readerVars == <<pos, frames, messageVars, result, entered, outcome>>
vars == <<stream, readerVars>>

-----------------------------------------------------------------------------
(***************************************************************************)
(* Frames.                                                                 *)
(***************************************************************************)
ObjectFrame(c, path) ==
  [what |-> "object", at |-> "enter", path |-> path, todo |-> Members[c],
   index |-> 0, type |-> "Terminator"]
\* clears: mObjectSkipping is reset when this object has been skipped.
SkipFrame(clears) ==
  [what |-> "skip", at |-> "store", todo |-> <<>>, clears |-> clears,
   index |-> 0, type |-> "Terminator"]
ReadFrame(m, path, type) ==
  [what |-> "read", member |-> m, path |-> path, type |-> type]
BodyFrame(m, path, flags, sub, n) ==
  [what |-> "body", member |-> m, path |-> path, flags |-> flags, type |-> sub, n |-> n]
CacheFrame(c, path, n, headers) ==
  [what |-> "cache", class |-> c, path |-> path, n |-> n, headers |-> headers]
PackedFrame(c, path, n, headers) ==
  [what |-> "packed", at |-> "next", class |-> c, path |-> path, n |-> n, k |-> 0,
   todo |-> <<>>, headers |-> headers, h |-> 1, pending |-> {}]
UnknownFrame(type) == [what |-> "unknown", type |-> type]
SkipArrayFrame(sub, n) == [what |-> "skipArray", type |-> sub, n |-> n]

Locations == {"enter", "store", "header", "found", "returned"}
PendingMember == [member : Member, path : Seq(Nat)]

ObjectFrames ==
  [what : {"object"}, at : Locations, path : Seq(Nat), todo : Seq(Member),
   index : 0 .. 27, type : HeaderTypes]
SkipFrames ==
  [what : {"skip"}, at : Locations \ {"enter"}, todo : {<<>>}, clears : BOOLEAN,
   index : 0 .. 27, type : HeaderTypes]
ReadFrames == [what : {"read"}, member : Member, path : Seq(Nat), type : HeaderTypes]
BodyFrames ==
  [what : {"body"}, member : Member, path : Seq(Nat), flags : 0 .. 27,
   type : HeaderTypes, n : Nat]
CacheFrames ==
  [what : {"cache"}, class : Class, path : Seq(Nat), n : Nat, headers : Seq(HeaderToken)]
PackedFrames ==
  [what : {"packed"}, at : {"next", "store", "drain", "returned"}, class : Class,
   path : Seq(Nat), n : Nat, k : Nat, todo : Seq(Member), headers : Seq(HeaderToken),
   h : Nat \ {0}, pending : SUBSET PendingMember]
UnknownFrames == [what : {"unknown"}, type : HeaderTypes]
SkipArrayFrames == [what : {"skipArray"}, type : HeaderTypes, n : Nat]

Frame == ObjectFrames \cup SkipFrames \cup ReadFrames \cup BodyFrames \cup CacheFrames
         \cup PackedFrames \cup UnknownFrames \cup SkipArrayFrames

Top == Head(frames)
Running(what) == frames # <<>> /\ Top.what = what
AtPoint(loc) == frames # <<>> /\ Top.what \in {"object", "skip"} /\ Top.at = loc
Storing(loc) == AtPoint(loc) /\ Top.todo # <<>>     \* in StoreTemplate
Remaining(loc) == AtPoint(loc) /\ Top.todo = <<>>   \* in ReadRemaining

Become(f) == frames' = <<f>> \o Tail(frames)
Move(loc) == Become([Top EXCEPT !.at = loc])
Leave == frames' = Tail(frames)
\* The member that OnSerialise is storing, and where its value belongs.
Now == Head(Top.todo)
Place(m) == Append(Top.path, m.index)

-----------------------------------------------------------------------------
(***************************************************************************)
(* What the step in progress takes from the stream reader, and errors.     *)
(* Blocks and skips do not check that they got all of it.                  *)
(***************************************************************************)
\* Slip: the last token is taken for the end.
Left_OneLess == IF pos >= Len(stream) THEN 0 ELSE Len(stream) - pos

Left == IF pos > Len(stream) THEN 0 ELSE Len(stream) - pos + 1
Values(n) == [k \in 1 .. n |-> "value"]
Block(n) == Values(IF n < Left THEN n ELSE Left)

WrongType ==
  \/ Running("read") /\ Top.type \notin Accepted(Top.member.type)
  \/ Running("body") /\ Top.type # GetHeaderEnum(Top.member.sub)

Wanted ==
  CASE AtPoint("header") \/ Running("cache") -> <<"header">>
    [] Running("read") /\ IsPrimitive(Top.member) -> Values(1)
    [] (Running("read") \/ Running("unknown")) /\ Top.type = "Array" -> <<"header", "size">>
    [] Running("body") /\ IsVector(Top.member) ->
         IF Top.type = "String" THEN Values(Top.n) ELSE Block(Top.n)
    [] Running("unknown") /\ Top.type = "String" -> Values(1)
    [] Running("unknown") /\ Top.type \in IntegerTypes -> Block(1)
    [] Running("skipArray") /\ Top.type = "String" -> Values(Top.n)
    [] Running("skipArray") /\ Top.type \in IntegerTypes -> Block(Top.n)
    [] OTHER -> <<>>

\* The next k tokens are the ones that are read.
Fits(k) == \A j \in 1 .. k : pos + j - 1 <= Len(stream)
                             /\ stream[pos + j - 1].token = Wanted[j]
Got == ~WrongType /\ Fits(Len(Wanted))
Take == pos' = pos + Len(Wanted)

\* An exception unwinds every call; arrays stay where they are.
Throw(exception) ==
  /\ frames' = <<>>
  /\ mCleanExit' = FALSE
  /\ outcome' = [outcome EXCEPT ![Len(outcome)] = exception]
  /\ UNCHANGED <<stream, pos, mCurrentType, mCurrentIndex, mCurrentIndexPending,
                 mObjectSkipping, mCurrentPendingVariables, mVariableHistory, lent,
                 alive, result, entered>>

RejectType == WrongType /\ Throw("InvalidType")

\* Slip: the reader asks again and again.
FillReadBufferFails_Retries ==
  /\ frames # <<>> /\ ~WrongType
  /\ Left < Len(Wanted) /\ Fits(Left)
  /\ UNCHANGED vars

FillReadBufferFails ==
  /\ frames # <<>> /\ ~WrongType
  /\ Left < Len(Wanted) /\ Fits(Left)
  /\ Throw("EndOfStream")



-----------------------------------------------------------------------------
(***************************************************************************)
(* Enter, StoreEntryPoint and the pending members.                         *)
(***************************************************************************)
streamFlags == <<mCurrentType, mCurrentIndex, mObjectSkipping, mCleanExit>>
arrays == <<mCurrentPendingVariables, mVariableHistory, lent>>
history == <<alive, entered, outcome>>

IsPending(i) == \E p \in mCurrentPendingVariables : p.member.index = i

Pending(m, path) == [member |-> m, path |-> path]

AddPending(m) ==
  mCurrentPendingVariables' = mCurrentPendingVariables \cup {Pending(m, Place(m))}

\* Slip: the bit of the pending member is not flipped back.
ClearPending_Forgotten(i) == UNCHANGED mCurrentPendingVariables

ClearPending(i) ==
  mCurrentPendingVariables' = {p \in mCurrentPendingVariables : p.member.index # i}

Enter(c) ==
  /\ alive /\ frames = <<>>
  /\ Len(entered) < MaxReads
  /\ entered' = Append(entered, c)
  /\ outcome' = Append(outcome, "reading")
  /\ frames' = <<ObjectFrame(c, <<Len(entered')>>)>>
  /\ UNCHANGED <<stream, pos, messageVars, result>>

\* Slip: the assertion is compiled out.
Usable_Always == TRUE
Usable == mCleanExit

RefuseReuse ==
  /\ AtPoint("enter") /\ ~Usable
  /\ Throw("NoCleanExit")

StoreEntryPoint ==
  /\ AtPoint("enter") /\ Usable
  /\ mVariableHistory' = <<mCurrentPendingVariables>> \o mVariableHistory
  /\ mCurrentPendingVariables' = {}
  /\ lent' = lent + 1
  /\ Move("store")
  /\ UNCHANGED <<stream, pos, streamFlags, mCurrentIndexPending, result, history>>

\* Slip: the array is given back to the pool twice.
Release_Twice == lent' = lent - 2
Release == lent' = lent - 1

\* Slip: the array of the object around is not put back.
PopHistory_Forgotten ==
  mVariableHistory' = Tail(mVariableHistory) /\ UNCHANGED mCurrentPendingVariables
PopHistory ==
  /\ mCurrentPendingVariables' = Head(mVariableHistory)
  /\ mVariableHistory' = Tail(mVariableHistory)

\* ReadRemaining has met the Terminator of the object.
LeaveObject ==
  /\ Running("object") /\ Remaining("found") /\ Top.type = "Terminator"
  /\ Release
  /\ PopHistory
  /\ Leave
  /\ outcome' = IF frames' = <<>> THEN [outcome EXCEPT ![Len(outcome)] = "done"]
                ELSE outcome
  /\ UNCHANGED <<stream, pos, streamFlags, mCurrentIndexPending, result, alive, entered>>

-----------------------------------------------------------------------------
(***************************************************************************)
(* StoreTemplate and ReadRemaining.  Both read headers one at a time;      *)
(* a member that is pending is read on the spot, and cleared when its      *)
(* closure returns.                                                        *)
(***************************************************************************)
DropKept == mCurrentIndexPending' = FALSE

\* The header kept by an earlier Store call is this member's.
StoreKept ==
  /\ Storing("store") /\ mCurrentIndexPending /\ Now.index = mCurrentIndex
  /\ DropKept
  /\ frames' = <<ReadFrame(Now, Place(Now), mCurrentType),
                 [Top EXCEPT !.todo = Tail(@)]>> \o Tail(frames)
  /\ UNCHANGED <<stream, pos, streamFlags, arrays, result, history>>

StoreLater ==
  /\ Storing("store") /\ mCurrentIndexPending /\ Now.index # mCurrentIndex
  /\ AddPending(Now)
  /\ Become([Top EXCEPT !.todo = Tail(@)])
  /\ UNCHANGED <<stream, pos, streamFlags, mCurrentIndexPending, mVariableHistory, lent,
                 result, history>>

NoHeaderKept ==
  /\ AtPoint("store") /\ ~mCurrentIndexPending
  /\ Move("header")
  /\ UNCHANGED <<stream, pos, messageVars, result, entered, outcome>>

ReadHeader ==
  /\ AtPoint("header") /\ Got
  /\ Become([Top EXCEPT !.at = "found", !.index = stream[pos].index,
                        !.type = stream[pos].type])
  /\ Take
  /\ UNCHANGED <<stream, messageVars, result, entered, outcome>>

\* Slip: the mask is tested inside skipped objects too.
MayReadNow_Skipping == Top.todo # <<>> \/ Top.type # "Terminator"

\* The loops test the mask while storing, and after that unless skipping.
MayReadNow == Top.todo # <<>> \/ (Top.type # "Terminator" /\ ~mObjectSkipping)

ReadNow ==
  /\ AtPoint("found") /\ MayReadNow
  /\ \E p \in mCurrentPendingVariables :
       /\ p.member.index = Top.index
       /\ frames' = <<ReadFrame(p.member, p.path, Top.type),
                      [Top EXCEPT !.at = "returned"]>> \o Tail(frames)
  /\ UNCHANGED <<stream, pos, messageVars, result, entered, outcome>>

ReadNowReturns ==
  /\ AtPoint("returned")
  /\ ClearPending(Top.index)
  /\ Move("header")
  /\ UNCHANGED <<stream, pos, streamFlags, mCurrentIndexPending, mVariableHistory, lent,
                 result, history>>

StoreFound ==
  /\ Storing("found") /\ ~IsPending(Top.index) /\ Now.index = Top.index
  /\ frames' = <<ReadFrame(Now, Place(Now), Top.type),
                 [Top EXCEPT !.at = "store", !.todo = Tail(@)]>> \o Tail(frames)
  /\ UNCHANGED <<stream, pos, messageVars, result, entered, outcome>>

KeepHeader(i, type) ==
  mCurrentIndex' = i /\ mCurrentType' = type /\ mCurrentIndexPending' = TRUE

StoreOther ==
  /\ Storing("found") /\ ~IsPending(Top.index) /\ Now.index # Top.index
  /\ KeepHeader(Top.index, Top.type)
  /\ AddPending(Now)
  /\ Become([Top EXCEPT !.at = "store", !.todo = Tail(@)])
  /\ UNCHANGED <<stream, pos, mObjectSkipping, mCleanExit, mVariableHistory, lent,
                 result, history>>

RemainingKept ==
  /\ Remaining("store") /\ mCurrentIndexPending
  /\ DropKept
  /\ Become([Top EXCEPT !.at = "found", !.index = mCurrentIndex, !.type = mCurrentType])
  /\ UNCHANGED <<stream, pos, streamFlags, arrays, result, history>>

SkipUnknown ==
  /\ Remaining("found") /\ Top.type # "Terminator"
  /\ ~(MayReadNow /\ IsPending(Top.index))
  /\ frames' = <<UnknownFrame(Top.type), [Top EXCEPT !.at = "header"]>> \o Tail(frames)
  /\ UNCHANGED <<stream, pos, messageVars, result, entered, outcome>>

-----------------------------------------------------------------------------
(***************************************************************************)
(* Reading values.                                                         *)
(***************************************************************************)
ReadValues(places) ==
  result' = result \cup
    {<<places[k], stream[pos + k - 1].of>> : k \in 1 .. Len(Wanted)}

ReadPrimitive ==
  /\ Running("read") /\ IsPrimitive(Top.member) /\ Got
  /\ ReadValues(<<Top.path>>)
  /\ Take
  /\ Leave
  /\ UNCHANGED <<stream, messageVars, entered, outcome>>

ReadObject ==
  /\ Running("read") /\ IsObject(Top.member) /\ Got
  /\ Become(ObjectFrame(Top.member.class, Top.path))
  /\ UNCHANGED <<stream, pos, messageVars, result, entered, outcome>>

ReadArrayHeader ==
  /\ Running("read") /\ Top.type = "Array" /\ Got
  /\ Become(BodyFrame(Top.member, Top.path, stream[pos].index, stream[pos].type,
                      stream[pos + 1].n))
  /\ Take
  /\ UNCHANGED <<stream, messageVars, result, entered, outcome>>

ReadPrimitiveVector ==
  /\ Running("body") /\ IsVector(Top.member) /\ Got
  /\ ReadValues([k \in 1 .. Top.n |-> Append(Top.path, k)])
  /\ Take
  /\ Leave
  /\ UNCHANGED <<stream, messageVars, entered, outcome>>

\* Not packed: one StoreEntryPoint after the other.
ReadObjectVector ==
  /\ Running("body") /\ IsObjects(Top.member) /\ Got /\ Top.flags % 2 = 0
  /\ frames' = [k \in 1 .. Top.n |->
                  ObjectFrame(Top.member.class, Append(Top.path, k))] \o Tail(frames)
  /\ UNCHANGED <<stream, pos, messageVars, result, entered, outcome>>

-----------------------------------------------------------------------------
(***************************************************************************)
(* Packed vectors of objects.  Every element has the same headers, cached  *)
(* once; members are matched with them as in StoreTemplate, but nothing    *)
(* is skipped, and a Store without a header left does nothing.             *)
(***************************************************************************)
PackedAt(locs) == Running("packed") /\ Top.at \in locs
NextHeader == Top.headers[Top.h]
Within == Top.h <= Len(Top.headers)
Element == Append(Top.path, Top.k)
NextPending == {p \in Top.pending : p.member.index = NextHeader.index}

ReadPackedVector ==
  /\ Running("body") /\ IsObjects(Top.member) /\ Got /\ Top.flags % 2 = 1
  /\ lent' = lent + 1
  /\ Become(CacheFrame(Top.member.class, Top.path, Top.n, <<>>))
  /\ UNCHANGED <<stream, pos, streamFlags, mCurrentIndexPending, mCurrentPendingVariables,
                 mVariableHistory, result, history>>

CacheHeaders ==
  /\ Running("cache") /\ Got
  /\ Become(IF stream[pos].type = "Terminator"
            THEN PackedFrame(Top.class, Top.path, Top.n, Top.headers)
            ELSE [Top EXCEPT !.headers = Append(@, stream[pos])])
  /\ Take
  /\ UNCHANGED <<stream, messageVars, result, entered, outcome>>

\* Slip: what one element leaves pending is pending in the next.
Cleared_Not == Top.pending
Cleared == {}

NextElement ==
  /\ PackedAt({"next"}) /\ Top.k < Top.n
  /\ Become([Top EXCEPT !.at = "store", !.k = @ + 1, !.todo = Members[Top.class],
                        !.h = 1, !.pending = Cleared])
  /\ UNCHANGED <<stream, pos, messageVars, result, entered, outcome>>

LeavePackedVector ==
  /\ PackedAt({"next"}) /\ Top.k = Top.n
  /\ Release
  /\ Leave
  /\ UNCHANGED <<stream, pos, streamFlags, mCurrentIndexPending, mCurrentPendingVariables,
                 mVariableHistory, result, history>>

\* The last member of the stream has been read: the rest is not there.
StoreMissing ==
  /\ PackedAt({"store"}) /\ Top.todo # <<>> /\ ~Within
  /\ Become([Top EXCEPT !.todo = Tail(@)])
  /\ UNCHANGED <<stream, pos, messageVars, result, entered, outcome>>

\* After the loop over pending members the header is not passed: no later
\* member matches it, so they all become pending.
PassedHeader == IF Top.at = "store" THEN Top.h + 1 ELSE Top.h

StoreNext ==
  /\ PackedAt({"store", "drain"}) /\ Top.todo # <<>> /\ Within
  /\ NextHeader.index = Now.index
  /\ frames' = <<ReadFrame(Now, Append(Element, Now.index), NextHeader.type),
                 [Top EXCEPT !.todo = Tail(@), !.h = PassedHeader, !.at = "store"]>>
               \o Tail(frames)
  /\ UNCHANGED <<stream, pos, messageVars, result, entered, outcome>>

StorePending ==
  /\ PackedAt({"store", "drain"}) /\ Top.todo # <<>> /\ Within
  /\ NextHeader.index # Now.index /\ NextPending = {}
  /\ Become([Top EXCEPT !.todo = Tail(@), !.at = "store",
                !.pending = @ \cup {Pending(Now, Append(Element, Now.index))}])
  /\ UNCHANGED <<stream, pos, messageVars, result, entered, outcome>>

\* Under a Store call, or after OnSerialise has returned.
ReadPending ==
  /\ PackedAt({"store", "drain"}) /\ Within
  /\ \E p \in NextPending :
       frames' = <<ReadFrame(p.member, p.path, NextHeader.type),
                   [Top EXCEPT !.at = "returned"]>> \o Tail(frames)
  /\ UNCHANGED <<stream, pos, messageVars, result, entered, outcome>>

ReadPendingReturns ==
  /\ PackedAt({"returned"})
  /\ Become([Top EXCEPT !.at = "drain", !.h = @ + 1, !.pending = @ \ NextPending])
  /\ UNCHANGED <<stream, pos, messageVars, result, entered, outcome>>

\* Its value has been read, or nobody asks for it.
PassHeader ==
  /\ PackedAt({"store", "drain"}) /\ Top.todo = <<>> /\ Within /\ NextPending = {}
  /\ Become([Top EXCEPT !.h = @ + 1])
  /\ UNCHANGED <<stream, pos, messageVars, result, entered, outcome>>

ElementRead ==
  /\ PackedAt({"store", "drain"}) /\ Top.todo = <<>> /\ ~Within
  /\ Move("next")
  /\ UNCHANGED <<stream, pos, messageVars, result, entered, outcome>>

(***************************************************************************)
(* Where the model ends: the reader takes one kind of token for another,   *)
(* or looks for a header behind the last one in mIndices.  What it does    *)
(* then depends on the bytes it finds.                                     *)
(***************************************************************************)
OutOfStep ==
  LET n == Len(Wanted)
  IN  frames # <<>> /\ ~WrongType /\ ~Fits(IF Left < n THEN Left ELSE n)
Overrun == PackedAt({"drain"}) /\ Top.todo # <<>> /\ ~Within

-----------------------------------------------------------------------------
(***************************************************************************)
(* Skipping.                                                               *)
(***************************************************************************)
SkipPrimitive ==
  /\ Running("unknown") /\ Top.type \in IntegerTypes \cup {"String"} /\ Got
  /\ Take
  /\ Leave
  /\ UNCHANGED <<stream, messageVars, result, entered, outcome>>

SkipArrayHeader ==
  /\ Running("unknown") /\ Top.type = "Array" /\ Got
  /\ Become(SkipArrayFrame(stream[pos].type, stream[pos + 1].n))
  /\ Take
  /\ UNCHANGED <<stream, messageVars, result, entered, outcome>>

SkipElements ==
  /\ Running("skipArray") /\ Top.type \in IntegerTypes \cup {"String"} /\ Got
  /\ Take
  /\ Leave
  /\ UNCHANGED <<stream, messageVars, result, entered, outcome>>

\* Slip: the last object of a vector is not skipped.
SkipCount_OneLess ==
  CASE Running("unknown") /\ Top.type = "Object" -> 1
    [] Running("skipArray") /\ Top.type = "Object" /\ Top.n > 0 -> Top.n - 1
    [] OTHER -> 0

SkipCount ==
  CASE Running("unknown") /\ Top.type = "Object" -> 1
    [] Running("skipArray") /\ Top.type = "Object" -> Top.n
    [] OTHER -> 0

\* Slip: an object inside a skipped one ends the skipping.
Clears_Nested(k) == k = SkipCount

\* Whoever sets mObjectSkipping resets it, after its last object.
Clears(k) == ~mObjectSkipping /\ k = SkipCount

SkipObjects ==
  /\ Running("unknown") \/ Running("skipArray")
  /\ Top.type = "Object"
  /\ mObjectSkipping' = (mObjectSkipping \/ SkipCount > 0)
  /\ frames' = [k \in 1 .. SkipCount |-> SkipFrame(Clears(k))] \o Tail(frames)
  /\ UNCHANGED <<stream, pos, mCurrentType, mCurrentIndex, mCurrentIndexPending,
                 mCleanExit, arrays, result, history>>

LeaveSkipped ==
  /\ Running("skip") /\ Remaining("found") /\ Top.type = "Terminator"
  /\ mObjectSkipping' = (mObjectSkipping /\ ~Top.clears)
  /\ Leave
  /\ UNCHANGED <<stream, pos, mCurrentType, mCurrentIndex, mCurrentIndexPending,
                 mCleanExit, arrays, result, history>>

-----------------------------------------------------------------------------
(***************************************************************************)
(* Destruction.                                                            *)
(***************************************************************************)
\* Slip: only the current array is given back.
Held_CurrentOnly == IF mCurrentPendingVariables = Null THEN 0 ELSE 1

\* How many arrays the destructor finds before the nullptr at the bottom.
Held == Cardinality({k \in 1 .. Len(mVariableHistory) :
                       \A j \in 1 .. k : mVariableHistory[j] # Null})
        + IF mCurrentPendingVariables = Null THEN 0 ELSE 1

Destroy ==
  /\ alive /\ frames = <<>>
  /\ alive' = FALSE
  /\ lent' = IF mCleanExit THEN lent ELSE lent - Held
  /\ UNCHANGED <<stream, pos, frames, streamFlags, mCurrentIndexPending,
                 mCurrentPendingVariables, mVariableHistory, result, entered, outcome>>

-----------------------------------------------------------------------------
ReaderInit ==
  /\ pos = 1 /\ frames = <<>>
  /\ mCurrentType = "Terminator" /\ mCurrentIndex = 0
  /\ mCurrentIndexPending = FALSE
  /\ mObjectSkipping = FALSE /\ mCleanExit = TRUE
  /\ mCurrentPendingVariables = Null /\ mVariableHistory = <<>>
  /\ lent = 0 /\ alive = TRUE
  /\ result = {} /\ entered = <<>> /\ outcome = <<>>

Step ==
  \/ RefuseReuse \/ StoreEntryPoint \/ LeaveObject
  \/ StoreKept \/ StoreLater \/ NoHeaderKept \/ ReadHeader
  \/ ReadNow \/ ReadNowReturns \/ StoreFound \/ StoreOther
  \/ RemainingKept \/ SkipUnknown
  \/ ReadPrimitive \/ ReadObject \/ ReadArrayHeader
  \/ ReadPrimitiveVector \/ ReadObjectVector \/ ReadPackedVector
  \/ CacheHeaders \/ NextElement \/ LeavePackedVector
  \/ StoreMissing \/ StoreNext \/ StorePending
  \/ ReadPending \/ ReadPendingReturns \/ PassHeader \/ ElementRead
  \/ SkipPrimitive \/ SkipArrayHeader \/ SkipElements
  \/ SkipObjects \/ LeaveSkipped
  \/ RejectType \/ FillReadBufferFails

ReaderNext ==
  \/ Step
  \/ \E c \in Readable : Enter(c)
  \/ Destroy

TypeOK ==
  /\ stream \in Seq(Token)
  /\ pos \in Nat \ {0}
  /\ frames \in Seq(Frame)
  /\ mCurrentType \in HeaderTypes /\ mCurrentIndex \in 0 .. 27
  /\ mCurrentIndexPending \in BOOLEAN /\ mObjectSkipping \in BOOLEAN
  /\ mCleanExit \in BOOLEAN /\ alive \in BOOLEAN
  /\ mVariableHistory \in Seq({Null} \cup SUBSET PendingMember)
  /\ mCurrentPendingVariables \in {Null} \cup SUBSET PendingMember
  /\ lent \in Nat
  /\ result \subseteq Seq(Nat) \X Seq(Nat)
  /\ entered \in Seq(Readable)
  /\ outcome \in Seq({"reading", "done", "InvalidType", "EndOfStream", "NoCleanExit"})

=============================================================================
