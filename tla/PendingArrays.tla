--------------------------- MODULE PendingArrays ---------------------------
(***************************************************************************)
(* The arrays of pending variables of a deserialising message              *)
(* (binaryDeserMessage.h:66-170): those of the calls of StoreEntryPoint    *)
(* that are under way are kept in a Stack (stack.h), and all come from a   *)
(* pool.  A call may be left by an exception of the library, which clears  *)
(* mCleanExit, or by one of the class that is read, which does not.        *)
(* Exceptions leave all calls: an OnSerialise that catches them is not     *)
(* modelled.                                                               *)
(***************************************************************************)
EXTENDS MemoryPool

CONSTANT MaxArrays          \* bound of the calls, the abandoned ones included

VARIABLES
  mCurrentPendingVariables, \* the array of the innermost call
  mStack, mCursor,          \* of the Stack; mSize is Len(mStack)
  mCleanExit,
  depth,                    \* calls under way
  deleted,
  assertion,                \* of the destructor of the pool
  exceptions                \* history: whose exceptions left a call

callVars == <<mCurrentPendingVariables, mStack, mCursor, depth>>
vars == <<poolVars, callVars, mCleanExit, deleted, assertion, exceptions>>

Null == <<0, -1>>

Init ==
  /\ PoolInit
  /\ mCurrentPendingVariables = Null
  /\ mStack = <<Null>> /\ mCursor = 0
  /\ mCleanExit = TRUE
  /\ depth = 0
  /\ deleted = FALSE /\ assertion = "none" /\ exceptions = {}

-----------------------------------------------------------------------------
(***************************************************************************)
(* The stack.                                                              *)
(***************************************************************************)
\* Slip: without the + 1, a stack of one does not grow.
Grown_NoMore(size) == (size * 16) \div 10

Grown(size) == (size * 16) \div 10 + 1

\* Slip: the stack that has grown is empty.
Resized_Cleared(size) == [i \in 1 .. size |-> Null]

Resized(size) == [i \in 1 .. size |-> IF i <= Len(mStack) THEN mStack[i] ELSE Null]

Push(o) ==
  LET stack == IF mCursor = Len(mStack) THEN Resized(Grown(Len(mStack))) ELSE mStack
  IN  /\ mStack' = [stack EXCEPT ![mCursor + 1] = o]
      /\ mCursor' = mCursor + 1

Top == mStack[mCursor]
Pop == mCursor' = mCursor - 1 /\ UNCHANGED mStack

-----------------------------------------------------------------------------
(***************************************************************************)
(* The calls.                                                              *)
(***************************************************************************)
Enter ==
  /\ ~deleted /\ mCleanExit
  /\ mCursor < MaxArrays
  /\ Push(mCurrentPendingVariables)
  /\ \E o \in Objects : Create(o) /\ mCurrentPendingVariables' = o
  /\ depth' = depth + 1
  /\ UNCHANGED <<mCleanExit, deleted, assertion, exceptions>>

Leave ==
  /\ depth > 0
  /\ Destroy(mCurrentPendingVariables)
  /\ mCurrentPendingVariables' = Top
  /\ Pop
  /\ depth' = depth - 1
  /\ UNCHANGED <<mCleanExit, deleted, assertion, exceptions>>

Throw(whose) ==
  /\ depth > 0
  /\ mCleanExit' = (mCleanExit /\ whose = "class")
  /\ depth' = 0
  /\ exceptions' = exceptions \cup {whose}
  /\ UNCHANGED <<poolVars, mCurrentPendingVariables, mStack, mCursor, deleted, assertion>>

\* The arrays the destructor hands to Destroy: the current one, and what it
\* pops before the nullptr that the first call has pushed.
\* Slip: the current one is forgotten.
Released_StackOnly == [i \in 1 .. (mCursor - 1) |-> mStack[mCursor + 1 - i]]

Released ==
  [i \in 1 .. mCursor |->
    IF i = 1 THEN mCurrentPendingVariables ELSE mStack[mCursor + 2 - i]]

\* What is available once they are destroyed, one after another.
Returned(released) ==
  LET available[n \in 0 .. Len(released)] ==
        IF n = 0 THEN mAvailablePtrs
        ELSE IF InBlocks(released[n]) THEN Append(available[n - 1], released[n])
        ELSE available[n - 1]
  IN  available[Len(released)]

\* The destructors of the message and of the pool.
Delete ==
  /\ ~deleted /\ depth = 0
  /\ LET released == IF mCleanExit THEN <<>> ELSE Released
     IN  /\ mAvailablePtrs' = Returned(released)
         /\ heap' = heap \ {released[i] : i \in DOMAIN released}
  /\ assertion' = (IF AllReturned(mAvailablePtrs') THEN "held" ELSE "failed")
  /\ deleted' = TRUE
  /\ UNCHANGED <<mMemoryBlocks, callVars, mCleanExit, exceptions>>

Done == deleted /\ UNCHANGED vars

Next ==
  \/ Enter \/ Leave \/ Delete \/ Done
  \/ \E whose \in {"library", "class"} : Throw(whose)

Spec == Init /\ [][Next]_vars

-----------------------------------------------------------------------------
(***************************************************************************)
(* Properties.                                                             *)
(***************************************************************************)
\* The stack has room for its cursor, and the pool at most one block more
\* than its maximum.
TypeOK ==
  /\ mAvailablePtrs \in Seq(Objects)
  /\ mMemoryBlocks \in 1 .. (MaxBlocks + 1)
  /\ heap \subseteq HeapObjects
  /\ mCurrentPendingVariables \in Objects \cup {Null}
  /\ mStack \in Seq(Objects \cup {Null})
  /\ mCursor \in 0 .. Len(mStack)
  /\ depth \in 0 .. mCursor
  /\ mCleanExit \in BOOLEAN /\ deleted \in BOOLEAN
  /\ assertion \in {"none", "held", "failed"}
  /\ exceptions \subseteq {"library", "class"}

\* The arrays of the calls, from the outermost, the abandoned ones included.
Array(i) == IF i = mCursor THEN mCurrentPendingVariables ELSE mStack[i + 1]

\* No two calls, nested in any way and after any exceptions, fill the same
\* array; no array of a call can be given to another one; and each array is in
\* the pool at most once (binaryDeserMessage.h:154, memoryPool.h:108).
OwnArrays ==
  ~deleted =>
    /\ \A i, j \in 1 .. mCursor : Array(i) = Array(j) => i = j
    /\ \A i \in 1 .. mCursor, j \in DOMAIN mAvailablePtrs : Array(i) # mAvailablePtrs[j]
    /\ \A i, j \in DOMAIN mAvailablePtrs : mAvailablePtrs[i] = mAvailablePtrs[j] => i = j

\* All is returned to the pool, as its destructor asserts, and nothing of the
\* heap is lost, unless an exception of a class, and none of the library, has
\* left a call (memoryPool.h:81, binaryDeserMessage.h:122).
AssertionExact ==
  deleted => /\ assertion = "failed" <=> exceptions = {"class"}
             /\ heap # {} => exceptions = {"class"}

\* Each call finds its own array again when it goes on after a nested one, for
\* any depth of nesting: over the blocks of the pool, and the growth of the
\* stack (stack.h:39).
Calls == INSTANCE ArrayCalls WITH
  Arrays <- Objects,
  calls <- IF deleted THEN <<>> ELSE [i \in 1 .. depth |-> Array(mCursor - depth + i)],
  abandoned <- IF deleted THEN {} ELSE {Array(i) : i \in 1 .. (mCursor - depth)},
  refused <- deleted \/ ~mCleanExit
RefinesCalls == Calls!Spec

=============================================================================
