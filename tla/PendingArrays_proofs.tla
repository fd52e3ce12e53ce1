------------------------ MODULE PendingArrays_proofs ------------------------
(***************************************************************************)
(* No two calls share an array, and each finds its own again: proofs, for  *)
(* every size and number of blocks and any depth of nesting.               *)
(***************************************************************************)
EXTENDS PendingArrays, FiniteSetTheorems, TLAPS

Pool == (1 .. mMemoryBlocks) \X (1 .. BlockSize)

\* What is available belongs to the pool; what a call has belongs to the pool
\* or is on the heap; and no object is at two places.
AvailableInv ==
  /\ mAvailablePtrs \in Seq(Pool)
  /\ \A i, j \in 1 .. Len(mAvailablePtrs) :
       mAvailablePtrs[i] = mAvailablePtrs[j] => i = j
StackInv ==
  /\ mStack \in Seq(Objects \cup {Null}) /\ mCursor \in 0 .. Len(mStack)
  /\ mCurrentPendingVariables \in Objects \cup {Null}
  /\ depth \in 0 .. mCursor
ArraysInv ==
  /\ \A i \in 1 .. mCursor : Array(i) \in Pool \cup heap
  /\ \A i, j \in 1 .. mCursor : Array(i) = Array(j) => i = j
  /\ \A i \in 1 .. mCursor, j \in 1 .. Len(mAvailablePtrs) : Array(i) # mAvailablePtrs[j]

Inv ==
  /\ mMemoryBlocks \in 1 .. (MaxBlocks + 1) /\ heap \subseteq HeapObjects
  /\ ~deleted => AvailableInv /\ StackInv /\ ArraysInv
  /\ deleted => depth = 0

LEMMA InvImplies == Inv => OwnArrays
BY DEF Inv, OwnArrays, AvailableInv, ArraysInv

LEMMA PoolObjects ==
  ASSUME mMemoryBlocks \in 1 .. (MaxBlocks + 1)
  PROVE  Pool \subseteq Objects /\ Pool \cap HeapObjects = {}
BY PoolAssumption DEF Pool, Objects, HeapObjects

\* The objects of a block are its own, and there are BlockSize of them.
LEMMA BlockFacts ==
  ASSUME NEW b \in Nat
  PROVE  /\ Block(b) \in Seq({b} \X (1 .. BlockSize)) /\ Len(Block(b)) = BlockSize
         /\ \A i \in 1 .. BlockSize : Block(b)[i] = <<b, i>>
BY PoolAssumption DEF Block

LEMMA InitInv == Init => Inv
<1> SUFFICES ASSUME Init PROVE Inv
  OBVIOUS
<1>1. mMemoryBlocks = 1 /\ heap = {} /\ deleted = FALSE /\ mAvailablePtrs = Block(1)
  BY DEF Init, PoolInit
<1>2. AvailableInv
  <2>1. mAvailablePtrs \in Seq(Pool)
    <3>1. Pool = {1} \X (1 .. BlockSize)
      BY <1>1 DEF Pool
    <3> QED BY <1>1, <3>1, BlockFacts
  <2>2. \A i \in 1 .. Len(mAvailablePtrs) : mAvailablePtrs[i] = <<1, i>>
    BY <1>1, BlockFacts
  <2> QED BY <2>1, <2>2 DEF AvailableInv
<1>3. StackInv
  BY DEF Init, StackInv
<1>4. ArraysInv
  BY DEF Init, ArraysInv
<1>5. mMemoryBlocks \in 1 .. (MaxBlocks + 1)
  BY <1>1, PoolAssumption
<1> QED BY <1>1, <1>2, <1>3, <1>4, <1>5 DEF Inv

-----------------------------------------------------------------------------
(***************************************************************************)
(* What Create, Destroy and the stack do.                                  *)
(***************************************************************************)
LEMMA GetObjectFacts ==
  ASSUME NEW S, NEW available \in Seq(S), Len(available) > 0, NEW o,
         GetObject(available, o),
         \A i, j \in 1 .. Len(available) : available[i] = available[j] => i = j
  PROVE  /\ o \in S
         /\ mAvailablePtrs' \in Seq(S)
         /\ Len(mAvailablePtrs') = Len(available) - 1
         /\ \A i \in 1 .. Len(mAvailablePtrs') :
              mAvailablePtrs'[i] = available[i] /\ mAvailablePtrs'[i] # o
BY DEF GetObject

\* An object that is created is that of no call, and no longer available.
LEMMA CreateFacts ==
  ASSUME Inv, ~deleted, NEW o \in Objects, Create(o)
  PROVE  /\ mMemoryBlocks' \in mMemoryBlocks .. (MaxBlocks + 1)
         /\ heap \subseteq heap' /\ heap' \subseteq HeapObjects
         /\ AvailableInv'
         /\ o \in Pool' \cup heap'
         /\ \A j \in 1 .. Len(mAvailablePtrs') : mAvailablePtrs'[j] # o
         /\ \A i \in 1 .. mCursor : Array(i) # o
         /\ \A i \in 1 .. mCursor, j \in 1 .. Len(mAvailablePtrs') :
              Array(i) # mAvailablePtrs'[j]
<1> USE PoolAssumption
<1>0. /\ mMemoryBlocks \in 1 .. (MaxBlocks + 1) /\ heap \subseteq HeapObjects
      /\ AvailableInv /\ StackInv /\ ArraysInv
  BY DEF Inv
<1>1. CASE mAvailablePtrs # <<>> /\ GetObject(mAvailablePtrs, o)
             /\ UNCHANGED <<mMemoryBlocks, heap>>
  <2>1. Len(mAvailablePtrs) > 0
    BY <1>0, <1>1 DEF AvailableInv
  <2>2. /\ o \in Pool
        /\ mAvailablePtrs' \in Seq(Pool)
        /\ Len(mAvailablePtrs') = Len(mAvailablePtrs) - 1
        /\ \A i \in 1 .. Len(mAvailablePtrs') :
             mAvailablePtrs'[i] = mAvailablePtrs[i] /\ mAvailablePtrs'[i] # o
    BY <1>0, <1>1, <2>1, GetObjectFacts DEF AvailableInv
  <2>3. Pool' = Pool
    BY <1>1 DEF Pool
  <2>4. AvailableInv'
    <3>1. Len(mAvailablePtrs') \in Nat /\ Len(mAvailablePtrs) \in Nat
      BY <1>0, <2>2 DEF AvailableInv
    <3>2. ASSUME NEW i \in 1 .. Len(mAvailablePtrs'), NEW j \in 1 .. Len(mAvailablePtrs'),
                 mAvailablePtrs'[i] = mAvailablePtrs'[j]
          PROVE  i = j
      <4>1. i \in 1 .. Len(mAvailablePtrs) /\ j \in 1 .. Len(mAvailablePtrs)
        BY <2>2, <3>1
      <4>2. mAvailablePtrs[i] = mAvailablePtrs[j]
        BY <2>2, <3>2
      <4> QED BY <1>0, <4>1, <4>2 DEF AvailableInv
    <3>3. mAvailablePtrs' \in Seq(Pool')
      BY <2>2, <2>3
    <3> QED BY <3>2, <3>3 DEF AvailableInv
  <2>5. o = mAvailablePtrs[Len(mAvailablePtrs)]
    BY <1>1 DEF GetObject
  <2>6. \A i \in 1 .. mCursor : Array(i) # o
    BY <1>0, <2>1, <2>5 DEF ArraysInv, AvailableInv
  <2>7. \A i \in 1 .. mCursor, j \in 1 .. Len(mAvailablePtrs') :
          Array(i) # mAvailablePtrs'[j]
    BY <1>0, <2>2 DEF ArraysInv, AvailableInv
  <2> QED BY <1>0, <1>1, <2>2, <2>3, <2>4, <2>6, <2>7
<1>2. CASE /\ mAvailablePtrs = <<>> /\ mMemoryBlocks <= MaxBlocks
           /\ mMemoryBlocks' = mMemoryBlocks + 1
           /\ GetObject(Block(mMemoryBlocks + 1), o) /\ UNCHANGED heap
  <2> DEFINE b == mMemoryBlocks + 1
             new == {b} \X (1 .. BlockSize)
  <2>1. /\ Block(b) \in Seq(new) /\ Len(Block(b)) = BlockSize
        /\ \A i \in 1 .. BlockSize : Block(b)[i] = <<b, i>>
    <3>1. b \in Nat
      BY <1>0
    <3> HIDE DEF b
    <3> QED BY <3>1, BlockFacts
  <2>2. \A i, j \in 1 .. Len(Block(b)) : Block(b)[i] = Block(b)[j] => i = j
    BY <2>1
  <2>3. /\ o \in new
        /\ mAvailablePtrs' \in Seq(new)
        /\ Len(mAvailablePtrs') = BlockSize - 1
        /\ \A i \in 1 .. Len(mAvailablePtrs') :
             mAvailablePtrs'[i] = Block(b)[i] /\ mAvailablePtrs'[i] # o
    <3> HIDE DEF new
    <3> QED BY <1>2, <2>1, <2>2, GetObjectFacts
  <2>4. new \subseteq Pool'
    BY <1>0, <1>2 DEF Pool
  <2>5. AvailableInv'
    <3>1. mAvailablePtrs' \in Seq(Pool')
      <4> HIDE DEF new
      <4> QED BY <2>3, <2>4
    <3>2. \A i, j \in 1 .. Len(mAvailablePtrs') :
            mAvailablePtrs'[i] = mAvailablePtrs'[j] => i = j
      <4>1. \A i \in 1 .. Len(mAvailablePtrs') :
              i \in 1 .. Len(Block(b)) /\ mAvailablePtrs'[i] = Block(b)[i]
        BY <2>1, <2>3
      <4> HIDE DEF b
      <4> QED BY <2>2, <4>1
    <3> QED BY <3>1, <3>2 DEF AvailableInv
  <2>6. \A x \in Pool \cup heap : x \notin new
    BY <1>0 DEF Pool, HeapObjects
  <2>7. \A i \in 1 .. mCursor : Array(i) \notin new
    BY <1>0, <2>6 DEF ArraysInv
  <2>8. \A j \in 1 .. Len(mAvailablePtrs') : mAvailablePtrs'[j] \in new
    <3> HIDE DEF new
    <3> QED BY <2>3
  <2> HIDE DEF new
  <2> QED BY <1>0, <1>2, <2>3, <2>4, <2>5, <2>7, <2>8
<1>3. CASE /\ mAvailablePtrs = <<>> /\ mMemoryBlocks > MaxBlocks
           /\ o \in HeapObjects \ heap /\ heap' = heap \cup {o}
           /\ UNCHANGED <<mAvailablePtrs, mMemoryBlocks>>
  <2>1. Pool' = Pool /\ o \notin Pool
    BY <1>0, <1>3, PoolObjects DEF Pool
  <2>2. AvailableInv' /\ Len(mAvailablePtrs') = 0
    BY <1>0, <1>3, <2>1 DEF AvailableInv
  <2>3. \A i \in 1 .. mCursor : Array(i) # o
    BY <1>0, <1>3, <2>1 DEF ArraysInv
  <2> QED BY <1>0, <1>3, <2>1, <2>2, <2>3
<1> QED BY <1>1, <1>2, <1>3 DEF Create

\* The stack grows without losing what it holds.
LEMMA PushFacts ==
  ASSUME StackInv, NEW o \in Objects \cup {Null}, Push(o)
  PROVE  /\ mStack' \in Seq(Objects \cup {Null})
         /\ mCursor' = mCursor + 1 /\ mCursor' \in 1 .. Len(mStack')
         /\ \A i \in 1 .. mCursor : mStack'[i] = mStack[i]
         /\ mStack'[mCursor + 1] = o
<1> DEFINE size == IF mCursor = Len(mStack) THEN Grown(Len(mStack)) ELSE Len(mStack)
           stack == IF mCursor = Len(mStack) THEN Resized(size) ELSE mStack
           S == Objects \cup {Null}
<1>1. Grown(Len(mStack)) \in Nat /\ Grown(Len(mStack)) > Len(mStack)
  BY DEF StackInv, Grown
<1>2. Resized(Grown(Len(mStack))) \in Seq(S)
  BY <1>1 DEF Resized, StackInv
<1>3. /\ stack \in Seq(S) /\ Len(stack) = size /\ mCursor + 1 \in 1 .. size
      /\ \A i \in 1 .. mCursor : stack[i] = mStack[i]
  BY <1>1, <1>2 DEF Resized, StackInv
<1>4. mStack' = [stack EXCEPT ![mCursor + 1] = o] /\ mCursor' = mCursor + 1
  BY DEF Push
<1> HIDE DEF stack, size
<1>5. mStack' \in Seq(S) /\ Len(mStack') = size
  BY <1>3, <1>4
<1> QED BY <1>3, <1>4, <1>5 DEF StackInv

\* An object that is destroyed is available again, or gone from the heap.
LEMMA DestroyFacts ==
  ASSUME Inv, ~deleted, NEW o \in Pool \cup heap, Destroy(o),
         \A j \in 1 .. Len(mAvailablePtrs) : o # mAvailablePtrs[j]
  PROVE  /\ mMemoryBlocks' = mMemoryBlocks /\ Pool' = Pool
         /\ heap' \subseteq heap
         /\ AvailableInv'
         /\ \A x \in Pool \cup heap : x # o => x \in Pool' \cup heap'
         /\ \A j \in 1 .. Len(mAvailablePtrs') :
              \/ mAvailablePtrs'[j] = o
              \/ \E k \in 1 .. Len(mAvailablePtrs) : mAvailablePtrs'[j] = mAvailablePtrs[k]
<1>0. /\ mMemoryBlocks \in 1 .. (MaxBlocks + 1) /\ heap \subseteq HeapObjects
      /\ AvailableInv
  BY DEF Inv
<1>1. Pool' = Pool /\ mMemoryBlocks' = mMemoryBlocks
  BY DEF Destroy, Pool
<1>2. CASE o \in Pool
  <2>1. InBlocks(o)
    BY <1>0, <1>2 DEF Pool, InBlocks
  <2>2. mAvailablePtrs' = Append(mAvailablePtrs, o) /\ heap' = heap
    BY <2>1 DEF Destroy
  <2>3. AvailableInv'
    BY <1>0, <1>1, <1>2, <2>2 DEF AvailableInv
  <2> QED BY <1>0, <1>1, <2>2, <2>3 DEF AvailableInv
<1>3. CASE o \in heap
  <2>1. ~InBlocks(o)
    BY <1>0, <1>3 DEF HeapObjects, InBlocks
  <2>2. mAvailablePtrs' = mAvailablePtrs /\ heap' = heap \ {o}
    BY <2>1 DEF Destroy
  <2> QED BY <1>0, <1>1, <2>2 DEF AvailableInv
<1> QED BY <1>2, <1>3

-----------------------------------------------------------------------------
(***************************************************************************)
(* Every step preserves the invariant.                                     *)
(***************************************************************************)
LEMMA EnterInv ==
  ASSUME Inv, Enter PROVE Inv'
<1>0. /\ AvailableInv /\ StackInv /\ ArraysInv /\ ~deleted
      /\ mMemoryBlocks \in 1 .. (MaxBlocks + 1)
  BY DEF Inv, Enter
<1>1. PICK o \in Objects : Create(o) /\ mCurrentPendingVariables' = o
  BY DEF Enter
<1>2. /\ mMemoryBlocks' \in mMemoryBlocks .. (MaxBlocks + 1)
      /\ heap \subseteq heap' /\ heap' \subseteq HeapObjects
      /\ AvailableInv'
      /\ o \in Pool' \cup heap'
      /\ \A j \in 1 .. Len(mAvailablePtrs') : mAvailablePtrs'[j] # o
      /\ \A i \in 1 .. mCursor : Array(i) # o
      /\ \A i \in 1 .. mCursor, j \in 1 .. Len(mAvailablePtrs') :
           Array(i) # mAvailablePtrs'[j]
  BY <1>0, <1>1, CreateFacts
<1>3. Pool \subseteq Pool'
  BY <1>0, <1>2 DEF Pool
<1>4. /\ mStack' \in Seq(Objects \cup {Null})
      /\ mCursor' = mCursor + 1 /\ mCursor' \in 1 .. Len(mStack')
      /\ \A i \in 1 .. mCursor : mStack'[i] = mStack[i]
      /\ mStack'[mCursor + 1] = mCurrentPendingVariables
  <2>1. mCurrentPendingVariables \in Objects \cup {Null}
    BY <1>0 DEF StackInv
  <2> QED BY <1>0, <2>1, PushFacts DEF Enter
<1>5. \A i \in 1 .. mCursor' : Array(i)' = IF i = mCursor' THEN o ELSE Array(i)
  BY <1>0, <1>1, <1>4 DEF Array, StackInv
<1>6. StackInv'
  BY <1>0, <1>1, <1>4 DEF StackInv, Enter
<1>7. ArraysInv'
  <2>1. \A i \in 1 .. mCursor' : i = mCursor' \/ i \in 1 .. mCursor
    BY <1>0, <1>4 DEF StackInv
  <2>2. \A i \in 1 .. mCursor : Array(i) \in Pool' \cup heap'
    BY <1>0, <1>2, <1>3 DEF ArraysInv
  <2>3. \A i \in 1 .. mCursor' : Array(i)' \in (Pool \cup heap)'
    BY <1>2, <1>5, <2>1, <2>2
  <2>4. \A i, j \in 1 .. mCursor' : Array(i)' = Array(j)' => i = j
    BY <1>0, <1>2, <1>5, <2>1 DEF ArraysInv
  <2>5. \A i \in 1 .. mCursor', j \in 1 .. Len(mAvailablePtrs') :
          Array(i)' # mAvailablePtrs'[j]
    BY <1>2, <1>5, <2>1
  <2> QED BY <2>3, <2>4, <2>5 DEF ArraysInv
<1>8. deleted' = deleted
  BY DEF Enter
<1> QED BY <1>0, <1>2, <1>6, <1>7, <1>8 DEF Inv

LEMMA LeaveInv ==
  ASSUME Inv, Leave PROVE Inv'
<1>0. /\ AvailableInv /\ StackInv /\ ArraysInv /\ ~deleted /\ depth > 0
      /\ mMemoryBlocks \in 1 .. (MaxBlocks + 1) /\ heap \subseteq HeapObjects
  BY DEF Inv, Leave
<1>1. mCursor \in 1 .. Len(mStack)
  BY <1>0 DEF StackInv
<1> DEFINE o == mCurrentPendingVariables
<1>2. /\ o = Array(mCursor) /\ o \in Pool \cup heap
      /\ \A j \in 1 .. Len(mAvailablePtrs) : o # mAvailablePtrs[j]
      /\ \A i \in 1 .. (mCursor - 1) : Array(i) # o
  BY <1>0, <1>1 DEF ArraysInv, Array
<1>3. /\ mMemoryBlocks' = mMemoryBlocks /\ Pool' = Pool
      /\ heap' \subseteq heap
      /\ AvailableInv'
      /\ \A x \in Pool \cup heap : x # o => x \in Pool' \cup heap'
      /\ \A j \in 1 .. Len(mAvailablePtrs') :
           \/ mAvailablePtrs'[j] = o
           \/ \E k \in 1 .. Len(mAvailablePtrs) : mAvailablePtrs'[j] = mAvailablePtrs[k]
  BY <1>0, <1>2, DestroyFacts DEF Leave
<1>4. /\ mCursor' = mCursor - 1 /\ mStack' = mStack /\ depth' = depth - 1
      /\ mCurrentPendingVariables' = mStack[mCursor] /\ deleted' = deleted
  BY DEF Leave, Pop, Top
<1>5. StackInv'
  BY <1>0, <1>1, <1>4 DEF StackInv
<1>6. \A i \in 1 .. mCursor' : i \in 1 .. (mCursor - 1) /\ Array(i)' = Array(i)
  BY <1>0, <1>1, <1>4 DEF Array, StackInv
<1>7. ArraysInv'
  <2> HIDE DEF o
  <2>1. \A i \in 1 .. mCursor' : i \in 1 .. mCursor /\ Array(i)' = Array(i) /\ Array(i) # o
    BY <1>1, <1>2, <1>6
  <2>2. \A i \in 1 .. mCursor' : Array(i)' \in (Pool \cup heap)'
    BY <1>0, <1>3, <2>1 DEF ArraysInv
  <2>3. \A i, j \in 1 .. mCursor' : Array(i)' = Array(j)' => i = j
    BY <1>0, <2>1 DEF ArraysInv
  <2>4. \A i \in 1 .. mCursor', j \in 1 .. Len(mAvailablePtrs') :
          Array(i)' # mAvailablePtrs'[j]
    BY <1>0, <1>3, <2>1 DEF ArraysInv
  <2> QED BY <2>2, <2>3, <2>4 DEF ArraysInv
<1> QED BY <1>0, <1>3, <1>4, <1>5, <1>7 DEF Inv

LEMMA ThrowInv ==
  ASSUME Inv, NEW whose, Throw(whose) PROVE Inv'
<1>0. /\ AvailableInv /\ StackInv /\ ArraysInv /\ ~deleted
      /\ mMemoryBlocks \in 1 .. (MaxBlocks + 1) /\ heap \subseteq HeapObjects
  BY DEF Inv, Throw
<1>1. /\ UNCHANGED <<mAvailablePtrs, mMemoryBlocks, heap, mStack, mCursor>>
      /\ UNCHANGED <<mCurrentPendingVariables, deleted>> /\ depth' = 0
  BY DEF Throw, poolVars
<1>2. Pool' = Pool /\ \A i : Array(i)' = Array(i)
  BY <1>1 DEF Pool, Array
<1>3. AvailableInv' /\ StackInv' /\ ArraysInv'
  <2>1. AvailableInv'
    BY <1>0, <1>1, <1>2 DEF AvailableInv
  <2>2. StackInv'
    BY <1>0, <1>1 DEF StackInv
  <2>3. ArraysInv'
    BY <1>0, <1>1, <1>2 DEF ArraysInv
  <2> QED BY <2>1, <2>2, <2>3
<1> QED BY <1>0, <1>1, <1>3 DEF Inv

LEMMA DeleteInv ==
  ASSUME Inv, Delete PROVE Inv'
<1>1. /\ mMemoryBlocks' = mMemoryBlocks /\ deleted' /\ depth' = depth /\ depth = 0
      /\ heap' \subseteq heap
  BY DEF Delete, callVars
<1> QED BY <1>1 DEF Inv

LEMMA StepInv ==
  ASSUME Inv, [Next]_vars PROVE Inv'
<1>1. CASE Enter
  BY <1>1, EnterInv
<1>2. CASE Leave
  BY <1>2, LeaveInv
<1>3. CASE Delete
  BY <1>3, DeleteInv
<1>4. CASE \E whose \in {"library", "class"} : Throw(whose)
  BY <1>4, ThrowInv
<1>5. CASE UNCHANGED vars
  <2>1. /\ UNCHANGED <<mAvailablePtrs, mMemoryBlocks, heap, mStack, mCursor>>
        /\ UNCHANGED <<mCurrentPendingVariables, deleted, depth>>
    BY <1>5 DEF vars, poolVars, callVars
  <2> QED BY <2>1 DEF Inv, AvailableInv, StackInv, ArraysInv, Pool, Array
<1> QED BY <1>1, <1>2, <1>3, <1>4, <1>5 DEF Next, Done

\* For every size and number of blocks, and any depth: no two calls of
\* StoreEntryPoint fill the same array, and none of theirs is available.
THEOREM NoSharedArray == Spec => []OwnArrays
<1>1. Init => Inv
  BY InitInv
<1>2. Inv /\ [Next]_vars => Inv'
  BY StepInv
<1>3. Inv => OwnArrays
  BY InvImplies
<1> QED BY <1>1, <1>2, <1>3, PTL DEF Spec

-----------------------------------------------------------------------------
(***************************************************************************)
(* The refinement.                                                         *)
(***************************************************************************)
CallsOf == IF deleted THEN <<>> ELSE [i \in 1 .. depth |-> Array(mCursor - depth + i)]
AbandonedOf == IF deleted THEN {} ELSE {Array(i) : i \in 1 .. (mCursor - depth)}
RefusedOf == deleted \/ ~mCleanExit

LEMMA UsedArrays ==
  ASSUME Inv, ~deleted
  PROVE  Calls!Used = {Array(i) : i \in 1 .. mCursor}
<1>1. depth \in 0 .. mCursor /\ mCursor \in Nat
  BY DEF Inv, StackInv
<1>2. \A i \in 1 .. mCursor : i \in 1 .. (mCursor - depth)
                             \/ \E j \in 1 .. depth : i = mCursor - depth + j
  <2> TAKE i \in 1 .. mCursor
  <2>1. CASE i > mCursor - depth
    <3>1. i - (mCursor - depth) \in 1 .. depth /\ i = mCursor - depth + (i - (mCursor - depth))
      BY <1>1, <2>1
    <3> QED BY <3>1
  <2>2. CASE i <= mCursor - depth
    BY <1>1, <2>2
  <2> QED BY <1>1, <2>1, <2>2
<1>3. \A j \in 1 .. depth : mCursor - depth + j \in 1 .. mCursor
  BY <1>1
<1>4. \A i \in 1 .. (mCursor - depth) : i \in 1 .. mCursor
  BY <1>1
<1> QED BY <1>2, <1>3, <1>4 DEF Calls!Used

LEMMA RefineInit == Init => Calls!Init
<1> SUFFICES ASSUME Init PROVE Calls!Init
  OBVIOUS
<1>1. deleted = FALSE /\ mCleanExit = TRUE /\ depth = 0 /\ mCursor = 0
  BY DEF Init
<1>2. CallsOf = <<>> /\ AbandonedOf = {}
  BY <1>1 DEF CallsOf, AbandonedOf
<1>3. RefusedOf = FALSE
  BY <1>1 DEF RefusedOf
<1> QED BY <1>2, <1>3 DEF Calls!Init, CallsOf, AbandonedOf, RefusedOf

LEMMA RefineEnter ==
  ASSUME Inv, Enter
  PROVE  \E a \in Objects : Calls!Enter(a)
<1>0. /\ AvailableInv /\ StackInv /\ ArraysInv /\ ~deleted /\ mCleanExit
      /\ ~deleted' /\ mCleanExit' /\ depth' = depth + 1
  BY DEF Inv, Enter
<1>1. PICK o \in Objects : Create(o) /\ mCurrentPendingVariables' = o
  BY DEF Enter
<1>2. \A i \in 1 .. mCursor : Array(i) # o
  BY <1>0, <1>1, CreateFacts
<1>3. o \notin Calls!Used
  BY <1>0, <1>2, UsedArrays
<1>4. /\ mCursor' = mCursor + 1
      /\ \A i \in 1 .. mCursor : mStack'[i] = mStack[i]
      /\ mStack'[mCursor + 1] = mCurrentPendingVariables
  <2>1. mCurrentPendingVariables \in Objects \cup {Null}
    BY <1>0 DEF StackInv
  <2> QED BY <1>0, <2>1, PushFacts DEF Enter
<1>5. mCursor \in Nat /\ depth \in 0 .. mCursor
  BY <1>0 DEF StackInv
<1>6. \A i \in 1 .. mCursor' : Array(i)' = IF i = mCursor' THEN o ELSE Array(i)
  BY <1>1, <1>4, <1>5 DEF Array
<1>7. CallsOf' = Append(CallsOf, o)
  <2>1. CallsOf = [i \in 1 .. depth |-> Array(mCursor - depth + i)]
    BY <1>0 DEF CallsOf
  <2>2. CallsOf' = [i \in 1 .. (depth + 1) |-> Array(mCursor - depth + i)']
    BY <1>0, <1>4, <1>5 DEF CallsOf
  <2>3. \A i \in 1 .. (depth + 1) :
          Array(mCursor - depth + i)' = IF i = depth + 1 THEN o ELSE Array(mCursor - depth + i)
    <3>1. /\ mCursor' - depth' = mCursor - depth
          /\ \A i \in 1 .. (depth + 1) :
               /\ mCursor - depth + i \in 1 .. mCursor'
               /\ mCursor - depth + i = mCursor' <=> i = depth + 1
      BY <1>0, <1>4, <1>5
    <3> QED BY <1>6, <3>1
  <2>4. Append(CallsOf, o) =
          [i \in 1 .. (depth + 1) |-> IF i = depth + 1 THEN o ELSE Array(mCursor - depth + i)]
    BY <1>5, <2>1
  <2> QED BY <2>2, <2>3, <2>4
<1>8. AbandonedOf' = AbandonedOf
  <2>1. mCursor' - depth' = mCursor - depth
    BY <1>0, <1>4, <1>5
  <2>2. \A i \in 1 .. (mCursor - depth) : Array(i)' = Array(i)
    BY <1>4, <1>5, <1>6
  <2> QED BY <1>0, <2>1, <2>2 DEF AbandonedOf
<1>9. ~RefusedOf /\ RefusedOf' = RefusedOf
  BY <1>0 DEF RefusedOf
<1> QED BY <1>3, <1>7, <1>8, <1>9 DEF Calls!Enter, CallsOf, AbandonedOf, RefusedOf

LEMMA RefineLeave ==
  ASSUME Inv, Leave PROVE Calls!Leave
<1>0. /\ StackInv /\ ~deleted /\ ~deleted' /\ depth > 0
      /\ depth' = depth - 1 /\ mCursor' = mCursor - 1 /\ mCleanExit' = mCleanExit
      /\ mCurrentPendingVariables' = mStack[mCursor] /\ mStack' = mStack
  BY DEF Inv, Leave, Pop, Top
<1>1. mCursor \in Nat /\ depth \in 1 .. mCursor
  BY <1>0 DEF StackInv
<1>2. \A i \in 1 .. mCursor' : Array(i)' = Array(i)
  BY <1>0, <1>1 DEF Array
<1>3. CallsOf = [i \in 1 .. depth |-> Array(mCursor - depth + i)]
  BY <1>0 DEF CallsOf
<1>4. CallsOf' = [i \in 1 .. (depth - 1) |-> Array(mCursor - depth + i)]
  <2>1. CallsOf' = [i \in 1 .. (depth - 1) |-> Array(mCursor - depth + i)']
    BY <1>0, <1>1 DEF CallsOf
  <2>2. /\ mCursor' - depth' = mCursor - depth
        /\ \A i \in 1 .. (depth - 1) : mCursor - depth + i \in 1 .. mCursor'
    BY <1>0, <1>1
  <2> QED BY <1>2, <2>1, <2>2
<1>5. CallsOf # <<>> /\ CallsOf' = SubSeq(CallsOf, 1, Len(CallsOf) - 1)
  BY <1>1, <1>3, <1>4
<1>6. AbandonedOf' = AbandonedOf
  <2>1. mCursor' - depth' = mCursor - depth
    BY <1>0, <1>1
  <2>2. \A i \in 1 .. (mCursor - depth) : Array(i)' = Array(i)
    BY <1>0, <1>1, <1>2
  <2> QED BY <1>0, <2>1, <2>2 DEF AbandonedOf
<1>7. RefusedOf' = RefusedOf
  BY <1>0 DEF RefusedOf
<1> QED BY <1>5, <1>6, <1>7 DEF Calls!Leave, CallsOf, AbandonedOf, RefusedOf

LEMMA RefineThrow ==
  ASSUME Inv, NEW whose, Throw(whose) PROVE Calls!Throw
<1>0. /\ StackInv /\ ~deleted /\ ~deleted' /\ depth > 0 /\ depth' = 0
      /\ UNCHANGED <<mStack, mCursor, mCurrentPendingVariables>>
      /\ mCleanExit' = (mCleanExit /\ whose = "class")
  BY DEF Inv, Throw
<1>1. mCursor \in Nat /\ depth \in 1 .. mCursor
  BY <1>0 DEF StackInv
<1>2. CallsOf # <<>> /\ CallsOf' = <<>>
  <2>1. CallsOf = [i \in 1 .. depth |-> Array(mCursor - depth + i)]
    BY <1>0 DEF CallsOf
  <2>2. CallsOf' = [i \in 1 .. 0 |-> Array(mCursor - 0 + i)']
    BY <1>0 DEF CallsOf
  <2> QED BY <1>1, <2>1, <2>2
<1>3. AbandonedOf' = Calls!Used
  <2>1. AbandonedOf' = {Array(i) : i \in 1 .. mCursor}
    BY <1>0, <1>1 DEF AbandonedOf, Array
  <2> QED BY <1>0, <2>1, UsedArrays
<1>4. RefusedOf' \in {RefusedOf, TRUE}
  <2>1. CASE mCleanExit /\ whose = "class"
    <3>1. RefusedOf = FALSE /\ RefusedOf' = FALSE
      BY <1>0, <2>1 DEF RefusedOf
    <3> QED BY <3>1
  <2>2. CASE ~(mCleanExit /\ whose = "class")
    <3>1. RefusedOf' = TRUE
      BY <1>0, <2>2 DEF RefusedOf
    <3> QED BY <3>1
  <2> QED BY <2>1, <2>2
<1> QED BY <1>2, <1>3, <1>4 DEF Calls!Throw, CallsOf, AbandonedOf, RefusedOf

LEMMA RefineDelete ==
  ASSUME Inv, Delete PROVE Calls!Delete
<1>0. /\ StackInv /\ ~deleted /\ deleted' /\ depth = 0
  BY DEF Inv, Delete
<1>1. CallsOf = <<>> /\ CallsOf' = <<>> /\ AbandonedOf' = {}
  BY <1>0 DEF CallsOf, AbandonedOf
<1>2. RefusedOf' = TRUE
  BY <1>0 DEF RefusedOf
<1> QED BY <1>1, <1>2 DEF Calls!Delete, CallsOf, AbandonedOf, RefusedOf

LEMMA RefineStutter ==
  ASSUME UNCHANGED vars PROVE UNCHANGED Calls!vars
BY DEF vars, callVars, poolVars, Calls!vars, Array

\* For every size and number of blocks, and any depth: a call of
\* StoreEntryPoint finds its own array again after the calls it makes.
THEOREM Refinement == Spec => RefinesCalls
<1>1. Init => Inv
  BY InitInv
<1>2. Inv /\ [Next]_vars => Inv'
  BY StepInv
<1>3. Init => Calls!Init
  BY RefineInit
<1>4. Inv /\ [Next]_vars => [Calls!Next]_Calls!vars
  <2> SUFFICES ASSUME Inv, [Next]_vars PROVE [Calls!Next]_Calls!vars
    OBVIOUS
  <2>1. CASE Enter
    BY <2>1, RefineEnter DEF Calls!Next
  <2>2. CASE Leave
    BY <2>2, RefineLeave DEF Calls!Next
  <2>3. CASE Delete
    BY <2>3, RefineDelete DEF Calls!Next
  <2>4. CASE \E whose \in {"library", "class"} : Throw(whose)
    BY <2>4, RefineThrow DEF Calls!Next
  <2>5. CASE UNCHANGED vars
    BY <2>5, RefineStutter
  <2> QED BY <2>1, <2>2, <2>3, <2>4, <2>5 DEF Next, Done
<1> QED BY <1>1, <1>2, <1>3, <1>4, PTL DEF Spec, RefinesCalls, Calls!Spec

-----------------------------------------------------------------------------
(***************************************************************************)
(* What the assertion of the pool finds, by counting: whatever is not      *)
(* available is with a call, and the destructor of the message gives back  *)
(* all that the calls have.                                                *)
(***************************************************************************)
Elements(s) == {s[j] : j \in 1 .. Len(s)}
Distinct(s) == \A i, j \in 1 .. Len(s) : s[i] = s[j] => i = j

LEMMA PoolSize ==
  ASSUME mMemoryBlocks \in 1 .. (MaxBlocks + 1)
  PROVE  /\ IsFiniteSet(Pool) /\ Cardinality(Pool) = BlockSize * mMemoryBlocks
         /\ BlockSize * mMemoryBlocks \in Nat \ {0}
<1>1. IsFiniteSet(1 .. mMemoryBlocks) /\ Cardinality(1 .. mMemoryBlocks) = mMemoryBlocks
  BY PoolAssumption, FS_Interval
<1>2. IsFiniteSet(1 .. BlockSize) /\ Cardinality(1 .. BlockSize) = BlockSize
  BY PoolAssumption, FS_Interval
<1>3. IsFiniteSet(Pool) /\ Cardinality(Pool) = mMemoryBlocks * BlockSize
  BY <1>1, <1>2, FS_Product, ZenonT(30) DEF Pool
<1>4. BlockSize \in Nat \ {0} /\ mMemoryBlocks \in Nat \ {0}
  BY PoolAssumption
<1>5. mMemoryBlocks * BlockSize = BlockSize * mMemoryBlocks /\ BlockSize * mMemoryBlocks \in Nat \ {0}
  BY <1>4
<1> QED BY <1>3, <1>5

\* A sequence without repetition is as long as it has elements.
LEMMA DistinctLength ==
  ASSUME NEW S, NEW s \in Seq(S), Distinct(s)
  PROVE  IsFiniteSet(Elements(s)) /\ Cardinality(Elements(s)) = Len(s)
<1> DEFINE n == Len(s)
           E == Elements(s)
           f == [j \in 1 .. n |-> s[j]]
<1>1. n \in Nat
  OBVIOUS
<1>2. f \in [1 .. n -> E] /\ \A t \in E : \E j \in 1 .. n : f[j] = t
  BY DEF Elements
<1>3. \A i, j \in 1 .. n : f[i] = f[j] => i = j
  BY DEF Distinct
<1> HIDE DEF f, E
<1>4. ExistsBijection(1 .. n, E)
  <2>1. f \in Injection(1 .. n, E)
    BY <1>2, <1>3 DEF Injection, IsInjective
  <2>2. f \in Surjection(1 .. n, E)
    BY <1>2 DEF Surjection
  <2> QED BY <2>1, <2>2 DEF ExistsBijection, Bijection
<1> HIDE DEF n
<1>5. Cardinality(E) = n
  BY <1>1, <1>4, FS_CountingElements
<1>6. IsFiniteSet(E)
  BY <1>1, <1>4, FS_NatBijection
<1> QED BY <1>5, <1>6 DEF n, E

LEMMA AllReturnedFacts ==
  ASSUME mMemoryBlocks \in 1 .. (MaxBlocks + 1),
         NEW s \in Seq(Pool), Distinct(s)
  PROVE  AllReturned(s) <=> Elements(s) = Pool
<1> DEFINE N == BlockSize * mMemoryBlocks
<1>1. IsFiniteSet(Pool) /\ Cardinality(Pool) = N /\ N \in Nat \ {0}
  BY PoolSize
<1>2. IsFiniteSet(Elements(s)) /\ Cardinality(Elements(s)) = Len(s) /\ Len(s) \in Nat
  BY DistinctLength
<1>3. Elements(s) \in SUBSET Pool
  BY DEF Elements
<1>4. /\ Cardinality(Elements(s)) <= Cardinality(Pool)
      /\ Cardinality(Elements(s)) = Cardinality(Pool) => Elements(s) = Pool
  BY <1>1, <1>3, FS_Subset
<1> HIDE DEF N
<1>5. Len(s) <= N /\ (Len(s) = N <=> Elements(s) = Pool)
  BY <1>1, <1>2, <1>4
<1>6. Len(s) \div N = 1 <=> Len(s) = N
  <2>1. CASE Len(s) = N
    BY <1>1, <2>1
  <2>2. CASE Len(s) < N
    <3>1. Len(s) \div N = 0
      BY <1>1, <1>2, <2>2
    <3> QED BY <2>2, <3>1, <1>2, <1>1
  <2> QED BY <2>1, <2>2, <1>5, <1>1, <1>2
<1> QED BY <1>5, <1>6 DEF AllReturned, N

LEMMA AppendElements ==
  ASSUME NEW S, NEW s \in Seq(S), NEW x \in S
  PROVE  /\ Append(s, x) \in Seq(S)
         /\ Elements(Append(s, x)) = Elements(s) \cup {x}
         /\ Distinct(s) /\ x \notin Elements(s) => Distinct(Append(s, x))
<1> DEFINE t == Append(s, x)
<1>1. /\ t \in Seq(S) /\ Len(t) = Len(s) + 1 /\ t[Len(s) + 1] = x
      /\ \A i \in 1 .. Len(s) : t[i] = s[i]
  OBVIOUS
<1> HIDE DEF t
<1>2. \A i \in 1 .. Len(t) : i \in 1 .. Len(s) \/ i = Len(s) + 1
  BY <1>1
<1>3. Elements(t) = Elements(s) \cup {x}
  <2>1. \A y \in Elements(t) : y \in Elements(s) \cup {x}
    BY <1>1, <1>2 DEF Elements
  <2>2. \A y \in Elements(s) : y \in Elements(t)
    <3>1. \A i \in 1 .. Len(s) : i \in 1 .. Len(t)
      BY <1>1
    <3> QED BY <1>1, <3>1 DEF Elements
  <2>3. x \in Elements(t)
    <3>1. Len(s) + 1 \in 1 .. Len(t)
      BY <1>1
    <3> QED BY <1>1, <3>1 DEF Elements
  <2> QED BY <2>1, <2>2, <2>3
<1>4. ASSUME Distinct(s), x \notin Elements(s) PROVE Distinct(t)
  <2>1. \A i \in 1 .. Len(s) : t[i] = s[i] /\ s[i] # x
    BY <1>1, <1>4 DEF Elements
  <2> QED BY <1>1, <1>2, <1>4, <2>1 DEF Distinct
<1> QED BY <1>1, <1>3, <1>4 DEF t

\* Below a number that S lacks, the successor would map what S has into itself,
\* one to one, and never to 0.
LEMMA InductionUpto ==
  ASSUME NEW N \in Nat, NEW S, 0 \in S, \A n \in 1 .. N : n - 1 \in S => n \in S
  PROVE  0 .. N \subseteq S
<1> SUFFICES ASSUME NEW n \in 0 .. N, n \notin S PROVE FALSE
  OBVIOUS
<1> DEFINE B == (0 .. n) \cap S
           f == [x \in B |-> x + 1]
<1>1. IsFiniteSet(B)
  <2>1. B \in SUBSET (0 .. n)
    OBVIOUS
  <2>2. IsFiniteSet(0 .. n)
    BY FS_Interval
  <2> QED BY <2>1, <2>2, FS_Subset
<1>2. f \in Injection(B, B \ {0})
  <2>1. \A x \in B : x + 1 \in 1 .. N /\ (x + 1) - 1 = x /\ x \in 0 .. n /\ x \in S /\ x # n
    OBVIOUS
  <2>2. \A x \in B : x + 1 \in B \ {0}
    <3>1. \A x \in B : x + 1 \in S /\ x + 1 \in 0 .. n /\ x + 1 # 0
      BY <2>1
    <3> QED BY <3>1
  <2>3. \A x, y \in B : x + 1 = y + 1 => x = y
    BY <2>1
  <2> HIDE DEF B
  <2>4. f \in [B -> B \ {0}]
    BY <2>2
  <2> QED BY <2>3, <2>4 DEF Injection, IsInjective
<1>3. 0 \in B
  OBVIOUS
<1> HIDE DEF B, f
<1>4. IsFiniteSet(B \ {0}) /\ Cardinality(B \ {0}) = Cardinality(B) - 1
  BY <1>1, <1>3, FS_RemoveElement
<1>5. Cardinality(B) <= Cardinality(B \ {0})
  BY <1>2, <1>4, FS_Injection
<1> QED BY <1>1, <1>4, <1>5, FS_CardinalityType

RecursiveUpto(N, f, a, G) == f[0] = a /\ \A n \in 1 .. N : f[n] = G[<<n, f[n - 1]>>]

\* There is a function that G takes from each number to the next.
LEMMA RecursionUpto ==
  ASSUME NEW N \in Nat, NEW V, NEW a \in V, NEW G \in [(1 .. N) \X V -> V]
  PROVE  \E f \in [0 .. N -> V] : RecursiveUpto(N, f, a, G)
<1> DEFINE S == {n \in 0 .. N : \E f \in [0 .. n -> V] : RecursiveUpto(n, f, a, G)}
<1>1. 0 \in S
  <2> DEFINE f == [i \in 0 .. 0 |-> a]
  <2>1. f \in [0 .. 0 -> V] /\ RecursiveUpto(0, f, a, G)
    BY DEF RecursiveUpto
  <2> HIDE DEF f
  <2>2. 0 \in 0 .. N
    OBVIOUS
  <2> QED BY <2>1, <2>2
<1>2. ASSUME NEW n \in 1 .. N, n - 1 \in S PROVE n \in S
  <2>1. PICK f \in [0 .. (n - 1) -> V] : RecursiveUpto(n - 1, f, a, G)
    BY <1>2
  <2> DEFINE g == [i \in 0 .. n |-> IF i = n THEN G[<<n, f[n - 1]>>] ELSE f[i]]
  <2>2. f[n - 1] \in V /\ G[<<n, f[n - 1]>>] \in V
    OBVIOUS
  <2>3. \A i \in 0 .. n : i = n \/ i \in 0 .. (n - 1)
    OBVIOUS
  <2>4. g \in [0 .. n -> V]
    BY <2>2, <2>3
  <2>5. g[n] = G[<<n, f[n - 1]>>] /\ \A i \in 0 .. (n - 1) : g[i] = f[i]
    OBVIOUS
  <2> HIDE DEF g
  <2>6. \A i \in 1 .. n : g[i] = G[<<i, g[i - 1]>>]
    <3> TAKE i \in 1 .. n
    <3>1. i - 1 \in 0 .. (n - 1)
      OBVIOUS
    <3>2. CASE i = n
      BY <2>5, <3>1, <3>2
    <3>3. CASE i # n
      <4>1. i \in 1 .. (n - 1) /\ i \in 0 .. (n - 1)
        BY <3>3
      <4>2. f[i] = G[<<i, f[i - 1]>>]
        BY <2>1, <4>1 DEF RecursiveUpto
      <4> QED BY <2>5, <3>1, <4>1, <4>2
    <3> QED BY <3>2, <3>3
  <2>7. g[0] = a
    BY <2>1, <2>5 DEF RecursiveUpto
  <2> QED BY <2>4, <2>6, <2>7 DEF RecursiveUpto
<1>3. 0 .. N \subseteq S
  <2> HIDE DEF S
  <2> QED BY <1>1, <1>2, InductionUpto
<1> QED BY <1>3

\* Destroying the released objects adds to the available ones what belongs to
\* the pool.
LEMMA ReturnedFacts ==
  ASSUME mMemoryBlocks \in 1 .. (MaxBlocks + 1),
         AvailableInv, NEW N \in Nat, NEW released \in [1 .. N -> Objects],
         \A i, j \in 1 .. N : released[i] = released[j] => i = j,
         \A i \in 1 .. N : InBlocks(released[i]) =>
            released[i] \in Pool /\ released[i] \notin Elements(mAvailablePtrs)
  PROVE  /\ Returned(released) \in Seq(Pool) /\ Distinct(Returned(released))
         /\ Elements(Returned(released)) =
              Elements(mAvailablePtrs) \cup {released[i] : i \in {k \in 1 .. N : InBlocks(released[k])}}
<1> DEFINE Step(n, v) == IF InBlocks(released[n]) THEN Append(v, released[n]) ELSE v
           V == Seq(Pool)
           G == [p \in (1 .. N) \X V |-> Step(p[1], p[2])]
           available[n \in 0 .. Len(released)] ==
             IF n = 0 THEN mAvailablePtrs
             ELSE IF InBlocks(released[n]) THEN Append(available[n - 1], released[n])
             ELSE available[n - 1]
           back(n) == {released[i] : i \in {k \in 1 .. n : InBlocks(released[k])}}
<1>1. Len(released) = N
  OBVIOUS
<1>2. mAvailablePtrs \in V /\ Distinct(mAvailablePtrs)
  BY DEF AvailableInv, Distinct
<1>3. G \in [(1 .. N) \X V -> V]
  <2>1. \A n \in 1 .. N, v \in V : Step(n, v) \in V
    BY AppendElements
  <2> HIDE DEF Step, V
  <2> QED BY <2>1
<1>4. PICK f \in [0 .. N -> V] : RecursiveUpto(N, f, mAvailablePtrs, G)
  <2> HIDE DEF G, V
  <2> QED BY <1>2, <1>3, RecursionUpto
<1>5. f[0] = mAvailablePtrs /\ \A n \in 1 .. N : f[n] = Step(n, f[n - 1])
  <2>1. ASSUME NEW n \in 1 .. N PROVE f[n] = Step(n, f[n - 1])
    <3>1. n - 1 \in 0 .. N
      OBVIOUS
    <3>2. f[n - 1] \in V /\ f[n] = G[<<n, f[n - 1]>>]
      BY <1>4, <3>1 DEF RecursiveUpto
    <3> HIDE DEF V, Step
    <3> QED BY <3>2
  <2> QED BY <1>4, <2>1 DEF RecursiveUpto
<1>6. available = [n \in 0 .. Len(released) |->
             IF n = 0 THEN mAvailablePtrs
             ELSE IF InBlocks(released[n]) THEN Append(available[n - 1], released[n])
             ELSE available[n - 1]]
  <2>1. f = [n \in 0 .. Len(released) |->
             IF n = 0 THEN mAvailablePtrs
             ELSE IF InBlocks(released[n]) THEN Append(f[n - 1], released[n])
             ELSE f[n - 1]]
    <3>1. \A n \in 0 .. N : f[n] = IF n = 0 THEN mAvailablePtrs ELSE Step(n, f[n - 1])
      <4> HIDE DEF Step
      <4> QED BY <1>5
    <3>2. f = [n \in 0 .. N |-> IF n = 0 THEN mAvailablePtrs ELSE Step(n, f[n - 1])]
      <4> HIDE DEF Step
      <4> QED BY <1>4, <3>1
    <3> QED BY <1>1, <3>2
  <2> QED BY <2>1, Zenon
<1>7. Returned(released) = available[N]
  BY <1>1 DEF Returned
<1>8. \A n \in 0 .. N : available[n] = IF n = 0 THEN mAvailablePtrs ELSE Step(n, available[n - 1])
  <2> HIDE DEF available
  <2> QED BY <1>1, <1>6
<1> HIDE DEF available, G
<1> DEFINE good(n) == /\ available[n] \in V /\ Distinct(available[n])
                      /\ Elements(available[n]) = Elements(mAvailablePtrs) \cup back(n)
           S == {n \in 0 .. N : good(n)}
<1>9. 0 \in S
  <2>1. available[0] = mAvailablePtrs
    BY <1>8
  <2>2. back(0) = {}
    OBVIOUS
  <2> QED BY <1>2, <2>1, <2>2
<1>10. \A n \in 1 .. N : n - 1 \in S => n \in S
  <2> SUFFICES ASSUME NEW n \in 1 .. N, good(n - 1) PROVE good(n)
    <3> HIDE DEF good
    <3> QED OBVIOUS
  <2>1. available[n] = Step(n, available[n - 1])
    BY <1>8
  <2>2. CASE InBlocks(released[n])
    <3>1. back(n) = back(n - 1) \cup {released[n]}
      <4>1. \A k \in 1 .. n : k \in 1 .. (n - 1) \/ k = n
        OBVIOUS
      <4>2. \A k \in 1 .. (n - 1) : k \in 1 .. n
        OBVIOUS
      <4> QED BY <2>2, <4>1, <4>2
    <3>2. released[n] \notin Elements(available[n - 1])
      <4>1. \A k \in 1 .. (n - 1) : released[k] # released[n]
        OBVIOUS
      <4> QED BY <2>2, <4>1
    <3>3. released[n] \in Pool
      BY <2>2
    <3>4. available[n] = Append(available[n - 1], released[n])
      BY <2>1, <2>2
    <3> HIDE DEF back
    <3> QED BY <3>1, <3>2, <3>3, <3>4, AppendElements
  <2>3. CASE ~InBlocks(released[n])
    <3>1. back(n) = back(n - 1)
      <4>1. \A k \in 1 .. n : k \in 1 .. (n - 1) \/ k = n
        OBVIOUS
      <4>2. \A k \in 1 .. (n - 1) : k \in 1 .. n
        OBVIOUS
      <4> QED BY <2>3, <4>1, <4>2
    <3>2. available[n] = available[n - 1]
      BY <2>1, <2>3
    <3> HIDE DEF back
    <3> QED BY <3>1, <3>2
  <2> QED BY <2>2, <2>3
<1>11. N \in S
  <2>1. 0 .. N \subseteq S
    <3> HIDE DEF S
    <3> QED BY <1>9, <1>10, InductionUpto
  <2> QED BY <2>1
<1> QED BY <1>7, <1>11

InUse == {Array(i) : i \in 1 .. mCursor}

\* Nothing is lost: what the pool does not have available, and what is on the
\* heap, is with a call; and the first call's array is of the pool.
AccountInv ==
  /\ Pool \subseteq Elements(mAvailablePtrs) \cup InUse
  /\ heap \subseteq InUse
  /\ mCursor > 0 => Array(1) \in Pool

\* An exception of the library ends all calls, and any leaves arrays behind.
ExceptionsInv ==
  /\ mCleanExit \in BOOLEAN /\ exceptions \subseteq {"library", "class"}
  /\ mCleanExit <=> "library" \notin exceptions
  /\ ~mCleanExit => depth = 0
  /\ exceptions = {} <=> depth = mCursor

FullInv ==
  /\ Inv /\ TypeOK /\ ExceptionsInv /\ AssertionExact
  /\ ~deleted => AccountInv

LEMMA CreateAccount ==
  ASSUME Inv, ~deleted, NEW o \in Objects, Create(o)
  PROVE  /\ \A x \in Pool' : \/ x \in Elements(mAvailablePtrs') \/ x = o
                             \/ x \in Pool /\ x \notin Elements(mAvailablePtrs)
         /\ heap' \subseteq heap \cup {o}
         /\ mAvailablePtrs # <<>> => o \in Pool'
<1> USE PoolAssumption
<1>0. /\ mMemoryBlocks \in 1 .. (MaxBlocks + 1) /\ heap \subseteq HeapObjects
      /\ AvailableInv
  BY DEF Inv
<1>1. CASE mAvailablePtrs # <<>> /\ GetObject(mAvailablePtrs, o)
             /\ UNCHANGED <<mMemoryBlocks, heap>>
  <2>1. Len(mAvailablePtrs) > 0 /\ Len(mAvailablePtrs) \in Nat
    BY <1>0, <1>1 DEF AvailableInv
  <2>2. /\ o \in Pool
        /\ Len(mAvailablePtrs') = Len(mAvailablePtrs) - 1
        /\ \A i \in 1 .. Len(mAvailablePtrs') : mAvailablePtrs'[i] = mAvailablePtrs[i]
    BY <1>0, <1>1, <2>1, GetObjectFacts DEF AvailableInv
  <2>3. o = mAvailablePtrs[Len(mAvailablePtrs)]
    BY <1>1 DEF GetObject
  <2>4. Pool' = Pool
    BY <1>1 DEF Pool
  <2>5. \A x \in Elements(mAvailablePtrs) : x \in Elements(mAvailablePtrs') \/ x = o
    <3>1. \A i \in 1 .. Len(mAvailablePtrs) :
            i \in 1 .. Len(mAvailablePtrs') \/ i = Len(mAvailablePtrs)
      BY <2>1, <2>2
    <3> QED BY <2>2, <2>3, <3>1 DEF Elements
  <2> QED BY <1>1, <2>2, <2>4, <2>5
<1>2. CASE /\ mAvailablePtrs = <<>> /\ mMemoryBlocks <= MaxBlocks
           /\ mMemoryBlocks' = mMemoryBlocks + 1
           /\ GetObject(Block(mMemoryBlocks + 1), o) /\ UNCHANGED heap
  <2> DEFINE b == mMemoryBlocks + 1
  <2>1. /\ Len(Block(b)) = BlockSize
        /\ \A i \in 1 .. BlockSize : Block(b)[i] = <<b, i>>
    <3>1. b \in Nat
      BY <1>0
    <3> HIDE DEF b
    <3> QED BY <3>1, BlockFacts
  <2>2. /\ o = <<b, BlockSize>>
        /\ Len(mAvailablePtrs') = BlockSize - 1
        /\ \A i \in 1 .. (BlockSize - 1) : mAvailablePtrs'[i] = <<b, i>>
    BY <1>2, <2>1 DEF GetObject
  <2>3. ASSUME NEW x \in Pool', x \notin Pool
        PROVE  x \in Elements(mAvailablePtrs') \/ x = o
    <3>1. PICK i \in 1 .. BlockSize : x = <<b, i>>
      BY <1>0, <1>2, <2>3 DEF Pool
    <3>2. CASE i = BlockSize
      BY <2>2, <3>1, <3>2
    <3>3. CASE i # BlockSize
      <4>1. i \in 1 .. (BlockSize - 1)
        BY <3>3
      <4> QED BY <2>2, <3>1, <4>1 DEF Elements
    <3> QED BY <3>2, <3>3
  <2>4. Elements(mAvailablePtrs) = {}
    BY <1>2 DEF Elements
  <2> QED BY <1>2, <2>3, <2>4
<1>3. CASE /\ mAvailablePtrs = <<>> /\ mMemoryBlocks > MaxBlocks
           /\ o \in HeapObjects \ heap /\ heap' = heap \cup {o}
           /\ UNCHANGED <<mAvailablePtrs, mMemoryBlocks>>
  <2>1. Pool' = Pool /\ Elements(mAvailablePtrs) = {}
    BY <1>3 DEF Pool, Elements
  <2> QED BY <1>3, <2>1
<1> QED BY <1>1, <1>2, <1>3 DEF Create

\* The arrays of the calls before and after a call begins, and one ends.
LEMMA EnterArrays ==
  ASSUME Inv, Enter
  PROVE  \E o \in Objects :
           /\ Create(o) /\ mCursor' = mCursor + 1
           /\ \A i \in 1 .. mCursor' : Array(i)' = IF i = mCursor' THEN o ELSE Array(i)
<1>0. StackInv /\ ~deleted
  BY DEF Inv, Enter
<1>1. PICK o \in Objects : Create(o) /\ mCurrentPendingVariables' = o
  BY DEF Enter
<1>2. /\ mCursor' = mCursor + 1
      /\ \A i \in 1 .. mCursor : mStack'[i] = mStack[i]
      /\ mStack'[mCursor + 1] = mCurrentPendingVariables
  <2>1. mCurrentPendingVariables \in Objects \cup {Null}
    BY <1>0 DEF StackInv
  <2> QED BY <1>0, <2>1, PushFacts DEF Enter
<1>3. \A i \in 1 .. mCursor' : Array(i)' = IF i = mCursor' THEN o ELSE Array(i)
  BY <1>0, <1>1, <1>2 DEF Array, StackInv
<1> QED BY <1>1, <1>2, <1>3

LEMMA LeaveArrays ==
  ASSUME Inv, Leave
  PROVE  /\ mCursor \in Nat \ {0} /\ mCursor' = mCursor - 1
         /\ Array(mCursor) = mCurrentPendingVariables
         /\ \A i \in 1 .. mCursor' : i \in 1 .. mCursor /\ Array(i)' = Array(i)
<1>0. StackInv /\ depth > 0
  BY DEF Inv, Leave
<1>1. mCursor \in Nat \ {0} /\ mCursor \in 1 .. Len(mStack)
  BY <1>0 DEF StackInv
<1>2. /\ mCursor' = mCursor - 1 /\ mStack' = mStack
      /\ mCurrentPendingVariables' = mStack[mCursor]
  BY DEF Leave, Pop, Top
<1> QED BY <1>1, <1>2 DEF Array

LEMMA EnterAccount ==
  ASSUME Inv, ~deleted, AccountInv, Enter PROVE AccountInv'
<1>0. mMemoryBlocks \in 1 .. (MaxBlocks + 1) /\ mCursor \in Nat
  BY DEF Inv, StackInv
<1>1. PICK o \in Objects :
        /\ Create(o) /\ mCursor' = mCursor + 1
        /\ \A i \in 1 .. mCursor' : Array(i)' = IF i = mCursor' THEN o ELSE Array(i)
  BY EnterArrays
<1>2. InUse' = InUse \cup {o}
  <2>1. InUse' = {Array(i)' : i \in 1 .. mCursor'}
    BY DEF InUse
  <2>2. \A i \in 1 .. mCursor' : i \in 1 .. mCursor \/ i = mCursor'
    BY <1>0, <1>1
  <2>3. mCursor' \in 1 .. mCursor' /\ \A i \in 1 .. mCursor : i \in 1 .. mCursor' /\ i # mCursor'
    BY <1>0, <1>1
  <2> QED BY <1>1, <2>1, <2>2, <2>3 DEF InUse
<1>3. /\ \A x \in Pool' : \/ x \in Elements(mAvailablePtrs') \/ x = o
                          \/ x \in Pool /\ x \notin Elements(mAvailablePtrs)
      /\ heap' \subseteq heap \cup {o}
      /\ mAvailablePtrs # <<>> => o \in Pool'
  BY <1>1, CreateAccount
<1>4. Pool' \subseteq Elements(mAvailablePtrs') \cup InUse' /\ heap' \subseteq InUse'
  BY <1>2, <1>3 DEF AccountInv
<1>5. Array(1)' \in Pool'
  <2>1. CASE mCursor = 0
    <3>1. <<1, 1>> \in Pool
      BY <1>0, PoolAssumption DEF Pool
    <3>2. InUse = {}
      BY <2>1 DEF InUse
    <3>3. mAvailablePtrs # <<>>
      BY <3>1, <3>2 DEF AccountInv, Elements
    <3> QED BY <1>1, <1>3, <2>1, <3>3
  <2>2. CASE mCursor # 0
    <3>1. Array(1) \in Pool
      BY <1>0, <2>2 DEF AccountInv
    <3>2. Array(1)' = Array(1)
      BY <1>0, <1>1, <2>2
    <3>3. mMemoryBlocks' \in mMemoryBlocks .. (MaxBlocks + 1)
      BY <1>1, CreateFacts
    <3>4. Pool \subseteq Pool'
      BY <1>0, <3>3 DEF Pool
    <3> QED BY <3>1, <3>2, <3>4
  <2> QED BY <2>1, <2>2
<1>6. AccountInv' <=> /\ Pool' \subseteq Elements(mAvailablePtrs') \cup InUse'
                      /\ heap' \subseteq InUse'
                      /\ mCursor' > 0 => Array(1)' \in Pool'
  BY DEF AccountInv
<1> QED BY <1>4, <1>5, <1>6

LEMMA LeaveAccount ==
  ASSUME Inv, ~deleted, AccountInv, Leave PROVE AccountInv'
<1> DEFINE o == mCurrentPendingVariables
<1>0. /\ mMemoryBlocks \in 1 .. (MaxBlocks + 1) /\ AvailableInv
      /\ heap \subseteq HeapObjects /\ ArraysInv /\ Destroy(o)
  BY DEF Inv, Leave
<1>1. /\ mCursor \in Nat \ {0} /\ mCursor' = mCursor - 1
      /\ Array(mCursor) = o
      /\ \A i \in 1 .. mCursor' : i \in 1 .. mCursor /\ Array(i)' = Array(i)
  BY LeaveArrays
<1> HIDE DEF o
<1>2. InUse \subseteq InUse' \cup {o}
  <2>1. InUse' = {Array(i)' : i \in 1 .. mCursor'}
    BY DEF InUse
  <2>2. \A i \in 1 .. mCursor : i \in 1 .. mCursor' \/ i = mCursor
    BY <1>1
  <2> QED BY <1>1, <2>1, <2>2 DEF InUse
<1>3. Pool' = Pool
  BY <1>0 DEF Destroy, Pool
<1>4. o \in Pool \cup heap
  BY <1>0, <1>1 DEF ArraysInv
<1>5. Pool' \subseteq Elements(mAvailablePtrs') \cup InUse' /\ heap' \subseteq InUse'
  <2>1. CASE InBlocks(o)
    <3>1. o \in Pool /\ o \notin heap
      BY <1>0, <1>4, <2>1 DEF InBlocks, HeapObjects
    <3>2. mAvailablePtrs' = Append(mAvailablePtrs, o) /\ heap' = heap
      BY <1>0, <2>1 DEF Destroy
    <3>3. Elements(mAvailablePtrs') = Elements(mAvailablePtrs) \cup {o}
      BY <1>0, <3>1, <3>2, AppendElements DEF AvailableInv
    <3> QED BY <1>2, <1>3, <3>1, <3>2, <3>3 DEF AccountInv
  <2>2. CASE ~InBlocks(o)
    <3>1. o \notin Pool
      BY <1>0, <2>2 DEF InBlocks, Pool
    <3>2. mAvailablePtrs' = mAvailablePtrs /\ heap' = heap \ {o}
      BY <1>0, <2>2 DEF Destroy
    <3> QED BY <1>2, <1>3, <3>1, <3>2 DEF AccountInv
  <2> QED BY <2>1, <2>2
<1>6. mCursor' > 0 => Array(1)' \in Pool'
  BY <1>1, <1>3 DEF AccountInv
<1>7. AccountInv' <=> /\ Pool' \subseteq Elements(mAvailablePtrs') \cup InUse'
                      /\ heap' \subseteq InUse'
                      /\ mCursor' > 0 => Array(1)' \in Pool'
  BY DEF AccountInv
<1> QED BY <1>5, <1>6, <1>7

\* The values all variables have before the message dies.
LEMMA TypesFromInv ==
  ASSUME Inv, ~deleted, mCleanExit \in BOOLEAN, deleted \in BOOLEAN,
         assertion \in {"none", "held", "failed"}, exceptions \subseteq {"library", "class"}
  PROVE  TypeOK
<1>1. mMemoryBlocks \in 1 .. (MaxBlocks + 1) /\ AvailableInv /\ StackInv
  BY DEF Inv
<1>2. mAvailablePtrs \in Seq(Objects)
  BY <1>1, PoolObjects DEF AvailableInv
<1> QED BY <1>1, <1>2 DEF TypeOK, Inv, StackInv

LEMMA TypesKept ==
  ASSUME Inv', ~deleted', mCleanExit' \in BOOLEAN, deleted' \in BOOLEAN,
         assertion' \in {"none", "held", "failed"}, exceptions' \subseteq {"library", "class"}
  PROVE  TypeOK'
<1>1. (mMemoryBlocks \in 1 .. (MaxBlocks + 1))' /\ AvailableInv' /\ StackInv'
  BY DEF Inv
<1>2. mAvailablePtrs' \in Seq(Objects)
  <2>1. Pool' \subseteq Objects
    BY <1>1, PoolAssumption DEF Pool, Objects
  <2> QED BY <1>1, <2>1 DEF AvailableInv
<1> QED BY <1>1, <1>2 DEF TypeOK, Inv, StackInv

\* What the destructor destroys: every array in use, each once.
LEMMA ReleasedArrays ==
  ASSUME Inv, ~deleted
  PROVE  /\ mCursor \in Nat
         /\ Released \in [1 .. mCursor -> Objects]
         /\ \A i, j \in 1 .. mCursor : Released[i] = Released[j] => i = j
         /\ {Released[i] : i \in DOMAIN Released} = InUse
         /\ \A i \in 1 .. mCursor : Released[i] \in Pool \cup heap
         /\ \A i \in 1 .. mCursor : Released[i] \notin Elements(mAvailablePtrs)
<1>0. /\ mMemoryBlocks \in 1 .. (MaxBlocks + 1) /\ heap \subseteq HeapObjects
      /\ StackInv /\ ArraysInv
  BY DEF Inv
<1>1. mCursor \in Nat
  BY <1>0 DEF StackInv
<1>2. \A i \in 1 .. mCursor : mCursor + 1 - i \in 1 .. mCursor
                              /\ Released[i] = Array(mCursor + 1 - i)
  BY <1>1 DEF Released, Array
<1>3. Pool \subseteq Objects /\ HeapObjects \subseteq Objects
  BY <1>0, PoolObjects DEF Objects
<1>4. \A i \in 1 .. mCursor : Released[i] \in Pool \cup heap /\ Released[i] \in Objects
  BY <1>0, <1>2, <1>3 DEF ArraysInv
<1>5. Released \in [1 .. mCursor -> Objects]
  <2>1. Released = [i \in 1 .. mCursor |-> Released[i]]
    BY DEF Released
  <2> QED BY <1>4, <2>1
<1>6. ASSUME NEW i \in 1 .. mCursor, NEW j \in 1 .. mCursor, Released[i] = Released[j]
      PROVE  i = j
  <2>1. mCursor + 1 - i = mCursor + 1 - j
    BY <1>0, <1>2, <1>6 DEF ArraysInv
  <2> QED BY <1>1, <2>1
<1>7. {Released[i] : i \in DOMAIN Released} = InUse
  <2>1. DOMAIN Released = 1 .. mCursor
    BY <1>5
  <2>2. \A i \in 1 .. mCursor : \E k \in 1 .. mCursor : i = mCursor + 1 - k
    <3> TAKE i \in 1 .. mCursor
    <3>1. mCursor + 1 - i \in 1 .. mCursor /\ i = mCursor + 1 - (mCursor + 1 - i)
      BY <1>1
    <3> QED BY <3>1
  <2> QED BY <1>2, <2>1, <2>2 DEF InUse
<1>8. \A i \in 1 .. mCursor : Released[i] \notin Elements(mAvailablePtrs)
  BY <1>0, <1>2 DEF ArraysInv, Elements
<1> QED BY <1>1, <1>4, <1>5, <1>6, <1>7, <1>8

LEMMA DeleteExact ==
  ASSUME Inv, ~deleted, AccountInv, ExceptionsInv, Delete
  PROVE  /\ AssertionExact'
         /\ mAvailablePtrs' \in Seq(Objects)
         /\ assertion' \in {"held", "failed"}
<1>0. /\ mMemoryBlocks \in 1 .. (MaxBlocks + 1) /\ heap \subseteq HeapObjects
      /\ AvailableInv /\ StackInv /\ ArraysInv /\ mMemoryBlocks' = mMemoryBlocks
      /\ depth = 0 /\ exceptions' = exceptions
      /\ Pool \subseteq Objects /\ Pool \cap HeapObjects = {}
      /\ mAvailablePtrs \in Seq(Pool) /\ Distinct(mAvailablePtrs) /\ mCursor \in Nat
  BY PoolObjects DEF Inv, Delete, AvailableInv, Distinct, StackInv
<1>1. assertion' = IF AllReturned(mAvailablePtrs') THEN "held" ELSE "failed"
  BY DEF Delete
<1>2. /\ mAvailablePtrs' = Returned(IF mCleanExit THEN <<>> ELSE Released)
      /\ heap' = heap \ {(IF mCleanExit THEN <<>> ELSE Released)[i] :
                           i \in DOMAIN (IF mCleanExit THEN <<>> ELSE Released)}
  BY DEF Delete
<1>3. ASSUME NEW N \in Nat, NEW released \in [1 .. N -> Objects],
             \A i, j \in 1 .. N : released[i] = released[j] => i = j,
             \A i \in 1 .. N : released[i] \in Pool \cup heap,
             \A i \in 1 .. N : released[i] \notin Elements(mAvailablePtrs),
             mAvailablePtrs' = Returned(released)
      PROVE  /\ mAvailablePtrs' \in Seq(Pool) /\ Distinct(mAvailablePtrs')
             /\ Elements(mAvailablePtrs') =
                  Elements(mAvailablePtrs) \cup ({released[i] : i \in 1 .. N} \cap Pool)
  <2>1. \A i \in 1 .. N : InBlocks(released[i]) <=> released[i] \in Pool
    BY <1>0, <1>3 DEF InBlocks, Pool, HeapObjects
  <2>2. {released[i] : i \in {k \in 1 .. N : InBlocks(released[k])}} =
          {released[i] : i \in 1 .. N} \cap Pool
    BY <2>1
  <2>3. /\ Returned(released) \in Seq(Pool) /\ Distinct(Returned(released))
        /\ Elements(Returned(released)) =
             Elements(mAvailablePtrs) \cup {released[i] : i \in {k \in 1 .. N : InBlocks(released[k])}}
    BY <1>0, <1>3, <2>1, ReturnedFacts
  <2> QED BY <1>3, <2>2, <2>3
<1>4. /\ mAvailablePtrs' \in Seq(Pool) /\ Distinct(mAvailablePtrs')
      /\ mCleanExit => Elements(mAvailablePtrs') = Elements(mAvailablePtrs) /\ heap' = heap
      /\ ~mCleanExit => /\ Elements(mAvailablePtrs') = Elements(mAvailablePtrs) \cup (InUse \cap Pool)
                        /\ heap' = heap \ InUse
  <2>1. CASE mCleanExit
    <3> DEFINE none == [i \in 1 .. 0 |-> Null]
    <3>1. none \in [1 .. 0 -> Objects] /\ <<>> = none
      OBVIOUS
    <3>2. mAvailablePtrs' = Returned(none)
      BY <1>2, <2>1, <3>1
    <3>3. {none[i] : i \in 1 .. 0} = {}
      OBVIOUS
    <3> HIDE DEF none
    <3>4. /\ mAvailablePtrs' \in Seq(Pool) /\ Distinct(mAvailablePtrs')
          /\ Elements(mAvailablePtrs') =
               Elements(mAvailablePtrs) \cup ({none[i] : i \in 1 .. 0} \cap Pool)
      <4>1. 0 \in Nat /\ \A i \in 1 .. 0 : FALSE
        OBVIOUS
      <4> QED BY <1>3, <3>1, <3>2, <4>1
    <3>5. heap' = heap
      BY <1>2, <2>1
    <3> QED BY <2>1, <3>3, <3>4, <3>5
  <2>2. CASE ~mCleanExit
    <3>1. mAvailablePtrs' = Returned(Released) /\ heap' = heap \ InUse
      BY <1>2, <2>2, ReleasedArrays
    <3>2. {Released[i] : i \in 1 .. mCursor} = InUse
      BY ReleasedArrays
    <3> HIDE DEF Released
    <3>3. /\ mAvailablePtrs' \in Seq(Pool) /\ Distinct(mAvailablePtrs')
          /\ Elements(mAvailablePtrs') =
               Elements(mAvailablePtrs) \cup ({Released[i] : i \in 1 .. mCursor} \cap Pool)
      BY <1>0, <1>3, <3>1, ReleasedArrays
    <3> QED BY <2>2, <3>1, <3>2, <3>3
  <2> QED BY <2>1, <2>2
<1>5. assertion' = "held" <=> Elements(mAvailablePtrs') = Pool
  BY <1>0, <1>1, <1>4, AllReturnedFacts
<1>6. Elements(mAvailablePtrs) \subseteq Pool
  BY <1>0 DEF Elements
<1>7. CASE exceptions = {}
  <2>1. mCursor = 0 /\ mCleanExit
    BY <1>0, <1>7 DEF ExceptionsInv
  <2>2. InUse = {}
    BY <2>1 DEF InUse
  <2>3. assertion' = "held" /\ heap' = {}
    BY <1>4, <1>5, <1>6, <2>1, <2>2 DEF AccountInv
  <2> QED BY <1>0, <1>4, <1>7, <2>3 DEF AssertionExact
<1>8. CASE "library" \in exceptions
  <2>1. ~mCleanExit
    BY <1>8 DEF ExceptionsInv
  <2>2. assertion' = "held" /\ heap' = {}
    BY <1>4, <1>5, <1>6, <2>1 DEF AccountInv
  <2> QED BY <1>0, <1>4, <1>8, <2>2 DEF AssertionExact
<1>9. CASE exceptions = {"class"}
  <2>1. mCleanExit /\ mCursor > 0
    BY <1>0, <1>9 DEF ExceptionsInv
  <2>2. Array(1) \in Pool /\ Array(1) \notin Elements(mAvailablePtrs)
    BY <1>0, <2>1 DEF AccountInv, ArraysInv, Elements
  <2>3. assertion' = "failed"
    BY <1>1, <1>4, <1>5, <2>1, <2>2
  <2> QED BY <1>0, <1>4, <1>9, <2>3 DEF AssertionExact
<1>10. exceptions \in {{}, {"class"}} \/ "library" \in exceptions
  BY DEF ExceptionsInv
<1> QED BY <1>7, <1>8, <1>9, <1>10

LEMMA FullInit == Init => FullInv
<1> SUFFICES ASSUME Init PROVE FullInv
  OBVIOUS
<1>1. /\ deleted = FALSE /\ mCleanExit = TRUE /\ exceptions = {} /\ assertion = "none"
      /\ depth = 0 /\ mCursor = 0 /\ mAvailablePtrs = Block(1) /\ mMemoryBlocks = 1 /\ heap = {}
  BY DEF Init, PoolInit
<1>2. Inv
  BY InitInv
<1>3. TypeOK
  BY <1>1, <1>2, TypesFromInv
<1>4. ExceptionsInv /\ AssertionExact
  BY <1>1 DEF ExceptionsInv, AssertionExact
<1>5. AccountInv
  <2>1. ASSUME NEW x \in Pool PROVE x \in Elements(mAvailablePtrs)
    <3>1. PICK i \in 1 .. BlockSize : x = <<1, i>>
      BY <1>1 DEF Pool
    <3>2. Len(Block(1)) = BlockSize /\ Block(1)[i] = <<1, i>>
      BY BlockFacts
    <3> QED BY <1>1, <3>1, <3>2 DEF Elements
  <2> QED BY <1>1, <2>1 DEF AccountInv
<1> QED BY <1>2, <1>3, <1>4, <1>5 DEF FullInv

LEMMA FullStep ==
  ASSUME FullInv, [Next]_vars PROVE FullInv'
<1>0. Inv /\ TypeOK /\ ExceptionsInv /\ AssertionExact /\ (~deleted => AccountInv) /\ Inv'
  BY StepInv DEF FullInv
<1>1. CASE Enter
  <2>1. /\ ~deleted /\ mCleanExit /\ depth' = depth + 1 /\ deleted' = deleted
        /\ UNCHANGED <<mCleanExit, assertion, exceptions>>
    BY <1>1 DEF Enter
  <2>2. mCursor' = mCursor + 1 /\ depth \in Nat /\ mCursor \in Nat
    BY <1>0, <1>1, EnterArrays DEF TypeOK
  <2>3. ExceptionsInv'
    BY <1>0, <2>1, <2>2 DEF ExceptionsInv
  <2>4. AccountInv'
    BY <1>0, <1>1, <2>1, EnterAccount
  <2>5. TypeOK'
    BY <1>0, <2>1, TypesKept DEF TypeOK
  <2> QED BY <1>0, <2>1, <2>3, <2>4, <2>5 DEF FullInv, AssertionExact
<1>2. CASE Leave
  <2>1. /\ ~deleted /\ depth > 0 /\ depth' = depth - 1 /\ deleted' = deleted
        /\ UNCHANGED <<mCleanExit, assertion, exceptions>>
    BY <1>0, <1>2 DEF Leave, Inv
  <2>2. mCursor' = mCursor - 1 /\ depth \in Nat /\ mCursor \in Nat
    BY <1>0, <1>2, LeaveArrays DEF TypeOK
  <2>3. ExceptionsInv'
    BY <1>0, <2>1, <2>2 DEF ExceptionsInv
  <2>4. AccountInv'
    BY <1>0, <1>2, <2>1, LeaveAccount
  <2>5. TypeOK'
    BY <1>0, <2>1, TypesKept DEF TypeOK
  <2> QED BY <1>0, <2>1, <2>3, <2>4, <2>5 DEF FullInv, AssertionExact
<1>3. CASE \E whose \in {"library", "class"} : Throw(whose)
  <2>1. PICK whose \in {"library", "class"} : Throw(whose)
    BY <1>3
  <2>2. /\ ~deleted /\ depth > 0 /\ depth' = 0 /\ deleted' = deleted
        /\ mCleanExit' = (mCleanExit /\ whose = "class")
        /\ exceptions' = exceptions \cup {whose}
        /\ UNCHANGED <<mAvailablePtrs, mMemoryBlocks, heap, mStack, mCursor>>
        /\ UNCHANGED <<mCurrentPendingVariables, assertion>>
    BY <1>0, <2>1 DEF Throw, Inv, poolVars
  <2>3. mCursor' > 0
    BY <1>0, <2>2 DEF TypeOK
  <2>4. ExceptionsInv'
    <3>1. mCleanExit' \in BOOLEAN /\ exceptions' \subseteq {"library", "class"}
      BY <1>0, <2>2 DEF ExceptionsInv
    <3>2. mCleanExit' <=> "library" \notin exceptions'
      BY <1>0, <2>2 DEF ExceptionsInv
    <3>3. exceptions' # {} /\ depth' # mCursor'
      BY <2>2, <2>3
    <3> QED BY <2>2, <3>1, <3>2, <3>3 DEF ExceptionsInv
  <2>5. AccountInv'
    <3>1. Pool' = Pool /\ InUse' = InUse /\ Array(1)' = Array(1)
      BY <2>2 DEF Pool, InUse, Array
    <3> QED BY <1>0, <2>2, <3>1 DEF AccountInv, Elements
  <2>6. TypeOK'
    BY <1>0, <2>2, <2>4, TypesKept DEF TypeOK, ExceptionsInv
  <2> QED BY <1>0, <2>2, <2>4, <2>5, <2>6 DEF FullInv, AssertionExact
<1>4. CASE Delete
  <2>1. /\ ~deleted /\ deleted' = TRUE /\ heap' \subseteq heap
        /\ UNCHANGED <<mMemoryBlocks, mCurrentPendingVariables, mStack, mCursor, depth>>
        /\ UNCHANGED <<mCleanExit, exceptions>>
    BY <1>4 DEF Delete, callVars
  <2>2. /\ AssertionExact' /\ mAvailablePtrs' \in Seq(Objects)
        /\ assertion' \in {"held", "failed"}
    BY <1>0, <1>4, <2>1, DeleteExact
  <2>3. TypeOK'
    BY <1>0, <2>1, <2>2 DEF TypeOK
  <2>4. ExceptionsInv'
    BY <1>0, <2>1 DEF ExceptionsInv
  <2> QED BY <1>0, <2>1, <2>2, <2>3, <2>4 DEF FullInv
<1>5. CASE UNCHANGED vars
  <2>1. /\ UNCHANGED <<mAvailablePtrs, mMemoryBlocks, heap, mStack, mCursor>>
        /\ UNCHANGED <<mCurrentPendingVariables, deleted, depth>>
        /\ UNCHANGED <<mCleanExit, assertion, exceptions>>
    BY <1>5 DEF vars, poolVars, callVars
  <2>2. TypeOK' /\ ExceptionsInv' /\ AssertionExact'
    BY <1>0, <2>1 DEF TypeOK, ExceptionsInv, AssertionExact
  <2>3. Pool' = Pool /\ InUse' = InUse /\ Array(1)' = Array(1)
    BY <2>1 DEF Pool, InUse, Array
  <2>4. ~deleted' => AccountInv'
    BY <1>0, <2>1, <2>3 DEF AccountInv, Elements
  <2> QED BY <1>0, <2>2, <2>4 DEF FullInv
<1> QED BY <1>1, <1>2, <1>3, <1>4, <1>5 DEF Next, Done

LEMMA FullAlways == Spec => []FullInv
<1>1. Init => FullInv
  BY FullInit
<1>2. FullInv /\ [Next]_vars => FullInv'
  BY FullStep
<1> QED BY <1>1, <1>2, PTL DEF Spec

\* All variables always have the values the code gives them.
THEOREM Types == Spec => []TypeOK
<1>1. FullInv => TypeOK
  BY DEF FullInv
<1> QED BY <1>1, FullAlways, PTL

\* For every size and number of blocks, any depth of nesting, and any
\* exceptions.
THEOREM ExactAssertion == Spec => []AssertionExact
<1>1. FullInv => AssertionExact
  BY DEF FullInv
<1> QED BY <1>1, FullAlways, PTL

=============================================================================
