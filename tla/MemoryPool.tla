----------------------------- MODULE MemoryPool -----------------------------
(***************************************************************************)
(* UnsychronisedMemoryPoolInstantiator (memoryPool.h): blocks of BlockSize *)
(* objects (1000), of which the constructor makes the first; once there    *)
(* are more blocks than MaxBlocks (1000), objects of the heap.             *)
(*                                                                         *)
(* An object is <<block, slot>>, that of the heap <<0, address>>.          *)
(***************************************************************************)
EXTENDS Integers, Sequences

CONSTANTS BlockSize, MaxBlocks, HeapAddresses

ASSUME PoolAssumption ==
  /\ BlockSize \in Nat \ {0} /\ MaxBlocks \in Nat

VARIABLES mAvailablePtrs, mMemoryBlocks, heap

poolVars == <<mAvailablePtrs, mMemoryBlocks, heap>>

Block(b) == [i \in 1 .. BlockSize |-> <<b, i>>]
InBlocks(o) == o[1] \in 1 .. mMemoryBlocks
HeapObjects == {0} \X HeapAddresses
Objects == ((1 .. (MaxBlocks + 1)) \X (1 .. BlockSize)) \cup HeapObjects

PoolInit == mAvailablePtrs = Block(1) /\ mMemoryBlocks = 1 /\ heap = {}

-----------------------------------------------------------------------------
\* Slip: the object stays available.
GetObject_Kept(available, o) ==
  o = available[Len(available)] /\ mAvailablePtrs' = available

GetObject(available, o) ==
  /\ o = available[Len(available)]
  /\ mAvailablePtrs' = [i \in 1 .. (Len(available) - 1) |-> available[i]]

\* Create() gives o.
Create(o) ==
  \/ /\ mAvailablePtrs # <<>>
     /\ GetObject(mAvailablePtrs, o)
     /\ UNCHANGED <<mMemoryBlocks, heap>>
  \/ /\ mAvailablePtrs = <<>> /\ mMemoryBlocks <= MaxBlocks
     /\ mMemoryBlocks' = mMemoryBlocks + 1
     /\ GetObject(Block(mMemoryBlocks + 1), o)
     /\ UNCHANGED heap
  \/ /\ mAvailablePtrs = <<>> /\ mMemoryBlocks > MaxBlocks
     /\ o \in HeapObjects \ heap
     /\ heap' = heap \cup {o}
     /\ UNCHANGED <<mAvailablePtrs, mMemoryBlocks>>

Destroy(o) ==
  /\ IF InBlocks(o)
     THEN mAvailablePtrs' = Append(mAvailablePtrs, o) /\ UNCHANGED heap
     ELSE heap' = heap \ {o} /\ UNCHANGED mAvailablePtrs
  /\ UNCHANGED mMemoryBlocks

\* The assertion of the destructor.
AllReturned(available) == Len(available) \div (BlockSize * mMemoryBlocks) = 1

=============================================================================
