-------------------- MODULE ParallelFloatProcessor_proofs --------------------
(***************************************************************************)
(* Proofs about ParallelFloatProcessor: its safety properties, for any     *)
(* number of threads that divides the size of the buffer, if the           *)
(* generation of the barrier is no wider than its snapshot.  They rest on  *)
(* the arithmetic of the slices, on what MixedBarrier_proofs shows of the  *)
(* barrier for every client, and on the invariant ProcessorInv.            *)
(***************************************************************************)
EXTENDS ParallelFloatProcessor, TLAPS, FiniteSetTheorems

Slice(t) == MyStart(t) .. (MyEnd(t) - 1)

\* Euclid's division, for an exact multiple.
LEMMA ExactDivision ==
  ASSUME NEW a \in Nat, NEW n \in Nat, n > 0
  PROVE  (a * n) \div n = a
  BY Z3

\* With q elements per thread, thread t has those from t * q up to (t + 1) * q.
LEMMA SliceBounds ==
  \E q \in Nat : /\ q > 0
                 /\ BufferSize = q * Size
                 /\ \A t \in Threads : MyStart(t) = t * q /\ MyEnd(t) = t * q + q
<1>1. PICK q \in Nat : BufferSize = q * Size
  <2>1. BufferSize = (BufferSize \div Size) * Size
    BY ProcessorAssumption, Z3
  <2> QED
    BY <2>1, ProcessorAssumption
<1>2. q > 0
  BY <1>1, ProcessorAssumption
<1>3. BufferSize \div Size = q
  BY <1>1, ExactDivision, ProcessorAssumption
<1>4. ASSUME NEW t \in Threads
      PROVE  MyStart(t) = t * q /\ MyEnd(t) = t * q + q
  <2>1. t \in Nat /\ Size \in Nat /\ Size > 0
    BY ProcessorAssumption DEF Threads
  <2>2. t * BufferSize = (t * q) * Size
    BY <1>1, <2>1
  <2>3. (t * BufferSize) \div Size = t * q
    BY <2>1, <2>2, ExactDivision
  <2> QED
    BY <1>3, <2>3 DEF MyStart, MyEnd
<1> QED
  BY <1>1, <1>2, <1>4

\* Two threads never convert the same element.
THEOREM SlicesDisjoint ==
  \A t, u \in Threads : t # u => Slice(t) \cap Slice(u) = {}
<1>1. PICK q \in Nat : \A t \in Threads : MyStart(t) = t * q /\ MyEnd(t) = t * q + q
  BY SliceBounds
<1>2. ASSUME NEW t \in Threads, NEW u \in Threads, t < u
      PROVE  Slice(t) \cap Slice(u) = {}
  <2>1. t \in Nat /\ u \in Nat /\ t + 1 <= u
    BY <1>2, ProcessorAssumption DEF Threads
  <2>2. t * q + q <= u * q
    BY <2>1
  <2>3. t * q \in Nat /\ u * q \in Nat
    BY <2>1
  <2>4. \A s \in Slice(t) : s \in Int /\ s < t * q + q
    BY <1>1, <2>3 DEF Slice
  <2>5. \A s \in Slice(u) : s \in Int /\ s >= u * q
    BY <1>1, <2>3 DEF Slice
  <2> QED
    BY <2>2, <2>3, <2>4, <2>5
<1> QED
  <2>1. \A t, u \in Threads : t # u => t < u \/ u < t
    BY ProcessorAssumption DEF Threads
  <2> QED
    BY <1>2, <2>1

\* Every element of the buffer is some thread's.
THEOREM SlicesCover == Slots = UNION {Slice(t) : t \in Threads}
<1>1. PICK q \in Nat : /\ q > 0
                       /\ BufferSize = q * Size
                       /\ \A t \in Threads : MyStart(t) = t * q /\ MyEnd(t) = t * q + q
  BY SliceBounds
<1>2. ASSUME NEW s \in Slots
      PROVE  \E t \in Threads : s \in Slice(t)
  <2>1. s \in Nat /\ s < q * Size /\ Size \in Nat
    BY <1>1, ProcessorAssumption DEF Slots
  <2>2. PICK t \in Nat : t * q <= s /\ s < t * q + q
    <3>1. s \div q \in Nat
      BY <1>1, <2>1
    <3>2. (s \div q) * q <= s /\ s < (s \div q) * q + q
      BY <1>1, <2>1, Z3
    <3> QED
      BY <3>1, <3>2
  <2>3. t < Size
    BY <1>1, <2>1, <2>2
  <2>4. t \in Threads
    BY <2>1, <2>3 DEF Threads
  <2> QED
    BY <1>1, <2>1, <2>2, <2>4 DEF Slice
<1>3. ASSUME NEW t \in Threads, NEW s \in Slice(t)
      PROVE  s \in Slots
  <2>1. t \in Nat /\ t + 1 <= Size /\ Size \in Nat
    BY ProcessorAssumption DEF Threads
  <2>2. t * q + q <= Size * q /\ t * q \in Nat
    BY <2>1
  <2> QED
    BY <1>1, <2>1, <2>2 DEF Slice, Slots
<1> QED
  BY <1>2, <1>3

(***************************************************************************)
(* The inductive invariant.                                                *)
(***************************************************************************)
\* Threads that the barrier has let go but that have not yet left Wait.
Freed == B!releasedBar

InWaitPCs == {"dec"} \cup B!Closing \cup B!Opening \cup B!Waiting \cup B!Leaving

CallerPCs == {"idle", "spawn", "clip", "convert", "return", "await", "resetCounter",
              "setTask", "callWait", "inWait", "ownSlice", "abort", "join"}
WorkerPCs == {"unborn", "callWait", "inWait", "testStop", "switch", "clip", "convert",
              "count", "ended"}
Working == {"testStop", "switch", "clip", "convert", "count"}
CalmPCs == {"unborn", "callWait", "inWait"}

\* A block that the workers take part in.
Large == request.size >= Threshold

\* The caller has met the workers for this call and not yet seen them all done.
CallerBusy ==
  \/ 0 \in Freed
  \/ ppc[0] \in {"ownSlice", "await"}
  \/ ppc[0] \in {"clip", "convert"} /\ Large

\* Workers that have yet to count themselves for the task in progress.
Pending == {t \in Workers : t \in Freed \/ ppc[t] \in Working}

TypesInv ==
  /\ created \in BOOLEAN
  /\ mCounter \in Nat
  /\ mTask \in AllTasks \cup {"garbage"}
  /\ mSourceSize \in 0 .. BufferSize
  /\ mFloatSourceCursor \in 0 .. 1
  /\ mDoubleSourceCursor \in 0 .. 1
  /\ ppc \in [Threads -> ProcessorPCs]
  /\ ppc[0] \in CallerPCs
  /\ \A t \in Workers : ppc[t] \in WorkerPCs
  /\ kernel \in [Threads -> [task : AllTasks \cup {"garbage"},
                             j : 0 .. BufferSize, end : 0 .. BufferSize]]
  /\ request \in [task : AllTasks \cup {"garbage"}, size : 0 .. BufferSize]
  /\ result \in [Slots -> (AllTasks \cup {"garbage"}) \X (0 .. 1)]

\* Where a thread is in the processor and where it is in the barrier.
PlaceInv ==
  /\ \A t \in Threads : ppc[t] = "inWait" <=> pc[t] \in InWaitPCs
  /\ \A t \in Threads : pc[t] \in B!Quitting <=> t = 0 /\ ppc[t] = "abort"
  /\ \A t \in Threads : pc[t] = "done" => aborted

\* After an abort nobody converts, and nobody opens the barrier.
StopInv ==
  aborted =>
    /\ ppc[0] \in {"abort", "join"} \/ (ppc[0] = "idle" /\ ~created)
    /\ \A t \in Workers : ppc[t] \in CalmPCs \cup {"testStop", "ended"}
    /\ \A t \in Threads : pc[t] \notin B!Opening

\* Between two calls the workers are on their way to the barrier or in it.
QuietInv ==
  ~aborted /\ ~CallerBusy =>
    /\ Freed = {}
    /\ \A t \in Workers : ppc[t] \in CalmPCs

\* Until the caller has seen them all done each worker is pending or counted.
BusyInv ==
  ~aborted /\ CallerBusy =>
    /\ \A t \in Workers : ppc[t] \in Working \cup {"callWait", "inWait"}
    /\ mCounter + Cardinality(Pending) = Size - 1

CounterInv ==
  /\ mCounter <= Size - 1
  /\ ~aborted /\ ~CallerBusy /\ ppc[0] \in {"setTask", "callWait", "inWait"} => mCounter = 0

\* The plain members say what the caller asked for as long as the call lasts.
DataInv ==
  /\ ppc[0] \notin {"idle", "spawn", "abort", "join"} =>
       /\ request.task \in AllTasks
       /\ mSourceSize = request.size
       /\ Cursor(request.task) = 1
  /\ ppc[0] \in {"callWait", "inWait"} \/ CallerBusy => mTask = request.task
  /\ ppc[0] \in {"resetCounter", "setTask", "callWait", "inWait", "ownSlice", "await"} => Large

\* A kernel works on its thread's slice of the block; the caller's, for a small
\* block, on all of it.
KernelInv ==
  /\ \A t \in Threads : t # 0 \/ Large =>
       /\ ppc[t] = "clip" =>
            kernel[t] = [task |-> request.task, j |-> MyStart(t), end |-> MyEnd(t)]
       /\ ppc[t] = "convert" =>
            /\ kernel[t].task = request.task
            /\ MyStart(t) <= kernel[t].j /\ kernel[t].j < kernel[t].end
            /\ kernel[t].end = Smaller(MyEnd(t), request.size)
  /\ ~Large =>
       /\ ppc[0] = "clip" =>
            kernel[0] = [task |-> request.task, j |-> 0, end |-> request.size]
       /\ ppc[0] = "convert" =>
            /\ kernel[0].task = request.task
            /\ kernel[0].j < kernel[0].end
            /\ kernel[0].end = request.size

\* How far each slice has been converted, and how far a small block.
Frontier(t) ==
  IF ppc[t] = "convert" THEN kernel[t].j
  ELSE IF \/ ppc[t] = "count"
          \/ ppc[0] = "return"
          \/ t = 0 /\ ppc[0] = "await"
          \/ t # 0 /\ CallerBusy /\ t \notin Pending
       THEN MyEnd(t)
  ELSE MyStart(t)

SmallCall == ppc[0] \in {"clip", "convert", "return"} /\ ~Large

SmallFrontier ==
  IF ppc[0] = "convert" THEN kernel[0].j
  ELSE IF ppc[0] = "return" THEN request.size
  ELSE 0

Converted == <<request.task, 1>>

ResultInv ==
  /\ SmallCall =>
       \A s \in Slots : result[s] = IF s < SmallFrontier THEN Converted ELSE Untouched
  /\ ~SmallCall =>
       \A t \in Threads : \A s \in Slice(t) :
         result[s] = IF s < Frontier(t) /\ s < request.size THEN Converted ELSE Untouched

ProcessorInv ==
  /\ B!IInv
  /\ TypesInv
  /\ PlaceInv
  /\ StopInv
  /\ QuietInv
  /\ BusyInv
  /\ CounterInv
  /\ DataInv
  /\ KernelInv
  /\ ResultInv

(***************************************************************************)
(* The barrier inside the processor: what MixedBarrier_proofs proves of    *)
(* every client holds for this one.  (B and BP are the same barrier; their *)
(* definitions have to be unfolded for the provers to see it.)             *)
(***************************************************************************)
BP == INSTANCE MixedBarrier_proofs WITH Controller <- 0, NoThread <- -1, MayAbort <- MayTerminate

\* The threads and how many there are.
LEMMA SizeFacts == /\ IsFiniteSet(Threads) /\ Cardinality(Threads) = Size
                   /\ IsFiniteSet(Workers) /\ Cardinality(Workers) = Size - 1
                   /\ 0 \in Threads /\ -1 \notin Threads /\ 0 \notin Workers
                   /\ Workers \subseteq Threads
<1>1. IsFiniteSet(Threads) /\ Cardinality(Threads) = Size
  BY ProcessorAssumption, FS_Interval DEF Threads
<1>2. 0 \in Threads /\ -1 \notin Threads
  BY ProcessorAssumption DEF Threads
<1> QED
  BY <1>1, <1>2, FS_RemoveElement DEF Workers

\* FiniteSets, in the three places it is instantiated, counts the same.
LEMMA SameCount == \A S : B!Cardinality(S) = Cardinality(S) /\ BP!Cardinality(S) = Cardinality(S)
  BY DEF Cardinality, B!Cardinality, BP!Cardinality

\* The barrier is for Size threads.
LEMMA SameMax == B!mMax = Size /\ BP!mMax = Size
  BY SameCount, SizeFacts DEF B!mMax, BP!mMax

\* The assumptions of MixedBarrier.
LEMMA BarrierConstants == /\ BP!IsFiniteSet(Threads)
                          /\ 0 \in Threads
                          /\ -1 \notin Threads
                          /\ BP!Cardinality(Threads) >= 2
<1>1. BP!IsFiniteSet(Threads)
  BY SizeFacts DEF IsFiniteSet, BP!IsFiniteSet
<1> QED
  BY <1>1, SizeFacts, SameCount, ProcessorAssumption

\* Both instances have the same invariant,
LEMMA SameInv == B!IInv <=> BP!IInv
<1> USE DEF
      B!Generations, BP!Generations, B!NextGeneration, BP!NextGeneration, B!Other, BP!Other,
      B!PCs, BP!PCs, B!Holding, BP!Holding, B!Inside, BP!Inside, B!Held, BP!Held, B!Counted,
      BP!Counted, B!Late, BP!Late, B!Closing, BP!Closing, B!Opening, BP!Opening, B!Parking,
      BP!Parking, B!Waiting, BP!Waiting, B!Leaving, BP!Leaving, B!Quitting, BP!Quitting
<1>1. B!TypeOK <=> BP!TypeOK
  BY SameMax DEF B!TypeOK, BP!TypeOK
<1>2. B!LockInv <=> BP!LockInv
  BY DEF B!LockInv, BP!LockInv
<1>3. B!SpacesAccounted <=> BP!SpacesAccounted
  BY SameMax, SameCount DEF B!SpacesAccounted, BP!SpacesAccounted
<1>4. B!SpacesAborted <=> BP!SpacesAborted
  BY SameCount DEF B!SpacesAborted, BP!SpacesAborted
<1>5. B!OneOpens <=> BP!OneOpens
  BY DEF B!OneOpens, BP!OneOpens
<1>6. B!SnapshotInv <=> BP!SnapshotInv
  BY DEF B!SnapshotInv, BP!SnapshotInv
<1>7. B!RecentInv <=> BP!RecentInv
  BY DEF B!RecentInv, BP!RecentInv
<1>8. B!NoLostWakeup <=> BP!NoLostWakeup
  BY DEF B!NoLostWakeup, BP!NoLostWakeup
<1>9. B!AbortInv <=> BP!AbortInv
  BY DEF B!AbortInv, BP!AbortInv
<1> QED
  BY <1>1, <1>2, <1>3, <1>4, <1>5, <1>6, <1>7, <1>8, <1>9 DEF B!IInv, BP!IInv

\* the same released threads
LEMMA SameFreed == B!releasedBar = BP!releasedBar /\ B!releasedBar' = BP!releasedBar'
  BY DEF
      B!releasedBar, BP!releasedBar, B!Inside, BP!Inside, B!Opening, BP!Opening, B!Parking,
      BP!Parking, B!Waiting, BP!Waiting, B!Leaving, BP!Leaving

\* and the same steps.
LEMMA SameSteps ==
  ASSUME NEW t \in Threads
  PROVE  /\ B!Enter(t) <=> BP!Enter(t)
         /\ B!WaitStep(t) <=> BP!WaitStep(t)
         /\ B!SpuriousWakeup(t) <=> BP!SpuriousWakeup(t)
         /\ B!SetAborted(t) <=> BP!SetAborted(t)
         /\ B!AbortStep(t) <=> BP!AbortStep(t)
<1> USE DEF
      B!Goto, BP!Goto, B!NotifyAll, BP!NotifyAll, B!Acquire, BP!Acquire, B!Release, BP!Release,
      B!Truncate, BP!Truncate, B!Narrow, BP!Narrow, B!NextGeneration, BP!NextGeneration,
      B!Other, BP!Other
<1>1. B!Enter(t) <=> BP!Enter(t)
  BY DEF B!Enter, BP!Enter
<1>2. B!WaitStep(t) <=> BP!WaitStep(t)
  BY SameMax DEF
      B!WaitStep, BP!WaitStep, B!Decrement, BP!Decrement, B!SpinLeave, BP!SpinLeave,
      B!SpinGiveUp, BP!SpinGiveUp, B!LockPark, BP!LockPark, B!TestGeneration,
      BP!TestGeneration, B!TestAbort, BP!TestAbort, B!Sleep, BP!Sleep, B!Relock, BP!Relock,
      B!UnlockPark, BP!UnlockPark, B!Refill, BP!Refill, B!LockBump, BP!LockBump, B!Bump,
      BP!Bump, B!Swap, BP!Swap, B!Notify, BP!Notify, B!UnlockBump, BP!UnlockBump, B!CheckAbort,
      BP!CheckAbort, B!TellAbort, BP!TellAbort
<1>3. B!SpuriousWakeup(t) <=> BP!SpuriousWakeup(t)
  BY DEF B!SpuriousWakeup, BP!SpuriousWakeup
<1>4. B!SetAborted(t) <=> BP!SetAborted(t)
  BY DEF B!SetAborted, BP!SetAborted
<1>5. B!AbortStep(t) <=> BP!AbortStep(t)
  BY DEF B!AbortStep, BP!AbortStep, B!AbortNotify, BP!AbortNotify, B!AbortBump, BP!AbortBump
<1> QED
  BY <1>1, <1>2, <1>3, <1>4, <1>5

\* A barrier as constructed.
LEMMA BarrierStart == B!Init => B!IInv
<1>1. B!Init => BP!Init
  BY SameMax DEF B!Init, BP!Init
<1>2. BP!Init => BP!IInv
  BY BP!InitIInv, BarrierConstants, BarrierAssumption
<1> QED
  BY <1>1, <1>2, SameInv

\* A step of a thread in the barrier.
LEMMA BarrierStep ==
  ASSUME B!Narrow, B!IInv, NEW t \in Threads,
         \/ B!Enter(t) \/ B!WaitStep(t) \/ B!SpuriousWakeup(t) \/ B!SetAborted(t) \/ B!AbortStep(t)
  PROVE  B!IInv'
<1>1. BP!IInv /\ BP!Narrow
  BY SameInv DEF B!Narrow, BP!Narrow
<1>2. BP!Next
  BY SameSteps DEF BP!Next
<1>3. BP!IInv'
  BY <1>1, <1>2, BP!StepIInv, BarrierConstants, BarrierAssumption
<1>4. B!IInv' <=> BP!IInv'
  BY SameInv, PTL
<1> QED
  BY <1>3, <1>4

\* A step elsewhere.
LEMMA BarrierIdle ==
  ASSUME B!Narrow, B!IInv, UNCHANGED barrier
  PROVE  B!IInv' /\ Freed' = Freed
<1>1. BP!IInv /\ BP!Narrow
  BY SameInv DEF B!Narrow, BP!Narrow
<1>2. UNCHANGED BP!vars
  BY DEF BP!vars, barrier
<1>3. BP!IInv'
  BY <1>1, <1>2, BP!StepIInv, BarrierConstants, BarrierAssumption
<1>4. B!IInv' <=> BP!IInv'
  BY SameInv, PTL
<1>5. Freed' = Freed
  BY DEF barrier, Freed, B!releasedBar, B!Inside, B!Opening, B!Parking, B!Waiting, B!Leaving
<1> QED
  BY <1>3, <1>4, <1>5

\* A step in Wait, seen from outside.
LEMMA BarrierMoves ==
  ASSUME B!IInv, NEW t \in Threads, B!WaitStep(t)
  PROVE  /\ pc[t] \in InWaitPCs
         /\ pc'[t] \in InWaitPCs \cup {"out", "done"}
         /\ pc'[t] = "out" => ~aborted
         /\ pc'[t] = "done" => aborted
         /\ pc'[t] \in B!Opening => pc[t] \in B!Opening \cup {"bump"}
         /\ \A u \in Threads \ {t} : pc'[u] = pc[u] \/ (pc[u] = "asleep" /\ pc'[u] = "woken")
         /\ aborted' = aborted
<1>1. BP!TypeOK /\ BP!WaitStep(t)
  BY SameInv, SameSteps DEF BP!IInv
<1>2. /\ pc[t] \in {"dec"} \cup BP!Closing \cup BP!Opening \cup BP!Waiting \cup BP!Leaving
      /\ pc'[t] \in {"dec", "out", "done"} \cup BP!Closing \cup BP!Opening \cup BP!Waiting \cup BP!Leaving
      /\ pc'[t] = "out" => ~aborted
      /\ pc'[t] = "done" => pc[t] = "tellAbort"
      /\ pc'[t] \in BP!Opening => pc[t] \in BP!Opening \cup {"bump"}
      /\ \A u \in Threads \ {t} : pc'[u] = pc[u] \/ (pc[u] = "asleep" /\ pc'[u] = "woken")
      /\ aborted' = aborted
  BY <1>1, BP!WaitMoves, BarrierConstants, BarrierAssumption
<1>3. pc'[t] = "done" => aborted
  BY <1>2 DEF B!IInv, B!SnapshotInv
<1> QED
  BY <1>2, <1>3 DEF InWaitPCs, B!Closing, B!Opening, B!Parking, B!Waiting, B!Leaving,
     BP!Closing, BP!Opening, BP!Parking, BP!Waiting, BP!Leaving

\* Whom it lets go.
LEMMA BarrierFrees ==
  ASSUME B!IInv, ~aborted, NEW t \in Threads, B!WaitStep(t)
  PROVE  /\ pc'[t] # "done"
         /\ \/ pc'[t] = "out" /\ t \in Freed /\ Freed' = Freed \ {t}
            \/ pc'[t] # "out" /\ Freed' = Freed
            \/ /\ pc'[t] # "out" /\ Freed = {} /\ Freed' = Threads
               /\ \A u \in Threads : pc[u] \in InWaitPCs
<1>1. BP!IInv /\ BP!WaitStep(t)
  BY SameInv, SameSteps
<1>2. /\ pc'[t] # "done"
      /\ \/ /\ pc'[t] = "out" /\ t \in BP!releasedBar
            /\ BP!releasedBar' = BP!releasedBar \ {t}
         \/ pc'[t] # "out" /\ BP!releasedBar' = BP!releasedBar
         \/ /\ pc'[t] # "out" /\ BP!releasedBar = {} /\ BP!releasedBar' = Threads
            /\ \A u \in Threads : pc[u] \in BP!Waiting \cup BP!Closing
  BY <1>1, BP!ReleasedStep, BarrierConstants, BarrierAssumption
<1>3. BP!releasedBar = Freed /\ BP!releasedBar' = Freed'
  BY SameFreed DEF Freed
<1> QED
  BY <1>2, <1>3 DEF InWaitPCs, B!Closing, B!Parking, B!Waiting, BP!Closing, BP!Parking,
       BP!Waiting

\* Neither an arrival, a spurious wakeup nor the abort changes whom it has let go.
LEMMA BarrierKeeps ==
  ASSUME B!IInv, NEW t \in Threads,
         B!Enter(t) \/ B!SpuriousWakeup(t) \/ B!SetAborted(t)
  PROVE  Freed' = Freed
<1>1. BP!TypeOK /\ (BP!Enter(t) \/ BP!SpuriousWakeup(t) \/ BP!SetAborted(t))
  BY SameInv, SameSteps DEF BP!IInv
<1>2. BP!releasedBar' = BP!releasedBar
  BY <1>1, BP!ReleasedKept, BarrierConstants, BarrierAssumption
<1> QED
  BY <1>2, SameFreed DEF Freed

\* Threads that have been let go are in Wait.
LEMMA FreedWait == \A t \in Threads : t \in Freed => pc[t] \in InWaitPCs
  BY DEF Freed, InWaitPCs, B!releasedBar, B!Inside, B!Closing, B!Opening, B!Parking, B!Waiting,
       B!Leaving

\* (They are threads.)
LEMMA FreedThreads == Freed \subseteq Threads
  BY DEF Freed, B!releasedBar

(***************************************************************************)
(* The steps.                                                              *)
(***************************************************************************)
\* Slices are not empty, lie in the buffer, and the first one starts with it.
LEMMA SliceFacts ==
  /\ \A t \in Threads : /\ MyStart(t) \in Nat /\ MyEnd(t) \in Nat
                        /\ MyStart(t) < MyEnd(t) /\ MyEnd(t) <= BufferSize
  /\ MyStart(0) = 0
<1>1. PICK q \in Nat : /\ q > 0
                       /\ BufferSize = q * Size
                       /\ \A t \in Threads : MyStart(t) = t * q /\ MyEnd(t) = t * q + q
  BY SliceBounds
<1>2. ASSUME NEW t \in Threads
      PROVE  /\ MyStart(t) \in Nat /\ MyEnd(t) \in Nat
             /\ MyStart(t) < MyEnd(t) /\ MyEnd(t) <= BufferSize
  <2>1. t \in Nat /\ t + 1 <= Size /\ Size \in Nat
    BY ProcessorAssumption DEF Threads
  <2>2. (t + 1) * q <= Size * q
    BY <2>1
  <2> QED
    BY <1>1, <2>1, <2>2
<1> QED
  BY <1>1, <1>2, SizeFacts

\* Slices are made of slots.
LEMMA SliceSlots == \A t \in Threads : Slice(t) \subseteq Slots
  BY SlicesCover

\* A caller who meets the workers is in a call for a large block.
LEMMA BusyFacts ==
  PlaceInv /\ StopInv /\ DataInv /\ TypesInv /\ CallerBusy =>
    /\ ~aborted
    /\ Large
    /\ ~SmallCall
    /\ ppc[0] \in {"inWait", "ownSlice", "await", "clip", "convert"}
  BY FreedWait, SizeFacts DEF PlaceInv, StopInv, DataInv, CallerBusy, SmallCall

\* A worker past the test of mStop works on the task of the call in progress.
LEMMA WorkerFacts ==
  ASSUME ProcessorInv, NEW t \in Workers, ppc[t] \in Working, ~aborted
  PROVE  /\ CallerBusy /\ Large /\ ~SmallCall
         /\ t \in Threads /\ t # 0 /\ t \notin Freed /\ t \in Pending
         /\ ppc[0] \in {"inWait", "ownSlice", "await", "clip", "convert"}
         /\ request.task \in AllTasks
         /\ mTask = request.task
         /\ mSourceSize = request.size
         /\ Cursor(request.task) = 1
<1>1. CallerBusy
  BY DEF ProcessorInv, QuietInv, Working, CalmPCs
<1>2. Large /\ ~SmallCall /\ ppc[0] \in {"inWait", "ownSlice", "await", "clip", "convert"}
  BY <1>1, BusyFacts DEF ProcessorInv
<1>3. t \in Threads /\ t # 0
  BY SizeFacts
<1>4. t \notin Freed /\ t \in Pending
  BY <1>3, FreedWait DEF ProcessorInv, PlaceInv, Pending, Working
<1> QED
  BY <1>1, <1>2, <1>3, <1>4 DEF ProcessorInv, DataInv

\* Between the calls, and in one until the barrier opens, no slot is converted.
Resting == ~CallerBusy /\ ppc[0] \notin {"clip", "convert", "return"}

Blank == \A s \in Slots : result[s] = Untouched

\* Then nothing of any slice is converted,
LEMMA RestingFrontier ==
  StopInv /\ QuietInv /\ TypesInv /\ Resting =>
    ~SmallCall /\ \A t \in Threads : Frontier(t) = MyStart(t)
<1> SUFFICES ASSUME StopInv, QuietInv, TypesInv, Resting
             PROVE  ~SmallCall /\ \A t \in Threads : Frontier(t) = MyStart(t)
  OBVIOUS
<1>1. \A t \in Workers : ppc[t] \in CalmPCs \cup {"testStop", "ended"}
  BY DEF StopInv, QuietInv, Resting
<1>2. \A t \in Threads : t = 0 \/ t \in Workers
  BY DEF Workers
<1>3. ppc[0] \notin {"clip", "convert", "return", "await", "count"} /\ ~CallerBusy
  BY DEF Resting, CallerBusy, TypesInv, CallerPCs
<1> QED
  BY <1>1, <1>2, <1>3 DEF SmallCall, Frontier, CalmPCs

\* so that the buffer is as it was handed over.
LEMMA RestingBlank == StopInv /\ QuietInv /\ TypesInv /\ Resting => (ResultInv <=> Blank)
<1> SUFFICES ASSUME StopInv, QuietInv, TypesInv, Resting PROVE ResultInv <=> Blank
  OBVIOUS
<1>1. ~SmallCall /\ \A t \in Threads : Frontier(t) = MyStart(t)
  BY RestingFrontier
<1>2. \A t \in Threads : \A s \in Slice(t) : ~(s < Frontier(t))
  BY <1>1, SliceFacts DEF Slice
<1>3. ResultInv <=> \A t \in Threads : \A s \in Slice(t) : result[s] = Untouched
  BY <1>1, <1>2 DEF ResultInv
<1> QED
  BY <1>3, SlicesCover, SliceSlots DEF Blank

\* A step that converts nothing.
LEMMA ResultSame ==
  ASSUME ResultInv, result' = result, request' = request, SmallCall' <=> SmallCall,
         SmallCall => \A s \in Slots : s < SmallFrontier' <=> s < SmallFrontier,
         ~SmallCall => \A t \in Threads : \A s \in Slice(t) :
           s < Frontier(t)' /\ s < request.size <=> s < Frontier(t) /\ s < request.size
  PROVE  ResultInv'
<1>1. Converted' = Converted
  BY DEF Converted
<1>2. CASE SmallCall
  BY <1>1, <1>2 DEF ResultInv
<1>3. CASE ~SmallCall
  BY <1>1, <1>3 DEF ResultInv, Slice, MyStart, MyEnd
<1> QED
  BY <1>2, <1>3

\* A step that moves no frontier.
LEMMA ResultKept ==
  ASSUME ResultInv, result' = result, request' = request, SmallCall' <=> SmallCall,
         SmallCall => SmallFrontier' = SmallFrontier,
         ~SmallCall => \A t \in Threads : Frontier(t)' = Frontier(t)
  PROVE  ResultInv'
  BY ResultSame

\* What a kernel may count on, whoever runs it.
LEMMA KernelFacts ==
  ASSUME ProcessorInv, NEW t \in Threads, ppc[t] \in {"clip", "convert"}
  PROVE  /\ ~aborted
         /\ t # 0 => t \in Workers /\ CallerBusy /\ t \in Pending
         /\ t # 0 \/ Large => CallerBusy /\ Large /\ ~SmallCall
         /\ ~(t # 0 \/ Large) => ~CallerBusy /\ SmallCall
         /\ ppc[0] \in {"inWait", "ownSlice", "await", "clip", "convert"}
         /\ request.task \in AllTasks
         /\ mSourceSize = request.size
         /\ Cursor(request.task) = 1
<1>1. CASE t = 0
  <2>1. ~aborted
    BY <1>1 DEF ProcessorInv, StopInv
  <2>2. 0 \notin Freed
    BY <1>1, FreedWait DEF ProcessorInv, PlaceInv
  <2>3. Large <=> CallerBusy
    BY <1>1, <2>2 DEF CallerBusy
  <2>4. SmallCall <=> ~Large
    BY <1>1 DEF SmallCall
  <2> QED
    BY <1>1, <2>1, <2>3, <2>4 DEF ProcessorInv, DataInv
<1>2. CASE t # 0
  <2>1. t \in Workers
    BY <1>2 DEF Workers
  <2>2. ~aborted
    BY <2>1 DEF ProcessorInv, StopInv, CalmPCs
  <2> QED
    BY <1>2, <2>1, <2>2, WorkerFacts DEF Working
<1> QED
  BY <1>1, <1>2

\* The constructor starts a worker: nothing has begun yet.
LEMMA SpawnWorkerStep ==
  ASSUME B!Narrow, ProcessorInv, NEW t \in Threads, SpawnWorker(t)
  PROVE  ProcessorInv'
<1> USE DEF ProcessorInv
<1>1. B!IInv' /\ Freed' = Freed
  BY BarrierIdle DEF SpawnWorker
<1>2. TypesInv'
  BY SizeFacts, SliceFacts, ProcessorAssumption DEF SpawnWorker, shared, TypesInv, CallerPCs,
       WorkerPCs, ProcessorPCs
<1>3. PlaceInv'
  BY SizeFacts DEF SpawnWorker, PlaceInv, TypesInv, barrier
<1>4. StopInv'
  BY SizeFacts DEF SpawnWorker, StopInv, barrier
<1>5. QuietInv'
  BY <1>1, SizeFacts, FreedWait DEF SpawnWorker, QuietInv, CallerBusy, TypesInv, barrier,
       CalmPCs
<1>6. BusyInv'
  BY <1>1, SizeFacts, FreedWait DEF SpawnWorker, BusyInv, CallerBusy, TypesInv, barrier, Working
<1>7. CounterInv'
  BY <1>1, SizeFacts, FreedWait, ProcessorAssumption DEF SpawnWorker, CounterInv, TypesInv
<1>8. DataInv'
  BY <1>1, SizeFacts, FreedWait DEF SpawnWorker, DataInv, CallerBusy, PlaceInv, TypesInv
<1>9. KernelInv'
  BY <1>1, SizeFacts, SliceFacts DEF SpawnWorker, KernelInv, TypesInv
<1>10. ResultInv'
  <2>1. Resting /\ Resting'
    BY <1>1, <1>3, SizeFacts, FreedWait DEF SpawnWorker, Resting, CallerBusy, PlaceInv, TypesInv
  <2>2. Blank
    BY <2>1, RestingBlank
  <2>3. Blank'
    BY <2>2 DEF Blank, SpawnWorker
  <2>4. StopInv' /\ QuietInv' /\ TypesInv' /\ Resting' => (ResultInv' <=> Blank')
    BY RestingBlank, PTL
  <2> QED
    BY <1>2, <1>4, <1>5, <2>1, <2>3, <2>4
<1> QED
  BY <1>1, <1>2, <1>3, <1>4, <1>5, <1>6, <1>7, <1>8, <1>9, <1>10

\* The caller resets the counter while no worker is counted.
LEMMA ResetCounterStep ==
  ASSUME B!Narrow, ProcessorInv, ResetCounter
  PROVE  ProcessorInv'
<1> USE DEF ProcessorInv
<1>1. B!IInv' /\ Freed' = Freed
  BY BarrierIdle DEF ResetCounter
<1>2. TypesInv'
  BY SizeFacts, SliceFacts, ProcessorAssumption DEF ResetCounter, Goto, shared, TypesInv,
       CallerPCs, ProcessorPCs
<1>3. PlaceInv'
  BY SizeFacts DEF ResetCounter, Goto, PlaceInv, barrier
<1>4. StopInv'
  BY SizeFacts DEF ResetCounter, StopInv, barrier
<1>5. QuietInv'
  BY <1>1, SizeFacts, FreedWait DEF ResetCounter, Goto, QuietInv, CallerBusy, barrier
<1>6. BusyInv'
  BY <1>1, SizeFacts, FreedWait DEF ResetCounter, Goto, BusyInv, CallerBusy, PlaceInv
<1>7. CounterInv'
  BY <1>1, SizeFacts, FreedWait, ProcessorAssumption DEF ResetCounter, CounterInv
<1>8. DataInv'
  BY <1>1, SizeFacts, FreedWait DEF ResetCounter, Goto, shared, DataInv, CallerBusy, Large,
       Cursor
<1>9. KernelInv'
  BY <1>1, SizeFacts, SliceFacts DEF ResetCounter, Goto, KernelInv
<1>10. ResultInv'
  <2>1. Resting /\ Resting'
    BY <1>1, <1>3, SizeFacts, FreedWait DEF ResetCounter, Goto, Resting, CallerBusy, PlaceInv
  <2>2. Blank
    BY <2>1, RestingBlank
  <2>3. Blank'
    BY <2>2 DEF Blank, ResetCounter
  <2>4. StopInv' /\ QuietInv' /\ TypesInv' /\ Resting' => (ResultInv' <=> Blank')
    BY RestingBlank, PTL
  <2> QED
    BY <1>2, <1>4, <1>5, <2>1, <2>3, <2>4
<1> QED
  BY <1>1, <1>2, <1>3, <1>4, <1>5, <1>6, <1>7, <1>8, <1>9, <1>10

\* The caller publishes its task, the workers being away.
LEMMA SetTaskStep ==
  ASSUME B!Narrow, ProcessorInv, SetTask
  PROVE  ProcessorInv'
<1> USE DEF ProcessorInv
<1>1. B!IInv' /\ Freed' = Freed
  BY BarrierIdle DEF SetTask
<1>2. TypesInv'
  BY SizeFacts, SliceFacts, ProcessorAssumption DEF SetTask, Goto, TypesInv, CallerPCs,
       ProcessorPCs
<1>3. PlaceInv'
  BY SizeFacts DEF SetTask, Goto, PlaceInv, barrier
<1>4. StopInv'
  BY SizeFacts DEF SetTask, StopInv, barrier
<1>5. QuietInv'
  BY <1>1, SizeFacts, FreedWait DEF SetTask, Goto, QuietInv, CallerBusy, barrier
<1>6. BusyInv'
  BY <1>1, SizeFacts, FreedWait DEF SetTask, Goto, BusyInv, CallerBusy, PlaceInv
<1>7. CounterInv'
  BY <1>1, SizeFacts, FreedWait, ProcessorAssumption DEF SetTask, CounterInv, CallerBusy,
       barrier
<1>8. DataInv'
  BY <1>1, SizeFacts, FreedWait DEF SetTask, DataInv, Large, Cursor
<1>9. KernelInv'
  BY <1>1, SizeFacts, SliceFacts DEF SetTask, Goto, KernelInv
<1>10. ResultInv'
  <2>1. Resting /\ Resting'
    BY <1>1, <1>3, SizeFacts, FreedWait DEF SetTask, Goto, Resting, CallerBusy, PlaceInv
  <2>2. Blank
    BY <2>1, RestingBlank
  <2>3. Blank'
    BY <2>2 DEF Blank, SetTask
  <2>4. StopInv' /\ QuietInv' /\ TypesInv' /\ Resting' => (ResultInv' <=> Blank')
    BY RestingBlank, PTL
  <2> QED
    BY <1>2, <1>4, <1>5, <2>1, <2>3, <2>4
<1> QED
  BY <1>1, <1>2, <1>3, <1>4, <1>5, <1>6, <1>7, <1>8, <1>9, <1>10

\* The caller, let go, takes its own slice.
LEMMA OwnSliceStep ==
  ASSUME B!Narrow, ProcessorInv, OwnSlice
  PROVE  ProcessorInv'
<1> USE DEF ProcessorInv
<1>1. B!IInv' /\ Freed' = Freed
  BY BarrierIdle DEF OwnSlice
<1>2. TypesInv'
  BY SizeFacts, SliceFacts, ProcessorAssumption DEF OwnSlice, Goto, shared, TypesInv, CallerPCs,
       ProcessorPCs
<1>3. PlaceInv'
  BY SizeFacts DEF OwnSlice, Goto, PlaceInv, barrier
<1>4. StopInv'
  BY SizeFacts DEF OwnSlice, StopInv, barrier
<1>5. QuietInv'
  BY <1>1, SizeFacts, FreedWait DEF OwnSlice, Goto, QuietInv, CallerBusy, Large, DataInv
<1>6. BusyInv'
  BY <1>1, SizeFacts, FreedWait DEF OwnSlice, Goto, BusyInv, CallerBusy, Pending, barrier
<1>7. CounterInv'
  BY <1>1, SizeFacts, FreedWait, ProcessorAssumption DEF OwnSlice, Goto, CounterInv
<1>8. DataInv'
  BY <1>1, SizeFacts, FreedWait DEF OwnSlice, shared, DataInv, CallerBusy, Large, Cursor
<1>9. KernelInv'
  BY <1>1, SizeFacts, SliceFacts DEF OwnSlice, Goto, KernelInv, DataInv, Large, TypesInv
<1>10. ResultInv'
  <2>1. CallerBusy /\ Large /\ CallerBusy' /\ Pending' = Pending
    BY <1>1, SizeFacts DEF OwnSlice, Goto, CallerBusy, Large, DataInv, Pending
  <2>2. ~SmallCall /\ ~SmallCall'
    BY <2>1 DEF SmallCall, OwnSlice, Large
  <2>3. ASSUME NEW t \in Threads PROVE Frontier(t)' = Frontier(t)
    BY <2>1, SizeFacts DEF OwnSlice, Goto, TypesInv, Frontier
  <2> QED
    BY <2>2, <2>3, ResultKept DEF OwnSlice
<1> QED
  BY <1>1, <1>2, <1>3, <1>4, <1>5, <1>6, <1>7, <1>8, <1>9, <1>10

\* Once the counter says so nobody is pending: the workers are back at the barrier and
\* every slice is done.
LEMMA WaitTaskCompleteStep ==
  ASSUME B!Narrow, ProcessorInv, WaitTaskComplete
  PROVE  ProcessorInv'
<1> USE DEF ProcessorInv
<1>0. /\ Pending = {} /\ CallerBusy /\ ~aborted /\ Large
      /\ Freed = {}
      /\ \A t \in Workers : ppc[t] \in {"callWait", "inWait"}
  <2>1. CallerBusy /\ ~aborted /\ Large
    BY BusyFacts DEF WaitTaskComplete, CallerBusy
  <2>2. Pending \in SUBSET Workers
    BY DEF Pending
  <2>3. IsFiniteSet(Pending) /\ Cardinality(Pending) \in Nat
    BY <2>2, SizeFacts, FS_Subset, FS_CardinalityType
  <2>4. Cardinality(Pending) = 0
    <3>1. mCounter + Cardinality(Pending) = Size - 1 /\ mCounter >= Size - 1 /\ mCounter \in Nat
      BY <2>1 DEF WaitTaskComplete, BusyInv, TypesInv
    <3> QED
      BY <2>3, <3>1, ProcessorAssumption
  <2>5. Pending = {}
    BY <2>3, <2>4, FS_EmptySet
  <2>6. 0 \notin Freed
    BY FreedWait, SizeFacts DEF WaitTaskComplete, PlaceInv
  <2> QED
    BY <2>1, <2>5, <2>6, FreedThreads DEF Pending, BusyInv, Workers
<1>1. B!IInv' /\ Freed' = Freed
  BY BarrierIdle DEF WaitTaskComplete
<1>2. TypesInv'
  BY SizeFacts, SliceFacts, ProcessorAssumption DEF WaitTaskComplete, Goto, shared, TypesInv,
       CallerPCs, ProcessorPCs
<1>3. PlaceInv'
  BY SizeFacts DEF WaitTaskComplete, Goto, PlaceInv, barrier
<1>4. StopInv'
  BY SizeFacts DEF WaitTaskComplete, StopInv, barrier
<1>5. QuietInv'
  BY <1>0, <1>1 DEF WaitTaskComplete, Goto, QuietInv, CalmPCs
<1>6. BusyInv'
  BY <1>1, SizeFacts, FreedWait DEF WaitTaskComplete, Goto, BusyInv, CallerBusy, PlaceInv,
       TypesInv
<1>7. CounterInv'
  BY <1>1, SizeFacts, FreedWait, ProcessorAssumption DEF WaitTaskComplete, Goto, CounterInv
<1>8. DataInv'
  BY <1>1, SizeFacts, FreedWait DEF WaitTaskComplete, shared, DataInv, CallerBusy, Large, Cursor
<1>9. KernelInv'
  BY <1>1, SizeFacts, SliceFacts DEF WaitTaskComplete, Goto, KernelInv
<1>10. ResultInv'
  <2>1. (SmallCall' <=> SmallCall) /\ ~SmallCall
    BY <1>0 DEF WaitTaskComplete, Goto, SmallCall, Large
  <2>2. ASSUME NEW t \in Threads PROVE Frontier(t)' = Frontier(t)
    <3>1. /\ ppc[t] \notin {"convert", "count"} /\ ppc'[t] \notin {"convert", "count"}
          /\ ppc[0] = "await" /\ ppc'[0] = "return"
      BY <1>0, SizeFacts DEF WaitTaskComplete, Goto, TypesInv, Workers
    <3>2. Frontier(t) = MyEnd(t)
      BY <1>0, <3>1 DEF Frontier
    <3>3. Frontier(t)' = MyEnd(t)
      BY <3>1 DEF Frontier
    <3> QED
      BY <3>2, <3>3
  <2> QED
    BY <2>1, <2>2, ResultKept DEF WaitTaskComplete
<1> QED
  BY <1>1, <1>2, <1>3, <1>4, <1>5, <1>6, <1>7, <1>8, <1>9, <1>10

\* The block is the caller's again.
LEMMA ReturnStep ==
  ASSUME B!Narrow, ProcessorInv, Return
  PROVE  ProcessorInv'
<1> USE DEF ProcessorInv
<1>1. B!IInv' /\ Freed' = Freed
  BY BarrierIdle DEF Return
<1>2. TypesInv'
  BY SizeFacts, SliceFacts, ProcessorAssumption DEF Return, Goto, TypesInv, Untouched, NoKernel,
       NoRequest, CallerPCs, ProcessorPCs
<1>3. PlaceInv'
  BY SizeFacts DEF Return, Goto, PlaceInv, barrier
<1>4. StopInv'
  BY SizeFacts DEF Return, StopInv, barrier
<1>5. QuietInv'
  BY <1>1, SizeFacts, FreedWait DEF Return, Goto, QuietInv, CallerBusy, barrier
<1>6. BusyInv'
  BY <1>1, SizeFacts, FreedWait DEF Return, Goto, BusyInv, CallerBusy, PlaceInv
<1>7. CounterInv'
  BY <1>1, SizeFacts, FreedWait, ProcessorAssumption DEF Return, Goto, CounterInv
<1>8. DataInv'
  BY <1>1, SizeFacts, FreedWait DEF Return, Goto, DataInv, CallerBusy, PlaceInv, TypesInv
<1>9. KernelInv'
  <2>1. ~aborted /\ ~CallerBusy
    BY SizeFacts, FreedWait DEF Return, StopInv, CallerBusy, PlaceInv
  <2>2. \A t \in Threads : ppc'[t] \notin {"clip", "convert"}
    BY <2>1 DEF Return, Goto, QuietInv, CalmPCs, Workers
  <2> QED
    BY <2>2, SizeFacts DEF KernelInv
<1>10. ResultInv'
  <2>1. Resting'
    BY <1>1, <1>3, SizeFacts, FreedWait DEF Return, Goto, Resting, CallerBusy, PlaceInv,
         TypesInv
  <2>2. Blank'
    BY DEF Blank, Return
  <2>3. StopInv' /\ QuietInv' /\ TypesInv' /\ Resting' => (ResultInv' <=> Blank')
    BY RestingBlank, PTL
  <2> QED
    BY <1>2, <1>4, <1>5, <2>1, <2>2, <2>3
<1> QED
  BY <1>1, <1>2, <1>3, <1>4, <1>5, <1>6, <1>7, <1>8, <1>9, <1>10

\* The instance is gone, its workers have ended.
LEMMA JoinAndDeleteStep ==
  ASSUME B!Narrow, ProcessorInv, JoinAndDelete
  PROVE  ProcessorInv'
<1> USE DEF ProcessorInv
<1>1. B!IInv' /\ Freed' = Freed
  BY BarrierIdle DEF JoinAndDelete
<1>2. TypesInv'
  BY SizeFacts, SliceFacts, ProcessorAssumption DEF JoinAndDelete, Goto, shared, TypesInv,
       CallerPCs, ProcessorPCs
<1>3. PlaceInv'
  BY SizeFacts DEF JoinAndDelete, Goto, PlaceInv, barrier
<1>4. StopInv'
  BY SizeFacts DEF JoinAndDelete, Goto, StopInv, barrier
<1>5. QuietInv'
  BY <1>1, SizeFacts, FreedWait DEF JoinAndDelete, QuietInv, CallerBusy, barrier, CalmPCs
<1>6. BusyInv'
  BY <1>1, SizeFacts, FreedWait DEF JoinAndDelete, Goto, BusyInv, CallerBusy, PlaceInv
<1>7. CounterInv'
  BY <1>1, SizeFacts, FreedWait, ProcessorAssumption DEF JoinAndDelete, Goto, CounterInv
<1>8. DataInv'
  BY <1>1, SizeFacts, FreedWait DEF JoinAndDelete, Goto, DataInv, CallerBusy, PlaceInv
<1>9. KernelInv'
  BY <1>1, SizeFacts, SliceFacts DEF JoinAndDelete, Goto, KernelInv
<1>10. ResultInv'
  <2>1. Resting /\ Resting'
    BY <1>1, <1>3, SizeFacts, FreedWait DEF JoinAndDelete, Goto, Resting, CallerBusy, PlaceInv
  <2>2. Blank
    BY <2>1, RestingBlank
  <2>3. Blank'
    BY <2>2 DEF Blank, JoinAndDelete
  <2>4. StopInv' /\ QuietInv' /\ TypesInv' /\ Resting' => (ResultInv' <=> Blank')
    BY RestingBlank, PTL
  <2> QED
    BY <1>2, <1>4, <1>5, <2>1, <2>3, <2>4
<1> QED
  BY <1>1, <1>2, <1>3, <1>4, <1>5, <1>6, <1>7, <1>8, <1>9, <1>10

\* A call starts between two others, when no slot is converted and no worker is about.
LEMMA CallStep ==
  ASSUME B!Narrow, ProcessorInv, NEW task \in Tasks, NEW size \in BlockSizes, Call(task, size)
  PROVE  ProcessorInv'
<1> USE DEF ProcessorInv
<1>0. /\ task \in AllTasks /\ size \in 0 .. BufferSize
      /\ request'.size = size /\ request'.task = task
      /\ ~aborted /\ ~CallerBusy /\ ~CallerBusy' /\ pc' = pc
      /\ \A t \in Workers : ppc'[t] = ppc[t] /\ ppc[t] \in CalmPCs
      /\ ppc'[0] = IF size < Threshold THEN "clip" ELSE "resetCounter"
      /\ Large' <=> ~(size < Threshold)
  <2>1. task \in AllTasks /\ size \in 0 .. BufferSize /\ request'.size = size /\ request'.task = task
    BY ProcessorAssumption DEF Call
  <2>2. ~aborted /\ ~CallerBusy /\ pc' = pc
    BY FreedWait, SizeFacts DEF Call, StopInv, CallerBusy, PlaceInv, barrier
  <2>3. \A t \in Workers : ppc'[t] = ppc[t] /\ ppc[t] \in CalmPCs
    BY <2>2 DEF Call, Goto, TypesInv, QuietInv, Workers
  <2>4. ppc'[0] = IF size < Threshold THEN "clip" ELSE "resetCounter"
    BY SizeFacts DEF Call, Goto, TypesInv
  <2>5. Large' <=> ~(size < Threshold)
    BY <2>1, ProcessorAssumption DEF Large
  <2>6. ~CallerBusy'
    <3>1. Freed' = Freed
      BY BarrierIdle DEF Call
    <3> QED
      BY <2>2, <2>4, <2>5, <3>1 DEF CallerBusy
  <2> QED
    BY <2>1, <2>2, <2>3, <2>4, <2>5, <2>6
<1>1. B!IInv' /\ Freed' = Freed
  BY BarrierIdle DEF Call
<1>2. TypesInv'
  <2>1. kernel' \in [Threads ->
                       [task : AllTasks \cup {"garbage"}, j : 0 .. BufferSize, end : 0 .. BufferSize]]
    BY <1>0, SizeFacts, ProcessorAssumption DEF Call, TypesInv
  <2>2. request' \in [task : AllTasks \cup {"garbage"}, size : 0 .. BufferSize]
    BY <1>0 DEF Call
  <2>3. ppc' \in [Threads -> ProcessorPCs]
    BY SizeFacts DEF Call, Goto, TypesInv, ProcessorPCs
  <2> QED
    BY <1>0, <2>1, <2>2, <2>3, SizeFacts DEF Call, TypesInv, CallerPCs
<1>3. PlaceInv'
  BY SizeFacts DEF Call, Goto, PlaceInv, TypesInv, barrier
<1>4. StopInv'
  BY SizeFacts DEF Call, StopInv, barrier
<1>5. QuietInv'
  BY <1>0, <1>1 DEF QuietInv
<1>6. BusyInv'
  BY <1>0 DEF BusyInv
<1>7. CounterInv'
  BY <1>0 DEF Call, CounterInv
<1>8. DataInv'
  <2>1. mSourceSize' = request'.size /\ request'.task \in AllTasks
    BY <1>0 DEF Call
  <2>2. Cursor(request.task)' = 1
    BY <1>0 DEF Call, Cursor
  <2> QED
    BY <1>0, <2>1, <2>2 DEF DataInv
<1>9. KernelInv'
  <2>1. \A t \in Threads : t # 0 => ppc'[t] \notin {"clip", "convert"}
    BY <1>0 DEF Workers, CalmPCs
  <2>2. ~Large' => kernel'[0] = [task |-> task, j |-> 0, end |-> size]
    BY <1>0, SizeFacts DEF Call, TypesInv
  <2> QED
    BY <1>0, <2>1, <2>2, SizeFacts DEF KernelInv
<1>10. ResultInv'
  <2>1. Resting
    BY <1>0 DEF Resting, Call
  <2>2. Blank
    BY <2>1, RestingBlank
  <2>3. Blank'
    BY <2>2 DEF Blank, Call
  <2>4. CASE size < Threshold
    <3>1. SmallCall' /\ SmallFrontier' = 0
      BY <1>0, <2>4 DEF SmallCall, SmallFrontier
    <3> QED
      BY <2>3, <3>1 DEF ResultInv, Blank, Slots
  <2>5. CASE ~(size < Threshold)
    <3>1. Resting'
      BY <1>0, <2>5 DEF Resting
    <3>2. StopInv' /\ QuietInv' /\ TypesInv' /\ Resting' => (ResultInv' <=> Blank')
      BY RestingBlank, PTL
    <3> QED
      BY <1>2, <1>4, <1>5, <2>3, <3>1, <3>2
  <2> QED
    BY <2>4, <2>5
<1> QED
  BY <1>1, <1>2, <1>3, <1>4, <1>5, <1>6, <1>7, <1>8, <1>9, <1>10

\* A worker that was let go finds mStop clear, one that was aborted finds it set.
LEMMA TestStopStep ==
  ASSUME B!Narrow, ProcessorInv, NEW t \in Workers, TestStop(t)
  PROVE  ProcessorInv'
<1> USE DEF ProcessorInv
<1>1. B!IInv' /\ Freed' = Freed
  BY BarrierIdle DEF TestStop
<1>2. TypesInv'
  BY SizeFacts, SliceFacts, ProcessorAssumption DEF TestStop, Goto, shared, TypesInv, WorkerPCs,
       ProcessorPCs
<1>3. PlaceInv'
  BY SizeFacts DEF TestStop, Goto, PlaceInv, barrier
<1>4. StopInv'
  BY SizeFacts DEF TestStop, Goto, StopInv, barrier
<1>5. QuietInv'
  BY <1>1, SizeFacts, FreedWait DEF TestStop, Goto, QuietInv, CallerBusy, Large, barrier,
       CalmPCs
<1>6. BusyInv'
  BY <1>1, SizeFacts, FreedWait DEF TestStop, Goto, BusyInv, Pending, QuietInv, barrier,
       Working, CalmPCs
<1>7. CounterInv'
  BY <1>1, SizeFacts, FreedWait, ProcessorAssumption DEF TestStop, Goto, CounterInv, CallerBusy,
       barrier
<1>8. DataInv'
  BY <1>1, SizeFacts, FreedWait DEF TestStop, Goto, shared, DataInv, CallerBusy, Large, Cursor
<1>9. KernelInv'
  BY <1>1, SizeFacts, SliceFacts DEF TestStop, Goto, KernelInv, Large
<1>10. ResultInv'
  <2>1. CallerBusy' = CallerBusy /\ (SmallCall' <=> SmallCall) /\ ppc'[0] = ppc[0]
    BY <1>1, SizeFacts DEF TestStop, Goto, CallerBusy, SmallCall, Large
  <2>2. aborted => ~CallerBusy
    BY BusyFacts
  <2>3. ~aborted => Pending' = Pending
    BY <1>1 DEF TestStop, Goto, Pending, Working
  <2>4. ASSUME NEW u \in Threads PROVE Frontier(u)' = Frontier(u)
    <3>1. /\ (ppc'[u] = "convert" <=> ppc[u] = "convert")
          /\ (ppc'[u] = "count" <=> ppc[u] = "count")
          /\ kernel' = kernel
      BY DEF TestStop, Goto, TypesInv, Workers
    <3> QED
      BY <2>1, <2>2, <2>3, <3>1 DEF Frontier
  <2>5. SmallFrontier' = SmallFrontier
    BY <2>1 DEF TestStop, SmallFrontier
  <2> QED
    BY <2>1, <2>4, <2>5, ResultKept DEF TestStop
<1> QED
  BY <1>1, <1>2, <1>3, <1>4, <1>5, <1>6, <1>7, <1>8, <1>9, <1>10

\* A worker reads the task that the caller has asked for.
LEMMA SwitchTaskStep ==
  ASSUME B!Narrow, ProcessorInv, NEW t \in Workers, SwitchTask(t)
  PROVE  ProcessorInv'
<1> USE DEF ProcessorInv
<1>0. /\ ~aborted /\ CallerBusy /\ Large /\ ~SmallCall
      /\ t \in Threads /\ t # 0 /\ t \notin Freed /\ t \in Pending
      /\ ppc[0] \in {"inWait", "ownSlice", "await", "clip", "convert"}
      /\ request.task \in AllTasks /\ mTask = request.task
      /\ mSourceSize = request.size /\ Cursor(request.task) = 1
  <2>1. ~aborted
    BY DEF SwitchTask, StopInv, CalmPCs
  <2> QED
    BY <2>1, WorkerFacts DEF SwitchTask, Working
<1>01. /\ kernel' = [kernel EXCEPT ![t] = [task |-> request.task, j |-> MyStart(t), end |-> MyEnd(t)]]
       /\ ppc' = [ppc EXCEPT ![t] = "clip"]
       /\ UNCHANGED <<barrier, created, mCounter, shared, result, request>>
  BY <1>0 DEF SwitchTask, Goto
<1>1. B!IInv' /\ Freed' = Freed
  BY BarrierIdle DEF SwitchTask
<1>11. CallerBusy' /\ ~SmallCall' /\ ppc'[0] = ppc[0] /\ request' = request
  <2>1. ppc'[0] = ppc[0] /\ request' = request
    BY <1>0, <1>01 DEF SwitchTask, Goto, TypesInv
  <2> QED
    BY <1>0, <1>1, <2>1 DEF CallerBusy, SmallCall, Large
<1>12. Pending' = Pending
  BY <1>0, <1>1 DEF SwitchTask, Goto, TypesInv, Pending, Working, Workers
<1>2. TypesInv'
  <2>1. kernel' \in [Threads ->
                       [task : AllTasks \cup {"garbage"}, j : 0 .. BufferSize, end : 0 .. BufferSize]]
    BY <1>0, <1>01, SliceFacts, ProcessorAssumption DEF TypesInv
  <2>2. ppc' \in [Threads -> ProcessorPCs] /\ \A u \in Workers : ppc'[u] \in WorkerPCs
    BY <1>0, <1>01, SizeFacts DEF TypesInv, ProcessorPCs, WorkerPCs
  <2> QED
    BY <1>0, <1>11, <2>1, <2>2 DEF SwitchTask, TypesInv, shared
<1>3. PlaceInv'
  BY SizeFacts DEF SwitchTask, Goto, PlaceInv, TypesInv, barrier
<1>4. StopInv'
  BY SizeFacts DEF SwitchTask, StopInv, barrier, CalmPCs
<1>5. QuietInv'
  BY <1>11 DEF QuietInv
<1>6. BusyInv'
  <2>1. \A u \in Workers : ppc'[u] \in Working \cup {"callWait", "inWait"}
    <3>1. \A u \in Workers : ppc'[u] = ppc[u] \/ ppc'[u] \in Working
      BY <1>0 DEF SwitchTask, Goto, TypesInv, Working, Workers
    <3> QED
      BY <1>0, <3>1 DEF BusyInv
  <2> QED
    BY <1>0, <1>11, <1>12, <2>1 DEF SwitchTask, BusyInv, barrier
<1>7. CounterInv'
  BY <1>0, <1>11 DEF SwitchTask, CounterInv
<1>8. DataInv'
  BY <1>0, <1>11, <1>1 DEF SwitchTask, DataInv, shared, Large, Cursor
<1>9. KernelInv'
  <2>1. kernel'[t] = [task |-> request.task, j |-> MyStart(t), end |-> MyEnd(t)] /\ ppc'[t] = "clip"
    BY <1>0, <1>01 DEF TypesInv
  <2>2. \A u \in Threads : u # t => ppc'[u] = ppc[u] /\ kernel'[u] = kernel[u]
    BY <1>0, <1>01 DEF TypesInv
  <2> QED
    BY <1>0, <1>11, <2>1, <2>2 DEF KernelInv, Large
<1>10. ResultInv'
  <2>1. ASSUME NEW u \in Threads PROVE Frontier(u)' = Frontier(u)
    <3>1. CASE u = t
      <4>1. ppc[t] = "switch" /\ ppc'[t] = "clip"
        BY <1>0, <1>01 DEF SwitchTask, TypesInv
      <4> QED
        BY <1>0, <1>11, <1>12, <3>1, <4>1 DEF Frontier
    <3>2. CASE u # t
      <4>1. ppc'[u] = ppc[u] /\ kernel'[u] = kernel[u]
        BY <1>0, <1>01, <3>2 DEF TypesInv
      <4> QED
        BY <1>0, <1>11, <1>12, <4>1 DEF Frontier
    <3> QED
      BY <3>1, <3>2
  <2> QED
    BY <1>0, <1>11, <2>1, ResultKept DEF SwitchTask
<1> QED
  BY <1>1, <1>2, <1>3, <1>4, <1>5, <1>6, <1>7, <1>8, <1>9, <1>10

\* A worker that counts itself is pending no more: its slice is done.
LEMMA CountDoneStep ==
  ASSUME B!Narrow, ProcessorInv, NEW t \in Workers, CountDone(t)
  PROVE  ProcessorInv'
<1> USE DEF ProcessorInv
<1>0. /\ ~aborted /\ CallerBusy /\ Large /\ ~SmallCall
      /\ t \in Threads /\ t # 0 /\ t \notin Freed /\ t \in Pending
      /\ ppc[0] \in {"inWait", "ownSlice", "await", "clip", "convert"}
      /\ request.task \in AllTasks /\ mTask = request.task
      /\ mSourceSize = request.size /\ Cursor(request.task) = 1
  <2>1. ~aborted
    BY DEF CountDone, StopInv, CalmPCs
  <2> QED
    BY <2>1, WorkerFacts DEF CountDone, Working
<1>1. B!IInv' /\ Freed' = Freed
  BY BarrierIdle DEF CountDone
<1>11. CallerBusy' /\ ~SmallCall' /\ ppc'[0] = ppc[0] /\ request' = request
  <2>1. ppc'[0] = ppc[0] /\ request' = request
    BY <1>0 DEF CountDone, Goto, TypesInv
  <2> QED
    BY <1>0, <1>1, <2>1 DEF CallerBusy, SmallCall, Large
<1>12. Pending' = Pending \ {t}
  BY <1>0, <1>1 DEF CountDone, Goto, TypesInv, Pending, Working
<1>2. TypesInv'
  <2>1. kernel' \in [Threads ->
                       [task : AllTasks \cup {"garbage"}, j : 0 .. BufferSize, end : 0 .. BufferSize]]
    BY <1>0, ProcessorAssumption DEF CountDone, TypesInv, NoKernel
  <2>2. ppc' \in [Threads -> ProcessorPCs] /\ \A u \in Workers : ppc'[u] \in WorkerPCs
    BY <1>0, SizeFacts DEF CountDone, Goto, TypesInv, ProcessorPCs, WorkerPCs
  <2> QED
    BY <1>0, <1>11, <2>1, <2>2 DEF CountDone, TypesInv, shared
<1>3. PlaceInv'
  BY SizeFacts DEF CountDone, Goto, PlaceInv, barrier
<1>4. StopInv'
  BY SizeFacts DEF CountDone, StopInv, barrier, CalmPCs
<1>5. QuietInv'
  BY <1>11 DEF QuietInv
<1>6. BusyInv'
  <2>1. \A u \in Workers : ppc'[u] \in Working \cup {"callWait", "inWait"}
    BY <1>0 DEF CountDone, Goto, TypesInv, BusyInv, Working
  <2>2. Cardinality(Pending') = Cardinality(Pending) - 1 /\ Cardinality(Pending) \in Nat
    BY <1>0, <1>12, SizeFacts, FS_Subset, FS_RemoveElement, FS_CardinalityType, ZenonT(60) DEF Pending
  <2>3. mCounter + Cardinality(Pending) = Size - 1 /\ mCounter \in Nat
    BY <1>0 DEF BusyInv, TypesInv
  <2>4. mCounter' + Cardinality(Pending') = Size - 1
    BY <2>2, <2>3, ProcessorAssumption DEF CountDone
  <2> QED
    BY <2>1, <2>4 DEF BusyInv
<1>7. CounterInv'
  <2>1. Cardinality(Pending') \in Nat
    BY <1>12, SizeFacts, FS_Subset, FS_RemoveElement, FS_CardinalityType DEF Pending
  <2>2. mCounter' + Cardinality(Pending') = Size - 1 /\ mCounter' \in Nat
    BY <1>0, <1>2, <1>6, <1>11 DEF BusyInv, TypesInv, CountDone, barrier
  <2> QED
    BY <1>11, <2>1, <2>2, ProcessorAssumption DEF CounterInv
<1>8. DataInv'
  BY <1>0, <1>11, <1>1 DEF CountDone, DataInv, shared, Large, Cursor
<1>9. KernelInv'
  <2>1. \A u \in Threads : IF u = t THEN ppc'[u] = "callWait" ELSE ppc'[u] = ppc[u] /\ kernel'[u] = kernel[u]
    BY <1>0 DEF CountDone, Goto, TypesInv
  <2> QED
    BY <1>0, <1>11, <2>1, SizeFacts DEF KernelInv, Large
<1>10. ResultInv'
  <2>1. ASSUME NEW u \in Threads PROVE Frontier(u)' = Frontier(u)
    <3>1. CASE u = t
      BY <1>0, <1>11, <1>12, <3>1 DEF CountDone, Goto, TypesInv, Frontier
    <3>2. CASE u # t
      <4>1. ppc'[u] = ppc[u] /\ kernel'[u] = kernel[u]
        BY <1>0, <3>2 DEF CountDone, Goto, TypesInv
      <4> QED
        BY <1>0, <1>11, <1>12, <3>2, <4>1 DEF Frontier
    <3> QED
      BY <3>1, <3>2
  <2> QED
    BY <1>0, <1>11, <2>1, ResultKept DEF CountDone
<1> QED
  BY <1>1, <1>2, <1>3, <1>4, <1>5, <1>6, <1>7, <1>8, <1>9, <1>10

\* A kernel clips its slice at the end of the block; nothing of an empty one is left to do.
LEMMA ClipStep ==
  ASSUME B!Narrow, ProcessorInv, NEW t \in Threads, Clip(t)
  PROVE  ProcessorInv'
<1> USE DEF ProcessorInv
<1>0. /\ ~aborted
      /\ t # 0 => t \in Workers /\ CallerBusy /\ t \in Pending
      /\ t # 0 \/ Large => CallerBusy /\ Large /\ ~SmallCall
      /\ ~(t # 0 \/ Large) => ~CallerBusy /\ SmallCall
      /\ ppc[0] \in {"inWait", "ownSlice", "await", "clip", "convert"}
      /\ request.task \in AllTasks
      /\ mSourceSize = request.size
      /\ Cursor(request.task) = 1
  BY KernelFacts DEF Clip
<1>1. B!IInv' /\ Freed' = Freed
  BY BarrierIdle DEF Clip
<1>11. /\ \A u \in Threads \ {t} : ppc'[u] = ppc[u] /\ kernel'[u] = kernel[u]
       /\ ppc'[t] \in {"convert", IF t # 0 THEN "count" ELSE IF Large THEN "await" ELSE "return"}
       /\ ppc' \in [Threads -> ProcessorPCs]
  <2>1. AfterKernel(t) = IF t # 0 THEN "count" ELSE IF Large THEN "await" ELSE "return"
    BY ProcessorAssumption DEF AfterKernel, Large, TypesInv
  <2> QED
    BY <2>1 DEF Clip, Goto, TypesInv, ProcessorPCs
<1>12. Large' = Large /\ (CallerBusy' <=> CallerBusy) /\ (SmallCall' <=> SmallCall)
  <2>1. Large' = Large
    BY DEF Clip, Large
  <2>2. CASE t # 0
    BY <1>1, <1>11, <2>1, <2>2, SizeFacts DEF CallerBusy, SmallCall
  <2>3. CASE t = 0
    <3>1. 0 \notin Freed /\ ppc[0] \in {"clip", "convert"}
      BY <2>3, FreedWait DEF Clip, PlaceInv
    <3> QED
      BY <1>0, <1>1, <1>11, <2>1, <2>3, <3>1 DEF CallerBusy, SmallCall
  <2> QED
    BY <2>2, <2>3
<1>13. Pending' = Pending
  <2>1. \A u \in Workers : ppc'[u] \in Working <=> ppc[u] \in Working
    BY <1>11 DEF Clip, Working, Workers
  <2> QED
    BY <1>1, <2>1 DEF Pending
<1>2. TypesInv'
  <2>1. \A u \in Workers : ppc'[u] \in WorkerPCs
    BY <1>11 DEF TypesInv, WorkerPCs, Workers
  <2>2. ppc'[0] \in CallerPCs
    BY <1>11, SizeFacts DEF TypesInv, CallerPCs
  <2>3. kernel' \in [Threads ->
                       [task : AllTasks \cup {"garbage"}, j : 0 .. BufferSize, end : 0 .. BufferSize]]
    BY <1>0, ProcessorAssumption DEF Clip, TypesInv, Smaller
  <2>4. result' \in [Slots -> (AllTasks \cup {"garbage"}) \X (0 .. 1)]
    BY DEF Clip, TypesInv
  <2> QED
    BY <1>11, <2>1, <2>2, <2>3, <2>4 DEF Clip, TypesInv, shared
<1>3. PlaceInv'
  <2>1. ppc'[t] \notin {"inWait", "abort"} /\ ppc[t] \notin {"inWait", "abort"}
    BY <1>11 DEF Clip
  <2>2. pc' = pc /\ aborted' = aborted
    BY DEF Clip, barrier
  <2> QED
    BY <1>11, <2>1, <2>2 DEF PlaceInv
<1>4. StopInv'
  BY <1>0 DEF Clip, StopInv, barrier
<1>5. QuietInv'
  <2>1. ~CallerBusy => t = 0
    BY <1>0
  <2> QED
    BY <1>0, <1>1, <1>11, <1>12, <2>1 DEF QuietInv, Workers
<1>6. BusyInv'
  <2>1. \A u \in Workers : ppc'[u] = ppc[u] \/ ppc'[u] \in Working
    BY <1>11 DEF Working, Workers
  <2> QED
    BY <1>0, <1>12, <1>13, <2>1 DEF Clip, BusyInv, Working
<1>7. CounterInv'
  <2>1. ppc'[0] \in {"setTask", "callWait", "inWait"} =>
        ppc[0] \in {"setTask", "callWait", "inWait"}
    BY <1>11, SizeFacts
  <2> QED
    BY <1>0, <1>12, <2>1 DEF Clip, CounterInv
<1>8. DataInv'
  <2>1. mTask' = mTask /\ mSourceSize' = mSourceSize /\ request' = request
    BY DEF Clip, shared
  <2>2. Cursor(request.task)' = 1
    BY <1>0 DEF Clip, shared, Cursor
  <2>3. ppc'[0] \in {"callWait", "inWait"} => ppc[0] \in {"callWait", "inWait"}
    BY <1>11, SizeFacts
  <2>4. CallerBusy => Large
    BY <1>0
  <2>5. ppc'[0] \in {"resetCounter", "setTask", "callWait", "inWait", "ownSlice", "await"} =>
        Large
    BY <1>0, <1>11, SizeFacts DEF DataInv
  <2> QED
    BY <1>0, <1>12, <2>1, <2>2, <2>3, <2>4, <2>5 DEF DataInv
<1>9. KernelInv'
  <2>1. CASE t # 0 \/ Large
    <3>1. kernel[t] = [task |-> request.task, j |-> MyStart(t), end |-> MyEnd(t)]
      BY <2>1 DEF Clip, KernelInv
    <3>2. kernel'[t] = [task |-> request.task, j |-> MyStart(t), end |-> Smaller(MyEnd(t), request.size)]
      BY <1>0, <3>1 DEF Clip, TypesInv
    <3>3. ppc'[t] = "convert" => ~(Smaller(MyEnd(t), request.size) <= MyStart(t))
      BY <1>0, <3>1 DEF Clip, Goto, TypesInv, AfterKernel
    <3>4. MyStart(t) \in Nat /\ Smaller(MyEnd(t), request.size) \in Nat
      BY SliceFacts, ProcessorAssumption DEF Smaller, TypesInv
    <3>5. ppc'[t] # "clip"
      BY <1>11
    <3>6. ~Large' => t # 0 /\ ppc'[0] = ppc[0] /\ kernel'[0] = kernel[0]
      BY <1>11, <1>12, <2>1, SizeFacts
    <3>7. request' = request
      BY DEF Clip
    <3> QED
      BY <1>11, <1>12, <3>2, <3>3, <3>4, <3>5, <3>6, <3>7 DEF KernelInv
  <2>2. CASE t = 0 /\ ~Large
    <3>1. kernel[0] = [task |-> request.task, j |-> 0, end |-> request.size]
      BY <2>2 DEF Clip, KernelInv
    <3>2. Smaller(request.size, mSourceSize) = request.size
      BY <1>0 DEF Smaller
    <3>3. kernel'[0] = [task |-> request.task, j |-> 0, end |-> request.size]
      BY <2>2, <3>1, <3>2 DEF Clip, TypesInv
    <3>4. ppc'[0] = "convert" => ~(request.size <= 0)
      BY <2>2, <3>1, <3>2 DEF Clip, Goto, TypesInv, AfterKernel
    <3>5. ppc'[0] # "clip" /\ request.size \in Nat
      BY <1>11, <2>2, ProcessorAssumption DEF TypesInv
    <3>6. request' = request
      BY DEF Clip
    <3> QED
      BY <1>11, <1>12, <2>2, <3>3, <3>4, <3>5, <3>6 DEF KernelInv
  <2> QED
    BY <2>1, <2>2
<1>10. ResultInv'
  <2>1. CASE t # 0 \/ Large
    <3>1. kernel[t].j = MyStart(t) /\ kernel[t].end = MyEnd(t)
      <4>1. kernel[t] = [task |-> request.task, j |-> MyStart(t), end |-> MyEnd(t)]
        BY <2>1 DEF Clip, KernelInv
      <4> QED
        BY <4>1
    <3>2. Frontier(t) = MyStart(t)
      BY <1>0, <2>1, SizeFacts DEF Clip, Frontier
    <3>3. CASE Smaller(MyEnd(t), request.size) <= MyStart(t)
      <4>1. request.size <= MyStart(t)
        BY <3>3, SliceFacts, ProcessorAssumption DEF Smaller, TypesInv
      <4>2. \A s \in Slice(t) : ~(s < request.size)
        BY <4>1, SliceFacts, ProcessorAssumption DEF Slice, TypesInv
      <4> QED
        <5>1. ASSUME NEW u \in Threads, u # t PROVE Frontier(u)' = Frontier(u)
          BY <1>0, <1>11, <1>12, <1>13, <2>1, <5>1, SizeFacts DEF Frontier
        <5> QED
          BY <1>0, <1>12, <2>1, <4>2, <5>1, ResultSame DEF Clip
    <3>4. CASE ~(Smaller(MyEnd(t), request.size) <= MyStart(t))
      <4>1. ppc'[t] = "convert" /\ kernel'[t].j = MyStart(t)
        BY <1>0, <3>1, <3>4 DEF Clip, Goto, TypesInv
      <4>2. Frontier(t)' = Frontier(t)
        BY <3>2, <4>1 DEF Frontier
      <4> QED
        <5>1. ASSUME NEW u \in Threads, u # t PROVE Frontier(u)' = Frontier(u)
          BY <1>0, <1>11, <1>12, <1>13, <2>1, <5>1, SizeFacts DEF Frontier
        <5> QED
          BY <1>0, <1>12, <2>1, <4>2, <5>1, ResultKept DEF Clip
    <3> QED
      BY <3>3, <3>4
  <2>2. CASE t = 0 /\ ~Large
    <3>1. kernel[0].j = 0 /\ kernel[0].end = request.size /\ request.size \in Nat
      BY <2>2, ProcessorAssumption DEF Clip, KernelInv, TypesInv
    <3>2. Smaller(kernel[0].end, mSourceSize) = request.size
      BY <1>0, <3>1 DEF Smaller
    <3>3. SmallFrontier = 0
      BY <2>2 DEF Clip, SmallFrontier
    <3>4. IF request.size <= 0 THEN ppc'[0] # "convert" ELSE ppc'[0] = "convert" /\ kernel'[0].j = 0
      BY <2>2, <3>1, <3>2 DEF Clip, Goto, TypesInv, AfterKernel
    <3>5. SmallFrontier' = 0
      BY <1>11, <2>2, <3>1, <3>4 DEF Clip, SmallFrontier
    <3> QED
      BY <1>0, <1>12, <2>2, <3>3, <3>5, ResultKept DEF Clip
  <2> QED
    BY <2>1, <2>2
<1> QED
  BY <1>1, <1>2, <1>3, <1>4, <1>5, <1>6, <1>7, <1>8, <1>9, <1>10

\* A kernel converts the next element of its slice, which is in no other slice.
LEMMA ConvertStep ==
  ASSUME B!Narrow, ProcessorInv, NEW t \in Threads, Convert(t)
  PROVE  ProcessorInv'
<1> USE DEF ProcessorInv
<1>0. /\ ~aborted
      /\ t # 0 => t \in Workers /\ CallerBusy /\ t \in Pending
      /\ t # 0 \/ Large => CallerBusy /\ Large /\ ~SmallCall
      /\ ~(t # 0 \/ Large) => ~CallerBusy /\ SmallCall
      /\ ppc[0] \in {"inWait", "ownSlice", "await", "clip", "convert"}
      /\ request.task \in AllTasks
      /\ mSourceSize = request.size
      /\ Cursor(request.task) = 1
  BY KernelFacts DEF Convert
<1>1. B!IInv' /\ Freed' = Freed
  BY BarrierIdle DEF Convert
<1>11. /\ \A u \in Threads \ {t} : ppc'[u] = ppc[u] /\ kernel'[u] = kernel[u]
       /\ ppc'[t] \in {"convert", IF t # 0 THEN "count" ELSE IF Large THEN "await" ELSE "return"}
       /\ ppc' \in [Threads -> ProcessorPCs]
  <2>1. AfterKernel(t) = IF t # 0 THEN "count" ELSE IF Large THEN "await" ELSE "return"
    BY ProcessorAssumption DEF AfterKernel, Large, TypesInv
  <2> QED
    BY <2>1 DEF Convert, Goto, TypesInv, ProcessorPCs
<1>12. Large' = Large /\ (CallerBusy' <=> CallerBusy) /\ (SmallCall' <=> SmallCall)
  <2>1. Large' = Large
    BY DEF Convert, Large
  <2>2. CASE t # 0
    BY <1>1, <1>11, <2>1, <2>2, SizeFacts DEF CallerBusy, SmallCall
  <2>3. CASE t = 0
    <3>1. 0 \notin Freed /\ ppc[0] \in {"clip", "convert"}
      BY <2>3, FreedWait DEF Convert, PlaceInv
    <3> QED
      BY <1>0, <1>1, <1>11, <2>1, <2>3, <3>1 DEF CallerBusy, SmallCall
  <2> QED
    BY <2>2, <2>3
<1>13. Pending' = Pending
  <2>1. \A u \in Workers : ppc'[u] \in Working <=> ppc[u] \in Working
    BY <1>11 DEF Convert, Working, Workers
  <2> QED
    BY <1>1, <2>1 DEF Pending
<1>2. TypesInv'
  <2>1. \A u \in Workers : ppc'[u] \in WorkerPCs
    BY <1>11 DEF TypesInv, WorkerPCs, Workers
  <2>2. ppc'[0] \in CallerPCs
    BY <1>11, SizeFacts DEF TypesInv, CallerPCs
  <2>3. kernel' \in [Threads ->
                       [task : AllTasks \cup {"garbage"}, j : 0 .. BufferSize, end : 0 .. BufferSize]]
    <3>1. kernel[t].j \in 0 .. BufferSize /\ kernel[t].end \in 0 .. BufferSize
      BY DEF TypesInv
    <3>2. kernel[t].j < kernel[t].end
      BY DEF Convert, KernelInv
    <3>3. kernel[t].j + 1 \in 0 .. BufferSize
      BY <3>1, <3>2, ProcessorAssumption
    <3> QED
      BY <3>3 DEF Convert, TypesInv
  <2>4. result' \in [Slots -> (AllTasks \cup {"garbage"}) \X (0 .. 1)]
    <3>1. <<kernel[t].task, Cursor(kernel[t].task)>> \in (AllTasks \cup {"garbage"}) \X (0 .. 1)
      BY DEF TypesInv, Cursor
    <3> QED
      BY <3>1 DEF Convert, TypesInv
  <2> QED
    BY <1>11, <2>1, <2>2, <2>3, <2>4 DEF Convert, TypesInv, shared
<1>3. PlaceInv'
  <2>1. ppc'[t] \notin {"inWait", "abort"} /\ ppc[t] \notin {"inWait", "abort"}
    BY <1>11 DEF Convert
  <2>2. pc' = pc /\ aborted' = aborted
    BY DEF Convert, barrier
  <2> QED
    BY <1>11, <2>1, <2>2 DEF PlaceInv
<1>4. StopInv'
  BY <1>0 DEF Convert, StopInv, barrier
<1>5. QuietInv'
  <2>1. ~CallerBusy => t = 0
    BY <1>0
  <2> QED
    BY <1>0, <1>1, <1>11, <1>12, <2>1 DEF QuietInv, Workers
<1>6. BusyInv'
  <2>1. \A u \in Workers : ppc'[u] = ppc[u] \/ ppc'[u] \in Working
    BY <1>11 DEF Working, Workers
  <2> QED
    BY <1>0, <1>12, <1>13, <2>1 DEF Convert, BusyInv, Working
<1>7. CounterInv'
  <2>1. ppc'[0] \in {"setTask", "callWait", "inWait"} =>
        ppc[0] \in {"setTask", "callWait", "inWait"}
    BY <1>11, SizeFacts
  <2> QED
    BY <1>0, <1>12, <2>1 DEF Convert, CounterInv
<1>8. DataInv'
  <2>1. mTask' = mTask /\ mSourceSize' = mSourceSize /\ request' = request
    BY DEF Convert, shared
  <2>2. Cursor(request.task)' = 1
    BY <1>0 DEF Convert, shared, Cursor
  <2>3. ppc'[0] \in {"callWait", "inWait"} => ppc[0] \in {"callWait", "inWait"}
    BY <1>11, SizeFacts
  <2>4. CallerBusy => Large
    BY <1>0
  <2>5. ppc'[0] \in {"resetCounter", "setTask", "callWait", "inWait", "ownSlice", "await"} =>
        Large
    BY <1>0, <1>11, SizeFacts DEF DataInv
  <2> QED
    BY <1>0, <1>12, <2>1, <2>2, <2>3, <2>4, <2>5 DEF DataInv
<1>9. KernelInv'
  <2>1. /\ request' = request
        /\ kernel'[t] = [kernel[t] EXCEPT !.j = kernel[t].j + 1]
        /\ ppc'[t] = "convert" => kernel[t].j + 1 < kernel[t].end
        /\ ppc'[t] # "clip"
    <3>1. AfterKernel(t) # "convert"
      BY DEF AfterKernel
    <3> QED
      BY <1>11, <3>1 DEF Convert, Goto, TypesInv
  <2>2. /\ kernel[t] \in [task : AllTasks \cup {"garbage"}, j : 0 .. BufferSize, end : 0 .. BufferSize]
        /\ BufferSize \in Nat
    BY ProcessorAssumption DEF TypesInv
  <2>3. /\ kernel'[t].task = kernel[t].task /\ kernel'[t].j = kernel[t].j + 1
        /\ kernel'[t].end = kernel[t].end
    BY <2>1, <2>2
  <2>4. CASE t # 0 \/ Large
    <3>1. /\ kernel[t].task = request.task
          /\ MyStart(t) <= kernel[t].j /\ kernel[t].j < kernel[t].end
          /\ kernel[t].end = Smaller(MyEnd(t), request.size)
      BY <2>4 DEF Convert, KernelInv
    <3>2. ppc'[t] = "convert" => /\ kernel'[t].task = request.task
                                 /\ MyStart(t) <= kernel'[t].j /\ kernel'[t].j < kernel'[t].end
                                 /\ kernel'[t].end = Smaller(MyEnd(t), request.size)
      BY <2>1, <2>2, <2>3, <3>1, SliceFacts
    <3>3. ~Large' => t # 0 /\ ppc'[0] = ppc[0] /\ kernel'[0] = kernel[0]
      BY <1>11, <1>12, <2>4, SizeFacts
    <3> QED
      BY <1>11, <1>12, <2>1, <3>2, <3>3, ZenonT(60) DEF KernelInv
  <2>5. CASE t = 0 /\ ~Large
    <3>1. /\ kernel[0].task = request.task
          /\ kernel[0].end = request.size
      BY <2>5 DEF Convert, KernelInv
    <3>2. ppc'[0] = "convert" => /\ kernel'[0].task = request.task
                                 /\ kernel'[0].j < kernel'[0].end
                                 /\ kernel'[0].end = request.size
      BY <2>1, <2>3, <2>5, <3>1
    <3> QED
      BY <1>11, <1>12, <2>1, <2>5, <3>2 DEF KernelInv
  <2> QED
    BY <2>4, <2>5
<1>10. ResultInv'
  <2> DEFINE j == kernel[t].j
  <2>1. /\ kernel[t].task = request.task /\ j < kernel[t].end
        /\ j \in Nat /\ kernel[t].end \in Nat /\ request.size \in 0 .. BufferSize
        /\ BufferSize \in Nat
    <3>1. kernel[t].task = request.task /\ j < kernel[t].end
      BY DEF Convert, KernelInv
    <3> QED
      BY <3>1, ProcessorAssumption DEF TypesInv
  <2>2. /\ request' = request /\ Converted' = Converted
        /\ result' = [result EXCEPT ![j] = Converted]
        /\ kernel'[t].j = j + 1
        /\ ppc'[t] = IF j + 1 < kernel[t].end THEN "convert" ELSE AfterKernel(t)
        /\ AfterKernel(t) = IF t # 0 THEN "count" ELSE IF Large THEN "await" ELSE "return"
        /\ ppc[t] = "convert"
    <3>1. Converted = <<kernel[t].task, Cursor(kernel[t].task)>>
      BY <1>0, <2>1 DEF Converted
    <3>2. request' = request /\ Converted' = Converted /\ result' = [result EXCEPT ![j] = Converted]
      BY <3>1 DEF Convert, Converted
    <3>3. ppc[t] = "convert" /\ ppc'[t] = IF j + 1 < kernel[t].end THEN "convert" ELSE AfterKernel(t)
      BY DEF Convert, Goto, TypesInv
    <3>4. AfterKernel(t) = IF t # 0 THEN "count" ELSE IF Large THEN "await" ELSE "return"
      BY <2>1, ProcessorAssumption DEF AfterKernel, Large
    <3>5. kernel'[t].j = j + 1
      BY DEF Convert, TypesInv
    <3> QED
      BY <3>2, <3>3, <3>4, <3>5
  <2>3. CASE t # 0 \/ Large
    <3>1. /\ MyStart(t) <= j /\ kernel[t].end = Smaller(MyEnd(t), request.size)
          /\ MyStart(t) \in Nat /\ MyEnd(t) \in Nat
      BY <2>3, SliceFacts DEF Convert, KernelInv
    <3>2. j < MyEnd(t) /\ j < request.size
      BY <2>1, <3>1 DEF Smaller
    <3>3. j \in Slice(t) /\ j \in Slots
      BY <2>1, <3>1, <3>2 DEF Slice, Slots
    <3>4. Frontier(t) = j
      BY <2>2 DEF Frontier
    <3>5. \A s \in Slice(t) : s < Frontier(t)' /\ s < request.size <=> s < j + 1 /\ s < request.size
      <4>1. CASE j + 1 < kernel[t].end
        BY <2>2, <4>1 DEF Frontier
      <4>2. CASE ~(j + 1 < kernel[t].end)
        <5>1. Frontier(t)' = MyEnd(t)
          BY <1>0, <2>2, <2>3, <4>2, SizeFacts DEF Frontier
        <5>2. Smaller(MyEnd(t), request.size) = j + 1
          BY <2>1, <3>1, <4>2
        <5>3. \A s \in Slice(t) : s \in Int /\ s < MyEnd(t)
          BY <3>1 DEF Slice
        <5> QED
          BY <2>1, <3>1, <5>1, <5>2, <5>3 DEF Smaller
      <4> QED
        BY <4>1, <4>2
    <3>6. \A s \in Slice(t) : result'[s] = IF s < Frontier(t)' /\ s < request.size THEN Converted ELSE Untouched
      <4>1. ASSUME NEW s \in Slice(t)
            PROVE  result'[s] = IF s < j + 1 /\ s < request.size THEN Converted ELSE Untouched
        <5>1. s \in Slots /\ s \in Int
          BY <3>1, SliceSlots DEF Slice
        <5>2. CASE s = j
          BY <2>1, <2>2, <3>2, <3>3, <5>2 DEF TypesInv
        <5>3. CASE s # j
          <6>1. result'[s] = result[s] /\ (s < j + 1 <=> s < j)
            BY <2>1, <2>2, <5>1, <5>3 DEF TypesInv
          <6>2. result[s] = IF s < j /\ s < request.size THEN Converted ELSE Untouched
            BY <1>0, <2>3, <3>4 DEF ResultInv
          <6> QED
            BY <6>1, <6>2
        <5> QED
          BY <5>2, <5>3
      <4> QED
        BY <3>5, <4>1
    <3>7. ASSUME NEW u \in Threads, u # t, NEW s \in Slice(u)
          PROVE  result'[s] = IF s < Frontier(u)' /\ s < request.size THEN Converted ELSE Untouched
      <4>1. Frontier(u)' = Frontier(u)
        BY <1>0, <1>11, <1>12, <1>13, <2>3, <3>7, SizeFacts DEF Frontier
      <4>2. s # j
        BY <3>3, <3>7, SlicesDisjoint
      <4>3. result'[s] = result[s]
        BY <2>2, <3>7, <4>2, SliceSlots DEF TypesInv
      <4> QED
        BY <1>0, <2>3, <4>1, <4>3 DEF ResultInv
    <3>8. ~SmallCall'
      BY <1>0, <1>12, <2>3
    <3> QED
      BY <2>2, <3>6, <3>7, <3>8 DEF ResultInv, Slice, MyStart, MyEnd
  <2>4. CASE t = 0 /\ ~Large
    <3>1. kernel[0].end = request.size /\ SmallFrontier = j /\ ppc[0] = "convert"
      BY <2>2, <2>4 DEF Convert, KernelInv, SmallFrontier
    <3>2. SmallFrontier' = j + 1
      <4>1. CASE j + 1 < request.size
        BY <2>2, <2>4, <3>1, <4>1 DEF SmallFrontier
      <4>2. CASE ~(j + 1 < request.size)
        <5>1. request.size = j + 1
          BY <2>1, <2>4, <3>1, <4>2
        <5> QED
          BY <2>2, <2>4, <3>1, <4>2, <5>1 DEF SmallFrontier
      <4> QED
        BY <4>1, <4>2
    <3>3. ASSUME NEW s \in Slots
          PROVE  result'[s] = IF s < j + 1 THEN Converted ELSE Untouched
      <4>1. s \in Nat
        BY DEF Slots
      <4>2. result[s] = IF s < j THEN Converted ELSE Untouched
        BY <1>0, <2>4, <3>1 DEF ResultInv
      <4>3. CASE s = j
        BY <2>1, <2>2, <4>3 DEF TypesInv
      <4>4. CASE s # j
        BY <2>1, <2>2, <4>1, <4>2, <4>4 DEF TypesInv
      <4> QED
        BY <4>3, <4>4
    <3>4. SmallCall'
      BY <1>0, <1>12, <2>4
    <3> QED
      BY <2>2, <3>2, <3>3, <3>4 DEF ResultInv
  <2> QED
    BY <2>3, <2>4
<1> QED
  BY <1>1, <1>2, <1>3, <1>4, <1>5, <1>6, <1>7, <1>8, <1>9, <1>10

\* A new instance starts as the first one did.
LEMMA GetInstanceStep ==
  ASSUME B!Narrow, ProcessorInv, GetInstance
  PROVE  ProcessorInv'
<1> USE DEF ProcessorInv
<1>0. ~aborted' /\ Freed' = {} /\ ~CallerBusy' /\ ~CallerBusy
      /\ \A t \in Threads : pc'[t] = "out" /\ ppc'[t] = IF t = 0 THEN "spawn" ELSE "unborn"
  <2>1. \A t \in Threads : pc'[t] = "out" /\ ppc'[t] = IF t = 0 THEN "spawn" ELSE "unborn"
    BY DEF GetInstance, NewBarrier
  <2>2. Freed' = {}
    BY <2>1 DEF Freed, B!releasedBar, B!Inside, B!Opening, B!Parking, B!Waiting, B!Leaving
  <2>3. ~CallerBusy' /\ ~aborted'
    BY <2>1, <2>2, SizeFacts DEF CallerBusy, GetInstance, NewBarrier
  <2>4. ~CallerBusy
    BY FreedWait, SizeFacts DEF CallerBusy, GetInstance, PlaceInv
  <2> QED
    BY <2>1, <2>2, <2>3, <2>4
<1>1. B!IInv'
  <2>1. B!Init'
    BY SameMax DEF GetInstance, NewBarrier, B!Init
  <2>2. B!Init' => B!IInv'
    BY BarrierStart, PTL
  <2> QED
    BY <2>1, <2>2
<1>2. TypesInv'
  <2>1. ppc' \in [Threads -> ProcessorPCs] /\ ppc'[0] \in CallerPCs
    BY SizeFacts DEF GetInstance, ProcessorPCs, CallerPCs
  <2>2. \A t \in Workers : ppc'[t] \in WorkerPCs
    BY <1>0, SizeFacts DEF WorkerPCs
  <2> QED
    BY <2>1, <2>2, ProcessorAssumption DEF GetInstance, TypesInv
<1>3. PlaceInv'
  BY <1>0, SizeFacts DEF PlaceInv, InWaitPCs, B!Quitting, B!Opening, B!Closing, B!Waiting,
       B!Parking, B!Leaving
<1>4. StopInv'
  BY <1>0 DEF StopInv
<1>5. QuietInv'
  BY <1>0, SizeFacts DEF QuietInv, CalmPCs
<1>6. BusyInv'
  BY <1>0 DEF BusyInv
<1>7. CounterInv'
  BY ProcessorAssumption DEF GetInstance, CounterInv
<1>8. DataInv'
  BY <1>0, SizeFacts DEF DataInv
<1>9. KernelInv'
  BY <1>0, SizeFacts DEF KernelInv
<1>10. ResultInv'
  <2>1. Resting /\ Resting'
    BY <1>0, SizeFacts DEF GetInstance, Resting
  <2>2. Blank
    BY <2>1, RestingBlank
  <2>3. Blank'
    BY <2>2 DEF Blank, GetInstance
  <2>4. StopInv' /\ QuietInv' /\ TypesInv' /\ Resting' => (ResultInv' <=> Blank')
    BY RestingBlank, PTL
  <2> QED
    BY <1>2, <1>4, <1>5, <2>1, <2>3, <2>4
<1> QED
  BY <1>1, <1>2, <1>3, <1>4, <1>5, <1>6, <1>7, <1>8, <1>9, <1>10

\* A thread that comes to the barrier is not let go yet.
LEMMA CallWaitStep ==
  ASSUME B!Narrow, ProcessorInv, NEW t \in Threads, CallWait(t)
  PROVE  ProcessorInv'
<1> USE DEF ProcessorInv
<1>0. /\ pc[t] = "out" /\ pc'[t] = "dec" /\ aborted' = aborted
      /\ \A u \in Threads \ {t} : pc'[u] = pc[u] /\ ppc'[u] = ppc[u]
      /\ ppc[t] = "callWait" /\ ppc'[t] = "inWait" /\ t \notin Freed
      /\ ppc' = [ppc EXCEPT ![t] = "inWait"]
  <2>1. /\ pc[t] = "out" /\ pc'[t] = "dec" /\ aborted' = aborted
        /\ \A u \in Threads \ {t} : pc'[u] = pc[u]
    BY DEF CallWait, B!Enter, B!Goto, B!IInv, B!TypeOK
  <2>2. t \notin Freed
    BY <2>1, FreedWait DEF InWaitPCs, B!Opening, B!Closing, B!Waiting, B!Parking, B!Leaving
  <2> QED
    BY <2>1, <2>2 DEF CallWait, Goto, TypesInv
<1>1. B!IInv' /\ Freed' = Freed
  BY BarrierStep, BarrierKeeps DEF CallWait
<1>11. (CallerBusy' <=> CallerBusy) /\ Large' = Large /\ Pending' = Pending
       /\ (ppc'[0] # ppc[0] => ppc[0] = "callWait" /\ ppc'[0] = "inWait")
  <2>1. ppc'[0] # ppc[0] => ppc[0] = "callWait" /\ ppc'[0] = "inWait"
    BY <1>0, SizeFacts
  <2>2. \A u \in Workers : ppc'[u] \in Working <=> ppc[u] \in Working
    BY <1>0, SizeFacts DEF Working
  <2>3. Large' = Large
    BY DEF CallWait, Large
  <2> QED
    BY <1>1, <2>1, <2>2, <2>3 DEF CallerBusy, Pending
<1>2. TypesInv'
  <2>1. ppc' \in [Threads -> ProcessorPCs]
    BY <1>0 DEF TypesInv, ProcessorPCs
  <2>2. ppc'[0] \in CallerPCs /\ \A u \in Workers : ppc'[u] \in WorkerPCs
    BY <1>0, <1>11, SizeFacts DEF TypesInv, CallerPCs, WorkerPCs
  <2> QED
    BY <2>1, <2>2 DEF CallWait, TypesInv, shared
<1>3. PlaceInv'
  BY <1>0 DEF PlaceInv, InWaitPCs, B!Quitting
<1>4. StopInv'
  BY <1>0, <1>11, SizeFacts DEF CallWait, StopInv, CalmPCs, B!Opening
<1>5. QuietInv'
  BY <1>0, <1>1, <1>11, SizeFacts DEF QuietInv, CalmPCs
<1>6. BusyInv'
  BY <1>0, <1>1, <1>11, SizeFacts DEF CallWait, BusyInv, Working
<1>7. CounterInv'
  BY <1>0, <1>11 DEF CallWait, CounterInv
<1>8. DataInv'
  <2>1. Cursor(request.task)' = Cursor(request.task)
    BY DEF CallWait, shared, Cursor
  <2> QED
    BY <1>0, <1>11, <2>1 DEF CallWait, shared, DataInv
<1>9. KernelInv'
  <2>1. \A u \in Threads : ppc'[u] \in {"clip", "convert"} => ppc'[u] = ppc[u]
    BY <1>0
  <2> QED
    BY <1>11, <2>1, SizeFacts DEF CallWait, KernelInv
<1>10. ResultInv'
  <2>1. SmallCall' <=> SmallCall
    BY <1>11 DEF SmallCall
  <2>2. SmallCall => SmallFrontier' = SmallFrontier
    BY <1>11 DEF CallWait, SmallCall, SmallFrontier
  <2>3. ASSUME NEW u \in Threads PROVE Frontier(u)' = Frontier(u)
    <3>1. /\ (ppc'[u] = "convert" <=> ppc[u] = "convert")
          /\ (ppc'[u] = "count" <=> ppc[u] = "count")
          /\ kernel' = kernel
      BY <1>0 DEF CallWait
    <3> QED
      BY <1>11, <3>1 DEF Frontier
  <2> QED
    BY <2>1, <2>2, <2>3, ResultKept DEF CallWait
<1> QED
  BY <1>1, <1>2, <1>3, <1>4, <1>5, <1>6, <1>7, <1>8, <1>9, <1>10

\* A thread woken for nothing is where it was.
LEMMA SpuriousWakeupStep ==
  ASSUME B!Narrow, ProcessorInv, NEW t \in Threads, SpuriousWakeup(t)
  PROVE  ProcessorInv'
<1> USE DEF ProcessorInv
<1>0. /\ pc[t] = "asleep" /\ pc'[t] = "woken" /\ aborted' = aborted
      /\ \A u \in Threads \ {t} : pc'[u] = pc[u]
      /\ UNCHANGED <<created, mCounter, shared, ppc, kernel, result, request>>
  BY DEF SpuriousWakeup, B!SpuriousWakeup, B!Goto, B!IInv, B!TypeOK
<1>1. B!IInv' /\ Freed' = Freed
  BY BarrierStep, BarrierKeeps DEF SpuriousWakeup
<1>11. (CallerBusy' <=> CallerBusy) /\ Large' = Large /\ Pending' = Pending
  BY <1>0, <1>1 DEF CallerBusy, Large, Pending
<1>2. TypesInv'
  BY <1>0 DEF TypesInv, shared
<1>3. PlaceInv'
  BY <1>0 DEF PlaceInv, InWaitPCs, B!Quitting, B!Waiting
<1>4. StopInv'
  BY <1>0 DEF StopInv, B!Opening
<1>5. QuietInv'
  BY <1>0, <1>1, <1>11 DEF QuietInv
<1>6. BusyInv'
  BY <1>0, <1>11 DEF BusyInv
<1>7. CounterInv'
  BY <1>0, <1>11 DEF CounterInv
<1>8. DataInv'
  BY <1>0, <1>11 DEF DataInv, shared, Cursor
<1>9. KernelInv'
  BY <1>0, <1>11 DEF KernelInv
<1>10. ResultInv'
  <2>1. SmallCall' <=> SmallCall
    BY <1>0, <1>11 DEF SmallCall
  <2>2. SmallFrontier' = SmallFrontier
    BY <1>0 DEF SmallFrontier
  <2>3. \A u \in Threads : Frontier(u)' = Frontier(u)
    BY <1>0, <1>11 DEF Frontier
  <2> QED
    BY <1>0, <2>1, <2>2, <2>3, ResultKept
<1> QED
  BY <1>1, <1>2, <1>3, <1>4, <1>5, <1>6, <1>7, <1>8, <1>9, <1>10

\* When the caller sets mStop no worker is in a task and nobody opens the barrier.
LEMMA SetStopStep ==
  ASSUME B!Narrow, ProcessorInv, SetStop
  PROVE  ProcessorInv'
<1> USE DEF ProcessorInv
<1>0. /\ ~aborted /\ aborted' /\ ~CallerBusy
      /\ pc[0] = "out" /\ pc'[0] = "abortNotify"
      /\ \A u \in Threads \ {0} : pc'[u] = pc[u] /\ ppc'[u] = ppc[u]
      /\ ppc[0] = "idle" /\ ppc'[0] = "abort"
  <2>1. ppc[0] = "idle" /\ ~aborted
    BY DEF SetStop, StopInv
  <2>2. ~CallerBusy
    BY <2>1, FreedWait, SizeFacts DEF CallerBusy, PlaceInv
  <2>3. /\ aborted' /\ pc[0] = "out" /\ pc'[0] = "abortNotify"
        /\ \A u \in Threads \ {0} : pc'[u] = pc[u]
    BY SizeFacts DEF SetStop, B!SetAborted, B!Goto, B!IInv, B!TypeOK
  <2> QED
    BY <2>1, <2>2, <2>3, SizeFacts DEF SetStop, Goto, TypesInv
<1>1. B!IInv' /\ Freed' = Freed
  BY BarrierStep, BarrierKeeps, SizeFacts DEF SetStop
<1>11. ~CallerBusy'
  BY <1>0, <1>1 DEF CallerBusy
<1>2. TypesInv'
  <2>1. ppc' \in [Threads -> ProcessorPCs] /\ ppc'[0] \in CallerPCs
    BY SizeFacts DEF SetStop, Goto, TypesInv, ProcessorPCs, CallerPCs
  <2> QED
    BY <1>0, <2>1 DEF SetStop, TypesInv, shared, Workers
<1>3. PlaceInv'
  BY <1>0 DEF PlaceInv, InWaitPCs, B!Quitting, B!Opening, B!Closing, B!Waiting, B!Parking,
       B!Leaving
<1>4. StopInv'
  <2>1. \A t \in Workers : ppc'[t] \in CalmPCs
    BY <1>0 DEF QuietInv, Workers
  <2>2. ASSUME NEW t \in Threads PROVE pc[t] \notin B!Opening
    <3>1. t \notin Freed
      BY <1>0 DEF QuietInv
    <3> QED
      BY <1>0, <3>1 DEF Freed, B!releasedBar, B!Inside, B!IInv, B!SnapshotInv
  <2> QED
    BY <1>0, <2>1, <2>2 DEF StopInv, B!Opening
<1>5. QuietInv'
  BY <1>0 DEF QuietInv
<1>6. BusyInv'
  BY <1>0 DEF BusyInv
<1>7. CounterInv'
  BY <1>0 DEF SetStop, CounterInv
<1>8. DataInv'
  BY <1>0, <1>11 DEF DataInv
<1>9. KernelInv'
  <2>1. \A u \in Threads : ppc'[u] \notin {"clip", "convert"}
    BY <1>0 DEF QuietInv, CalmPCs, Workers
  <2> QED
    BY <2>1, SizeFacts DEF KernelInv
<1>10. ResultInv'
  <2>1. Resting /\ Resting'
    BY <1>0, <1>11 DEF Resting
  <2>2. Blank
    BY <2>1, RestingBlank
  <2>3. Blank'
    BY <2>2 DEF Blank, SetStop
  <2>4. StopInv' /\ QuietInv' /\ TypesInv' /\ Resting' => (ResultInv' <=> Blank')
    BY RestingBlank, PTL
  <2> QED
    BY <1>2, <1>4, <1>5, <2>1, <2>3, <2>4
<1> QED
  BY <1>1, <1>2, <1>3, <1>4, <1>5, <1>6, <1>7, <1>8, <1>9, <1>10

\* The abort notifies; the workers are where they were.
LEMMA NotifyAbortStep ==
  ASSUME B!Narrow, ProcessorInv, NotifyAbort
  PROVE  ProcessorInv'
<1> USE DEF ProcessorInv
<1>0. /\ aborted /\ aborted' /\ ppc[0] = "abort" /\ pc[0] \in B!Quitting
      /\ \/ pc'[0] = "abortBump" /\ ppc'[0] = "abort"
         \/ pc'[0] = "done" /\ ppc'[0] = "join"
      /\ \A u \in Threads \ {0} :
           /\ ppc'[u] = ppc[u]
           /\ pc'[u] = pc[u] \/ (pc[u] = "asleep" /\ pc'[u] = "woken")
  <2>1. /\ pc[0] \in B!Quitting /\ aborted' = aborted
        /\ pc'[0] \in {"abortBump", "done"}
        /\ \A u \in Threads \ {0} : pc'[u] = pc[u] \/ (pc[u] = "asleep" /\ pc'[u] = "woken")
    BY SizeFacts DEF NotifyAbort, B!AbortStep, B!AbortNotify, B!AbortBump, B!NotifyAll, B!Goto,
         B!IInv, B!TypeOK, B!Quitting
  <2>2. aborted
    BY <2>1, SizeFacts DEF B!IInv, B!SnapshotInv
  <2> QED
    BY <2>1, <2>2, SizeFacts DEF NotifyAbort, Goto, TypesInv
<1>1. B!IInv'
  BY BarrierStep, SizeFacts DEF NotifyAbort
<1>11. ~CallerBusy /\ ~CallerBusy'
  <2>1. 0 \notin Freed' /\ 0 \notin Freed
    BY <1>0 DEF Freed, B!releasedBar, B!Inside, B!Opening, B!Parking, B!Waiting, B!Leaving,
         B!Quitting
  <2> QED
    BY <1>0, <2>1 DEF CallerBusy
<1>2. TypesInv'
  <2>1. ppc' \in [Threads -> ProcessorPCs] /\ ppc'[0] \in CallerPCs
    BY SizeFacts DEF NotifyAbort, Goto, TypesInv, ProcessorPCs, CallerPCs
  <2> QED
    BY <1>0, <2>1 DEF NotifyAbort, TypesInv, shared, Workers
<1>3. PlaceInv'
  BY <1>0 DEF PlaceInv, InWaitPCs, B!Quitting, B!Opening, B!Closing, B!Waiting, B!Parking,
       B!Leaving
<1>4. StopInv'
  BY <1>0 DEF StopInv, B!Opening, Workers
<1>5. QuietInv'
  BY <1>0 DEF QuietInv
<1>6. BusyInv'
  BY <1>0 DEF BusyInv
<1>7. CounterInv'
  BY <1>0 DEF NotifyAbort, CounterInv
<1>8. DataInv'
  BY <1>0, <1>11 DEF DataInv
<1>9. KernelInv'
  <2>1. \A u \in Threads : ppc'[u] \notin {"clip", "convert"}
    BY <1>0 DEF StopInv, CalmPCs, Workers
  <2> QED
    BY <2>1, SizeFacts DEF KernelInv
<1>10. ResultInv'
  <2>1. Resting /\ Resting'
    BY <1>0, <1>11 DEF Resting
  <2>2. Blank
    BY <2>1, RestingBlank
  <2>3. Blank'
    BY <2>2 DEF Blank, NotifyAbort
  <2>4. StopInv' /\ QuietInv' /\ TypesInv' /\ Resting' => (ResultInv' <=> Blank')
    BY RestingBlank, PTL
  <2> QED
    BY <1>2, <1>4, <1>5, <2>1, <2>3, <2>4
<1> QED
  BY <1>1, <1>2, <1>3, <1>4, <1>5, <1>6, <1>7, <1>8, <1>9, <1>10

\* A thread in Wait.  Until an abort it is either not let go, or among those let go, and
\* leaves; or it lets everybody go, and then the task begins: nobody has been
\* counted yet and everybody is pending.
LEMMA InWaitStep ==
  ASSUME B!Narrow, ProcessorInv, NEW t \in Threads, InWait(t)
  PROVE  ProcessorInv'
<1> USE DEF ProcessorInv
<1>0. /\ pc[t] \in InWaitPCs /\ ppc[t] = "inWait" /\ aborted' = aborted
      /\ UNCHANGED <<created, mCounter, shared, kernel, result, request>>
      /\ \/ pc'[t] \in InWaitPCs /\ ppc' = ppc
         \/ /\ pc'[t] = "out" /\ ~aborted
            /\ ppc' = [ppc EXCEPT ![t] = IF t = 0 THEN "ownSlice" ELSE "testStop"]
         \/ /\ pc'[t] = "done" /\ aborted
            /\ ppc' = [ppc EXCEPT ![t] = IF t = 0 THEN "ownSlice" ELSE "testStop"]
      /\ \A u \in Threads \ {t} : pc'[u] = pc[u] \/ (pc[u] = "asleep" /\ pc'[u] = "woken")
      /\ pc'[t] \in B!Opening => pc[t] \in B!Opening \cup {"bump"}
  <2>1. "out" \notin InWaitPCs /\ "done" \notin InWaitPCs
    BY DEF InWaitPCs, B!Opening, B!Closing, B!Waiting, B!Parking, B!Leaving
  <2> QED
    BY <2>1, BarrierMoves DEF InWait, Goto
<1>01. \A u \in Threads : u # t => ppc'[u] = ppc[u]
  BY <1>0 DEF TypesInv
<1>02. aborted => t # 0
  BY <1>0 DEF StopInv
<1>1. B!IInv'
  BY BarrierStep DEF InWait
<1>11. Large' = Large
  BY <1>0 DEF Large
<1>12. aborted => ~CallerBusy /\ ~CallerBusy'
  <2> SUFFICES ASSUME aborted PROVE ~CallerBusy /\ ~CallerBusy'
    OBVIOUS
  <2>1. ~CallerBusy
    BY BusyFacts
  <2>2. ppc'[0] = ppc[0] /\ ppc[0] \in {"abort", "join", "idle"}
    BY <1>01, <1>02, SizeFacts DEF StopInv
  <2>3. pc[0] \notin InWaitPCs
    BY <2>2, SizeFacts DEF PlaceInv
  <2>4. pc'[0] \notin InWaitPCs
    BY <1>0, <1>02, <2>3, SizeFacts DEF InWaitPCs, B!Waiting
  <2>5. 0 \notin Freed'
    BY <2>4 DEF Freed, InWaitPCs, B!releasedBar, B!Inside
  <2> QED
    BY <2>1, <2>2, <2>5 DEF CallerBusy
\* The three things that may happen until an abort.
<1> DEFINE Leave == /\ t \in Freed /\ Freed' = Freed \ {t}
                    /\ ppc' = [ppc EXCEPT ![t] = IF t = 0 THEN "ownSlice" ELSE "testStop"]
                    /\ CallerBusy /\ CallerBusy' /\ Pending' = Pending
           Stay == /\ Freed' = Freed /\ ppc' = ppc
                   /\ (CallerBusy' <=> CallerBusy) /\ Pending' = Pending
           Open == /\ Freed = {} /\ Freed' = Threads /\ ppc' = ppc
                   /\ ~CallerBusy /\ CallerBusy' /\ Pending' = Workers
                   /\ \A u \in Threads : ppc[u] = "inWait"
<1>13. ~aborted => Leave \/ Stay \/ Open
  <2> SUFFICES ASSUME ~aborted PROVE Leave \/ Stay \/ Open
    OBVIOUS
  <2>1. "out" \notin InWaitPCs
    BY DEF InWaitPCs, B!Opening, B!Closing, B!Waiting, B!Parking, B!Leaving
  <2>2. CASE pc'[t] = "out" /\ t \in Freed /\ Freed' = Freed \ {t}
    <3>1. ppc' = [ppc EXCEPT ![t] = IF t = 0 THEN "ownSlice" ELSE "testStop"]
      BY <1>0, <2>1, <2>2
    <3>2. CallerBusy
      BY <2>2 DEF QuietInv
    <3>3. CallerBusy'
      <4>1. CASE t = 0
        BY <3>1, <4>1 DEF CallerBusy, TypesInv
      <4>2. CASE t # 0
        BY <1>01, <1>11, <2>2, <3>2, <4>2, SizeFacts DEF CallerBusy
      <4> QED
        BY <4>1, <4>2
    <3>4. Pending' = Pending
      <4>1. \A u \in Workers \ {t} : ppc'[u] = ppc[u]
        BY <1>01, SizeFacts
      <4>2. t \in Workers => ppc'[t] = "testStop"
        BY <3>1, SizeFacts DEF TypesInv
      <4> QED
        BY <2>2, <4>1, <4>2 DEF Pending, Working
    <3> QED
      BY <2>2, <3>1, <3>2, <3>3, <3>4
  <2>3. CASE pc'[t] # "out" /\ Freed' = Freed
    <3>1. ppc' = ppc
      BY <1>0, <2>3
    <3> QED
      BY <1>11, <2>3, <3>1 DEF CallerBusy, Pending
  <2>4. CASE /\ pc'[t] # "out" /\ Freed = {} /\ Freed' = Threads
             /\ \A u \in Threads : pc[u] \in InWaitPCs
    <3>1. ppc' = ppc /\ \A u \in Threads : ppc[u] = "inWait"
      BY <1>0, <2>4 DEF PlaceInv
    <3>2. ~CallerBusy /\ CallerBusy'
      BY <2>4, <3>1, SizeFacts DEF CallerBusy
    <3>3. Pending' = Workers
      BY <2>4, SizeFacts DEF Pending
    <3> QED
      BY <2>4, <3>1, <3>2, <3>3
  <2> QED
    BY <2>2, <2>3, <2>4, BarrierFrees DEF InWait
<1>2. TypesInv'
  <2>1. ppc' \in [Threads -> ProcessorPCs]
    BY <1>0 DEF TypesInv, ProcessorPCs
  <2>2. ppc'[0] \in CallerPCs /\ \A u \in Workers : ppc'[u] \in WorkerPCs
    BY <1>0, SizeFacts DEF TypesInv, CallerPCs, WorkerPCs
  <2> QED
    BY <1>0, <2>1, <2>2 DEF TypesInv, shared
<1>3. PlaceInv'
  <2>1. ASSUME NEW u \in Threads, u # t
        PROVE  /\ ppc'[u] = "inWait" <=> pc'[u] \in InWaitPCs
               /\ pc'[u] \in B!Quitting <=> u = 0 /\ ppc'[u] = "abort"
               /\ pc'[u] = "done" => aborted
    BY <1>0, <1>01, <2>1 DEF PlaceInv, InWaitPCs, B!Waiting, B!Quitting
  <2>2. /\ ppc'[t] = "inWait" <=> pc'[t] \in InWaitPCs
        /\ ~(pc'[t] \in B!Quitting) /\ ppc'[t] # "abort"
        /\ pc'[t] = "done" => aborted
    BY <1>0 DEF TypesInv, InWaitPCs, B!Quitting, B!Opening, B!Closing, B!Waiting, B!Parking,
         B!Leaving
  <2> QED
    BY <1>0, <2>1, <2>2 DEF PlaceInv
<1>4. StopInv'
  <2> SUFFICES ASSUME aborted PROVE StopInv'
    BY <1>0 DEF StopInv
  <2>1. ppc'[0] = ppc[0] /\ created' = created
    BY <1>0, <1>01, <1>02, SizeFacts
  <2>2. \A u \in Workers : ppc'[u] = ppc[u] \/ ppc'[u] = "testStop"
    BY <1>0, SizeFacts DEF TypesInv
  <2>3. \A u \in Threads : pc'[u] \notin B!Opening
    BY <1>0 DEF StopInv, B!IInv, B!SpacesAborted, B!Opening, B!Closing
  <2> QED
    BY <2>1, <2>2, <2>3 DEF StopInv
<1>5. QuietInv'
  <2> SUFFICES ASSUME ~aborted, ~CallerBusy' PROVE QuietInv'
    BY <1>0 DEF QuietInv
  <2>1. Stay
    BY <1>13
  <2> QED
    BY <2>1 DEF QuietInv
<1>6. BusyInv'
  <2> SUFFICES ASSUME ~aborted, CallerBusy' PROVE BusyInv'
    BY <1>0 DEF BusyInv
  <2>1. CASE Leave
    <3>1. \A u \in Workers : ppc'[u] = ppc[u] \/ ppc'[u] \in Working
      BY <2>1, SizeFacts DEF TypesInv, Working
    <3> QED
      BY <1>0, <2>1, <3>1 DEF BusyInv
  <2>2. CASE Stay
    BY <1>0, <2>2 DEF BusyInv
  <2>3. CASE Open
    <3>1. mCounter' = 0
      BY <1>0, <2>3, SizeFacts DEF CounterInv
    <3>2. Cardinality(Pending') = Size - 1
      BY <2>3, SizeFacts
    <3> QED
      BY <2>3, <3>1, <3>2, SizeFacts, ProcessorAssumption DEF BusyInv
  <2> QED
    BY <1>13, <2>1, <2>2, <2>3
<1>7. CounterInv'
  <2>1. ~aborted /\ ~CallerBusy' => Stay
    BY <1>13
  <2> QED
    BY <1>0, <2>1 DEF CounterInv
<1>8. DataInv'
  <2>1. Cursor(request.task)' = Cursor(request.task)
    BY <1>0 DEF shared, Cursor
  <2>2. ppc'[0] \notin {"idle", "spawn", "abort", "join"} =>
        ppc[0] \notin {"idle", "spawn", "abort", "join"}
    BY <1>0, <1>01, SizeFacts
  <2>3. ppc'[0] \in {"callWait", "inWait"} \/ CallerBusy' => ppc[0] \in {"callWait", "inWait"} \/ CallerBusy
    <3>1. CASE aborted
      BY <1>01, <1>02, <1>12, <3>1, SizeFacts
    <3>2. CASE ~aborted
      BY <1>13, <3>2, SizeFacts
    <3> QED
      BY <3>1, <3>2
  <2>4. ppc'[0] \in {"resetCounter", "setTask", "callWait", "inWait", "ownSlice", "await"} =>
        Large
    BY <1>0, <1>01, SizeFacts DEF DataInv
  <2> QED
    BY <1>0, <1>11, <2>1, <2>2, <2>3, <2>4 DEF DataInv, shared
<1>9. KernelInv'
  <2>1. \A u \in Threads : ppc'[u] \in {"clip", "convert"} => ppc'[u] = ppc[u]
    BY <1>0 DEF TypesInv
  <2> QED
    BY <1>0, <1>11, <2>1, SizeFacts DEF KernelInv
<1>10. ResultInv'
  <2>1. /\ \A u \in Threads : /\ (ppc'[u] = "convert" <=> ppc[u] = "convert")
                              /\ (ppc'[u] = "count" <=> ppc[u] = "count")
        /\ (ppc'[0] = "return" <=> ppc[0] = "return")
        /\ (ppc'[0] = "await" <=> ppc[0] = "await")
        /\ (ppc'[0] \in {"clip", "convert", "return"} <=> ppc[0] \in {"clip", "convert", "return"})
        /\ (ppc'[0] = "convert" <=> ppc[0] = "convert")
    BY <1>0, SizeFacts DEF TypesInv
  <2>2. SmallCall' <=> SmallCall
    BY <1>11, <2>1 DEF SmallCall
  <2>3. SmallFrontier' = SmallFrontier
    BY <1>0, <2>1 DEF SmallFrontier
  <2>4. \A u \in Workers : CallerBusy' /\ u \notin Pending' <=> CallerBusy /\ u \notin Pending
    BY <1>12, <1>13
  <2>5. ASSUME NEW u \in Threads PROVE Frontier(u)' = Frontier(u)
    <3>1. u # 0 => u \in Workers
      BY DEF Workers
    <3> QED
      BY <1>0, <2>1, <2>4, <3>1 DEF Frontier
  <2> QED
    BY <1>0, <2>2, <2>3, <2>5, ResultKept
<1> QED
  BY <1>1, <1>2, <1>3, <1>4, <1>5, <1>6, <1>7, <1>8, <1>9, <1>10

(***************************************************************************)
(* The theorems.                                                           *)
(***************************************************************************)
\* The initial states satisfy the invariant,
LEMMA ProcessorStarts == ASSUME Init PROVE ProcessorInv
<1> USE DEF Init
<1>1. B!IInv
  BY BarrierStart
<1>0. ~aborted /\ Freed = {} /\ ~CallerBusy /\ \A t \in Threads : pc[t] = "out"
  <2>1. ~aborted /\ \A t \in Threads : pc[t] = "out"
    BY DEF B!Init
  <2>2. Freed = {}
    BY <2>1 DEF Freed, B!releasedBar, B!Inside, B!Opening, B!Parking, B!Waiting, B!Leaving
  <2> QED
    BY <2>1, <2>2, SizeFacts DEF CallerBusy
<1>2. TypesInv
  <2>1. ppc \in [Threads -> ProcessorPCs] /\ ppc[0] \in CallerPCs
    BY SizeFacts DEF ProcessorPCs, CallerPCs
  <2>2. \A t \in Workers : ppc[t] \in WorkerPCs
    BY SizeFacts DEF WorkerPCs
  <2>3. kernel \in [Threads ->
                       [task : AllTasks \cup {"garbage"}, j : 0 .. BufferSize, end : 0 .. BufferSize]]
    BY ProcessorAssumption DEF NoKernel
  <2>4. request \in [task : AllTasks \cup {"garbage"}, size : 0 .. BufferSize]
    BY ProcessorAssumption DEF NoRequest
  <2>5. result \in [Slots -> (AllTasks \cup {"garbage"}) \X (0 .. 1)]
    BY DEF Untouched
  <2>6. created \in BOOLEAN
    BY Zenon
  <2>7. /\ mCounter = 0 /\ mTask = "garbage" /\ mSourceSize = 0
        /\ mFloatSourceCursor = 0 /\ mDoubleSourceCursor = 0
    BY Zenon
  <2> HIDE DEF Init
  <2> QED
    BY <2>1, <2>2, <2>3, <2>4, <2>5, <2>6, <2>7, ProcessorAssumption DEF TypesInv
<1>3. PlaceInv
  BY <1>0, SizeFacts DEF PlaceInv, InWaitPCs, B!Quitting, B!Opening, B!Closing, B!Waiting,
       B!Parking, B!Leaving
<1>4. StopInv /\ QuietInv /\ BusyInv
  BY <1>0, SizeFacts DEF StopInv, QuietInv, BusyInv, CalmPCs
<1>5. CounterInv /\ DataInv /\ KernelInv
  BY <1>0, SizeFacts, ProcessorAssumption DEF CounterInv, DataInv, KernelInv
<1>6. ResultInv
  <2>1. Resting /\ Blank
    BY <1>0, SizeFacts DEF Resting, Blank
  <2> QED
    BY <1>2, <1>4, <2>1, RestingBlank
<1> QED
  BY <1>1, <1>2, <1>3, <1>4, <1>5, <1>6 DEF ProcessorInv

\* and every step keeps it.
LEMMA ProcessorSteps == ASSUME B!Narrow, ProcessorInv, [Next]_vars PROVE ProcessorInv'
<1>1. CASE UNCHANGED vars
  <2>1. B!IInv' /\ Freed' = Freed
    BY <1>1, BarrierIdle DEF vars, ProcessorInv
  <2>2. CallerBusy' = CallerBusy /\ Pending' = Pending /\ Large' = Large
    BY <1>1, <2>1 DEF vars, CallerBusy, Pending, Large
  <2>3. TypesInv' /\ PlaceInv' /\ StopInv'
    BY <1>1 DEF vars, barrier, shared, ProcessorInv, TypesInv, PlaceInv, StopInv
  <2>4. QuietInv' /\ BusyInv' /\ CounterInv'
    BY <1>1, <2>1, <2>2 DEF vars, barrier, ProcessorInv, QuietInv, BusyInv, CounterInv
  <2>5. DataInv' /\ KernelInv'
    BY <1>1, <2>2 DEF vars, shared, ProcessorInv, DataInv, KernelInv, Cursor
  <2>6. ResultInv'
    <3>1. (SmallCall' <=> SmallCall) /\ SmallFrontier' = SmallFrontier
      BY <1>1, <2>2 DEF vars, SmallCall, SmallFrontier
    <3>2. \A t \in Threads : Frontier(t)' = Frontier(t)
      BY <1>1, <2>2 DEF vars, Frontier
    <3> QED
      BY <1>1, <3>1, <3>2, ResultKept DEF vars, ProcessorInv
  <2> QED
    BY <2>1, <2>3, <2>4, <2>5, <2>6 DEF ProcessorInv
<1>2. CASE GetInstance
  BY <1>2, GetInstanceStep
<1>3. CASE \E task \in Tasks, size \in BlockSizes : Call(task, size)
  BY <1>3, CallStep
<1>4. CASE SetStop
  BY <1>4, SetStopStep
<1>5. CASE CallerStep
  <2>1. \A t \in Workers : SpawnWorker(t) => ProcessorInv'
    BY SpawnWorkerStep, SizeFacts
  <2> QED
    BY <1>5, <2>1, ResetCounterStep, SetTaskStep, OwnSliceStep, WaitTaskCompleteStep, ReturnStep,
       NotifyAbortStep, JoinAndDeleteStep DEF CallerStep
<1>6. CASE \E t \in Threads : ThreadStep(t) \/ SpuriousWakeup(t)
  BY <1>6, CallWaitStep, InWaitStep, ClipStep, ConvertStep, SpuriousWakeupStep DEF ThreadStep
<1>7. CASE \E t \in Workers : WorkerStep(t)
  BY <1>7, TestStopStep, SwitchTaskStep, CountDoneStep DEF WorkerStep
<1> QED
  BY <1>1, <1>2, <1>3, <1>4, <1>5, <1>6, <1>7 DEF Next

\* In every reachable state of the processor and its barrier, for any number of
\* threads, slices and blocks, with or without terminations: ProcessorInv.
THEOREM ProcessorInvariant == ASSUME B!Narrow PROVE Spec => []ProcessorInv
<1>1. Init => ProcessorInv
  BY ProcessorStarts
<1>2. ProcessorInv /\ [Next]_vars => ProcessorInv'
  BY ProcessorSteps
<1> QED
  BY <1>1, <1>2, PTL DEF Spec

\* Types, and mCounter never exceeds the workers there are.
THEOREM ProcessorTypes == ASSUME B!Narrow PROVE Spec => []TypeOK
<1>1. ProcessorInv => TypeOK
  <2> SUFFICES ASSUME ProcessorInv PROVE TypeOK
    OBVIOUS
  <2>1. mCounter \in 0 .. (Size - 1)
    BY ProcessorAssumption DEF ProcessorInv, TypesInv, CounterInv
  <2> QED
    BY <2>1 DEF ProcessorInv, B!IInv, TypesInv, TypeOK
<1> QED
  BY <1>1, ProcessorInvariant, PTL

\* Every call returns with its whole block converted, by its own task and from its
\* own source, and nothing else touched.
THEOREM ProcessorConverts == ASSUME B!Narrow PROVE Spec => []CompleteResult
<1>1. ProcessorInv => CompleteResult
  <2> SUFFICES ASSUME ProcessorInv, ppc[0] = "return", NEW s \in Slots
               PROVE  result[s] = IF s < request.size THEN <<request.task, 1>> ELSE Untouched
    BY DEF CompleteResult
  <2>1. CASE SmallCall
    BY <2>1 DEF ProcessorInv, ResultInv, SmallFrontier, Converted
  <2>2. CASE ~SmallCall
    <3>1. PICK t \in Threads : s \in Slice(t)
      BY SlicesCover
    <3>2. ~aborted /\ ~CallerBusy
      BY FreedWait, SizeFacts DEF ProcessorInv, StopInv, CallerBusy, PlaceInv
    <3>3. ppc[t] # "convert"
      BY <3>2 DEF ProcessorInv, QuietInv, CalmPCs, Workers
    <3>4. Frontier(t) = MyEnd(t)
      BY <3>3 DEF Frontier
    <3>5. s < Frontier(t)
      BY <3>1, <3>4, SliceFacts DEF Slice
    <3> QED
      BY <2>2, <3>1, <3>5 DEF ProcessorInv, ResultInv, Converted
  <2> QED
    BY <2>1, <2>2
<1> QED
  BY <1>1, ProcessorInvariant, PTL

\* While the caller writes the shared members no worker is past the barrier.
THEOREM ProcessorOwns == ASSUME B!Narrow PROVE Spec => []WorkersQuiescent
<1>1. ProcessorInv => WorkersQuiescent
  <2> SUFFICES ASSUME ProcessorInv, created,
                      ppc[0] \in CallerOwns \/ (ppc[0] \in {"clip", "convert"} /\ request.size < Threshold),
                      NEW t \in Workers
               PROVE  ppc[t] \in {"unborn", "callWait", "inWait"}
    BY DEF WorkersQuiescent
  <2>1. ~Large \/ ppc[0] \in CallerOwns
    BY ProcessorAssumption DEF Large, ProcessorInv, TypesInv
  <2>2. ~CallerBusy
    BY <2>1, FreedWait, SizeFacts DEF CallerBusy, CallerOwns, ProcessorInv, PlaceInv
  <2>3. ~aborted
    BY DEF CallerOwns, ProcessorInv, StopInv
  <2> QED
    BY <2>2, <2>3 DEF ProcessorInv, QuietInv, CalmPCs
<1> QED
  BY <1>1, ProcessorInvariant, PTL

\* No two threads convert the same element.
THEOREM ProcessorSlots == ASSUME B!Narrow PROVE Spec => []DistinctSlots
<1>1. ProcessorInv => DistinctSlots
  <2> SUFFICES ASSUME ProcessorInv, NEW t \in Threads, NEW u \in Threads, t # u,
                      ppc[t] = "convert", ppc[u] = "convert"
               PROVE  kernel[t].j # kernel[u].j
    BY DEF DistinctSlots
  <2>1. Large
    BY KernelFacts
  <2>2. ASSUME NEW v \in Threads, ppc[v] = "convert" PROVE kernel[v].j \in Slice(v)
    <3>1. /\ MyStart(v) <= kernel[v].j /\ kernel[v].j < kernel[v].end
          /\ kernel[v].end = Smaller(MyEnd(v), request.size)
      BY <2>1, <2>2 DEF ProcessorInv, KernelInv
    <3>2. kernel[v].j \in Nat /\ request.size \in Nat
      BY ProcessorAssumption DEF ProcessorInv, TypesInv
    <3> QED
      BY <3>1, <3>2, SliceFacts DEF Slice, Smaller
  <2> QED
    BY <2>2, SlicesDisjoint
<1> QED
  BY <1>1, ProcessorInvariant, PTL

\* Nobody swaps the condition variables while another thread reads which of them
\* is current without the lock.
THEOREM ProcessorConPointer == ASSUME B!Narrow PROVE Spec => []ConPointerNotRaced
<1>1. ProcessorInv => ConPointerNotRaced
  <2> SUFFICES ASSUME ProcessorInv, NEW t \in Threads, pc[t] \in {"abortNotify", "tellAbort"},
                      NEW u \in Threads
               PROVE  pc[u] \notin {"swap"} \cup B!Closing
    BY DEF ConPointerNotRaced
  <2>1. aborted
    BY DEF ProcessorInv, B!IInv, B!SnapshotInv, B!Quitting
  <2> QED
    BY <2>1 DEF ProcessorInv, B!IInv, B!SpacesAborted, StopInv, B!Opening
<1> QED
  BY <1>1, ProcessorInvariant, PTL

=============================================================================
