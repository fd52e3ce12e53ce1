----------------------- MODULE ParallelFloatProcessor -----------------------
(***************************************************************************)
(* ParallelFloatProcessor (internal/parallelFloatProcessor.h and .cpp):    *)
(* one main thread hands blocks of floats or doubles to Size - 1 workers,  *)
(* which meet it at a MixedBarrier, convert their slices of the block and  *)
(* report back by counting in mCounter.                                    *)
(*                                                                         *)
(* Thread 0 is the caller of the processor; thread p + 1 is the worker     *)
(* with pid p.  ppc[t] is what thread t does next; while it is "inWait" it *)
(* takes the steps of the barrier.  No lock protects mTask, mSourceSize,   *)
(* the cursors and the buffers: only the protocol does.                    *)
(***************************************************************************)
EXTENDS Integers, FiniteSets

CONSTANTS
  Size,               \* threads that convert, the caller included (4 in the code)
  BufferSize,         \* SERIALISATION_FLOAT_BUFFER_SIZE
  Threshold,          \* blocks below this are converted by the caller alone
  BlockSizes,         \* sizes of the blocks the callers hand over
  Tasks,              \* the tasks they ask for
  MayTerminate,       \* whether TerminateWorkers is ever called
  GenerationModulus, SnapshotModulus, InitialGenerations    \* of the barrier

Threads == 0 .. (Size - 1)
Workers == Threads \ {0}
Slots == 0 .. (BufferSize - 1)
AllTasks == {"SerFloats", "SerDoubles", "DeserFloats", "DeserDoubles"}

ASSUME ProcessorAssumption ==
  /\ Size \in Nat /\ Size >= 2
  /\ BufferSize \in Nat /\ BufferSize > 0
  /\ BufferSize % Size = 0
  /\ Threshold \in Nat
  /\ BlockSizes \subseteq 0 .. BufferSize
  /\ Tasks \subseteq AllTasks

ASSUME BarrierAssumption ==
  /\ MayTerminate \in BOOLEAN
  /\ GenerationModulus \in Nat /\ GenerationModulus >= 3
  /\ SnapshotModulus \in Nat /\ SnapshotModulus >= 3
  /\ InitialGenerations \subseteq 0 .. (GenerationModulus - 1)

VARIABLES
  aborted, mSpaces, mGeneration, mCurrentCon, mCondVarMutex, pc,
  myGeneration, con,    \* the barrier; aborted is mStop
  created,              \* sProcessor is not null
  mCounter,             \* workers that have finished the current task
  mTask,                \* "garbage" until the first StartTask
  mSourceSize,
  mFloatSourceCursor, mDoubleSourceCursor,   \* 1: the block of the call in
                        \* progress; 0: nullptr, or a block of an earlier call
  ppc,
  kernel,               \* the kernel a thread runs, and where it is
  result,               \* what the current call left in each destination slot
  request               \* what the caller asked for (history)

barrier == <<aborted, mSpaces, mGeneration, mCurrentCon, mCondVarMutex, pc,
             myGeneration, con>>
shared == <<mTask, mSourceSize, mFloatSourceCursor, mDoubleSourceCursor>>
vars == <<barrier, created, mCounter, shared, ppc, kernel, result, request>>

B == INSTANCE MixedBarrier WITH Controller <- 0, NoThread <- -1, MayAbort <- MayTerminate

(***************************************************************************)
(* Slices and kernels.                                                     *)
(***************************************************************************)
MyStart(t) == (t * BufferSize) \div Size
\* Slips: a slice that ends one element early, or one late.
MyEnd_Short(t) == MyStart(t) + BufferSize \div Size - 1
MyEnd_Long(t) == MyStart(t) + BufferSize \div Size + 1

MyEnd(t) == MyStart(t) + BufferSize \div Size

IsFloatTask(task) == task \in {"SerFloats", "DeserFloats"}

Cursor(task) == IF IsFloatTask(task) THEN mFloatSourceCursor ELSE mDoubleSourceCursor

NoKernel == [task |-> "garbage", j |-> 0, end |-> 0]

NoRequest == [task |-> "garbage", size |-> 0]

Untouched == <<"garbage", 0>>

Smaller(a, b) == IF a < b THEN a ELSE b

Goto(t, l) == ppc' = [ppc EXCEPT ![t] = l]

\* Where a thread goes when its kernel is over: a worker counts itself, the
\* caller waits for the others if it has called them.
AfterKernel(t) == IF t # 0 THEN "count"
                  ELSE IF request.size < Threshold THEN "return" ELSE "await"

Init ==
  /\ B!Init
  /\ created = FALSE
  /\ mCounter = 0
  /\ mTask = "garbage"
  /\ mSourceSize = 0
  /\ mFloatSourceCursor = 0
  /\ mDoubleSourceCursor = 0
  /\ ppc = [t \in Threads |-> IF t = 0 THEN "idle" ELSE "unborn"]
  /\ kernel = [t \in Threads |-> NoKernel]
  /\ result = [s \in Slots |-> Untouched]
  /\ request = NoRequest

(***************************************************************************)
(* The instance: GetInstance(size) constructs it, the constructor starts   *)
(* the workers one by one.                                                 *)
(***************************************************************************)
NewBarrier ==
  /\ aborted' = FALSE
  /\ mSpaces' = Size
  /\ mGeneration' \in InitialGenerations
  /\ mCurrentCon' = 1
  /\ mCondVarMutex' = -1
  /\ pc' = [t \in Threads |-> "out"]
  /\ myGeneration' = [t \in Threads |-> 0]
  /\ con' = [t \in Threads |-> 1]

GetInstance ==
  /\ ppc[0] = "idle"
  /\ ~created
  /\ created' = TRUE
  /\ NewBarrier
  /\ mCounter' = 0
  /\ mTask' = "garbage"
  /\ mSourceSize' = 0
  /\ mFloatSourceCursor' = 0
  /\ mDoubleSourceCursor' = 0
  /\ ppc' = [t \in Threads |-> IF t = 0 THEN "spawn" ELSE "unborn"]
  /\ UNCHANGED <<kernel, result, request>>

SpawnWorker(t) ==
  /\ ppc[0] = "spawn"
  /\ t \in Workers /\ ppc[t] = "unborn"
  /\ \A u \in 1 .. (t - 1) : ppc[u] # "unborn"
  /\ ppc' = [ppc EXCEPT ![t] = "callWait", ![0] = IF t = Size - 1 THEN "idle" ELSE @]
  /\ UNCHANGED <<barrier, created, mCounter, shared, kernel, result, request>>

(***************************************************************************)
(* SerialiseFloats and its three siblings, by the caller.                  *)
(***************************************************************************)
Call(task, size) ==
  /\ ppc[0] = "idle"
  /\ created
  /\ IF IsFloatTask(task)
     THEN mFloatSourceCursor' = 1 /\ UNCHANGED mDoubleSourceCursor
     ELSE mDoubleSourceCursor' = 1 /\ UNCHANGED mFloatSourceCursor
  /\ mSourceSize' = size
  /\ request' = [task |-> task, size |-> size]
  /\ IF size < Threshold
     THEN /\ kernel' = [kernel EXCEPT ![0] = [task |-> task, j |-> 0, end |-> size]]
          /\ Goto(0, "clip")
     ELSE /\ Goto(0, "resetCounter")
          /\ UNCHANGED kernel
  /\ UNCHANGED <<barrier, created, mCounter, mTask, result>>

\* Slip: the counter of the last task is not reset.
ResetCounter_Forgotten ==
  /\ ppc[0] = "resetCounter"
  /\ Goto(0, "setTask")
  /\ UNCHANGED <<barrier, created, mCounter, shared, kernel, result, request>>

\* StartTask: reset the counter, publish the task, meet the workers.
ResetCounter ==
  /\ ppc[0] = "resetCounter"
  /\ mCounter' = 0
  /\ Goto(0, "setTask")
  /\ UNCHANGED <<barrier, created, shared, kernel, result, request>>

SetTask ==
  /\ ppc[0] = "setTask"
  /\ mTask' = request.task
  /\ Goto(0, "callWait")
  /\ UNCHANGED <<barrier, created, mCounter, mSourceSize, mFloatSourceCursor,
                 mDoubleSourceCursor, kernel, result, request>>

\* mBarrier.Wait(mStop), by the caller or by a worker.
CallWait(t) ==
  /\ ppc[t] = "callWait"
  /\ B!Enter(t)
  /\ Goto(t, "inWait")
  /\ UNCHANGED <<created, mCounter, shared, kernel, result, request>>

InWait(t) ==
  /\ ppc[t] = "inWait"
  /\ B!WaitStep(t)
  /\ IF pc'[t] \in {"out", "done"}
     THEN Goto(t, IF t = 0 THEN "ownSlice" ELSE "testStop")
     ELSE UNCHANGED ppc
  /\ UNCHANGED <<created, mCounter, shared, kernel, result, request>>

SpuriousWakeup(t) ==
  /\ B!SpuriousWakeup(t)
  /\ UNCHANGED <<created, mCounter, shared, ppc, kernel, result, request>>

\* The caller converts its own slice, 0 .. mMainEnd - 1.
OwnSlice ==
  /\ ppc[0] = "ownSlice"
  /\ kernel' = [kernel EXCEPT ![0] = [task |-> request.task, j |-> MyStart(0), end |-> MyEnd(0)]]
  /\ Goto(0, "clip")
  /\ UNCHANGED <<barrier, created, mCounter, shared, result, request>>

\* Slips: waits for one worker too few, or for none.
WaitTaskComplete_OneLess ==
  /\ ppc[0] = "await"
  /\ mCounter >= Size - 2
  /\ Goto(0, "return")
  /\ UNCHANGED <<barrier, created, mCounter, shared, kernel, result, request>>

WaitTaskComplete_Skipped ==
  /\ ppc[0] = "await"
  /\ Goto(0, "return")
  /\ UNCHANGED <<barrier, created, mCounter, shared, kernel, result, request>>

WaitTaskComplete ==
  /\ ppc[0] = "await"
  /\ mCounter >= Size - 1
  /\ Goto(0, "return")
  /\ UNCHANGED <<barrier, created, mCounter, shared, kernel, result, request>>

\* The call returns: the block is the caller's again, and what the cursor
\* points at is from now on the block of an earlier call.
Return ==
  /\ ppc[0] = "return"
  /\ mFloatSourceCursor' = 0
  /\ mDoubleSourceCursor' = 0
  /\ kernel' = [kernel EXCEPT ![0] = NoKernel]
  /\ result' = [s \in Slots |-> Untouched]
  /\ request' = NoRequest
  /\ Goto(0, "idle")
  /\ UNCHANGED <<barrier, created, mCounter, mTask, mSourceSize>>

(***************************************************************************)
(* The worker's loop.                                                      *)
(***************************************************************************)
\* Slip: the loop never looks at mStop.
TestStop_Ignored(t) ==
  /\ ppc[t] = "testStop"
  /\ Goto(t, "switch")
  /\ UNCHANGED <<barrier, created, mCounter, shared, kernel, result, request>>

TestStop(t) ==
  /\ ppc[t] = "testStop"
  /\ Goto(t, IF aborted THEN "ended" ELSE "switch")
  /\ UNCHANGED <<barrier, created, mCounter, shared, kernel, result, request>>

\* switch (mTask); a value that is no task is skipped.
SwitchTask(t) ==
  /\ ppc[t] = "switch"
  /\ IF mTask \in AllTasks
     THEN /\ kernel' = [kernel EXCEPT ![t] = [task |-> mTask, j |-> MyStart(t), end |-> MyEnd(t)]]
          /\ Goto(t, "clip")
     ELSE /\ Goto(t, "count")
          /\ UNCHANGED kernel
  /\ UNCHANGED <<barrier, created, mCounter, shared, result, request>>

\* Slip: a worker forgets to count itself.
CountDone_Forgotten(t) ==
  /\ ppc[t] = "count"
  /\ kernel' = [kernel EXCEPT ![t] = NoKernel]
  /\ Goto(t, "callWait")
  /\ UNCHANGED <<barrier, created, mCounter, shared, result, request>>

CountDone(t) ==
  /\ ppc[t] = "count"
  /\ mCounter' = mCounter + 1
  /\ kernel' = [kernel EXCEPT ![t] = NoKernel]
  /\ Goto(t, "callWait")
  /\ UNCHANGED <<barrier, created, shared, result, request>>

(***************************************************************************)
(* A kernel (WorkerSerialiseFloat, ...), by the caller or by a worker.     *)
(***************************************************************************)
\* end = std::min(end, mSourceSize), and nothing to do for an empty slice.
Clip(t) ==
  /\ ppc[t] = "clip"
  /\ LET e == Smaller(kernel[t].end, mSourceSize) IN
       /\ kernel' = [kernel EXCEPT ![t].end = e]
       /\ Goto(t, IF e <= kernel[t].j THEN AfterKernel(t) ELSE "convert")
  /\ UNCHANGED <<barrier, created, mCounter, shared, result, request>>

\* dest[j] = job(source[j]).
Convert(t) ==
  /\ ppc[t] = "convert"
  /\ LET k == kernel[t] IN
       /\ result' = [result EXCEPT ![k.j] = <<k.task, Cursor(k.task)>>]
       /\ kernel' = [kernel EXCEPT ![t].j = @ + 1]
       /\ Goto(t, IF k.j + 1 < k.end THEN "convert" ELSE AfterKernel(t))
  /\ UNCHANGED <<barrier, created, mCounter, shared, request>>

(***************************************************************************)
(* TerminateWorkers: stop, notify, join every worker, delete.              *)
(***************************************************************************)
SetStop ==
  /\ ppc[0] = "idle"
  /\ created
  /\ B!SetAborted(0)
  /\ Goto(0, "abort")
  /\ UNCHANGED <<created, mCounter, shared, kernel, result, request>>

NotifyAbort ==
  /\ ppc[0] = "abort"
  /\ B!AbortStep(0)
  /\ Goto(0, IF pc'[0] = "done" THEN "join" ELSE "abort")
  /\ UNCHANGED <<created, mCounter, shared, kernel, result, request>>

JoinAndDelete ==
  /\ ppc[0] = "join"
  /\ \A t \in Workers : ppc[t] = "ended"
  /\ created' = FALSE
  /\ Goto(0, "idle")
  /\ UNCHANGED <<barrier, mCounter, shared, kernel, result, request>>

CallerStep ==
  \/ ResetCounter
  \/ SetTask
  \/ OwnSlice
  \/ WaitTaskComplete
  \/ Return
  \/ NotifyAbort
  \/ JoinAndDelete
  \/ \E t \in Workers : SpawnWorker(t)

ThreadStep(t) ==
  \/ CallWait(t)
  \/ InWait(t)
  \/ Clip(t)
  \/ Convert(t)

WorkerStep(t) ==
  \/ TestStop(t)
  \/ SwitchTask(t)
  \/ CountDone(t)

Next ==
  \/ GetInstance
  \/ \E task \in Tasks, size \in BlockSizes : Call(task, size)
  \/ SetStop
  \/ CallerStep
  \/ \E t \in Threads : ThreadStep(t) \/ SpuriousWakeup(t)
  \/ \E t \in Workers : WorkerStep(t)

Spec == Init /\ [][Next]_vars

(***************************************************************************)
(* Every thread that can move does; the caller need not call anything; the *)
(* spurious wakeups come to an end (see MixedBarrier).                     *)
(***************************************************************************)
FairSpec ==
  /\ Spec
  /\ WF_vars(CallerStep)
  /\ \A t \in Threads : WF_vars(ThreadStep(t))
  /\ \A t \in Workers : WF_vars(WorkerStep(t))
  /\ <>[][\A t \in Threads : ~SpuriousWakeup(t)]_vars

(***************************************************************************)
(* Properties.                                                             *)
(***************************************************************************)
ProcessorPCs == {"idle", "unborn", "spawn", "clip", "convert", "count", "return",
                 "await", "resetCounter", "setTask", "callWait", "inWait",
                 "ownSlice", "testStop", "switch", "ended", "abort", "join"}

\* mCounter never exceeds the workers there are: no worker counts itself twice
\* for one task.
TypeOK ==
  /\ B!TypeOK
  /\ created \in BOOLEAN
  /\ mCounter \in 0 .. (Size - 1)
  /\ mTask \in AllTasks \cup {"garbage"}
  /\ mSourceSize \in 0 .. BufferSize
  /\ mFloatSourceCursor \in 0 .. 1
  /\ mDoubleSourceCursor \in 0 .. 1
  /\ ppc \in [Threads -> ProcessorPCs]
  /\ kernel \in [Threads -> [task : AllTasks \cup {"garbage"},
                             j : 0 .. BufferSize, end : 0 .. BufferSize]]

\* When a call returns, every element of its block, and nothing else, has been
\* converted with the task and from the source of this very call, whatever
\* threads it took (parallelFloatProcessor.cpp:237-303).
CompleteResult ==
  ppc[0] = "return" =>
    \A s \in Slots :
      result[s] = IF s < request.size THEN <<request.task, 1>> ELSE Untouched

\* While the caller is not inside StartTask .. WaitTaskComplete no worker is past
\* the barrier, so that the plain members the caller then writes (mSourceSize,
\* the cursors, mTask) and the buffers it hands out are its own.
CallerOwns == {"idle", "spawn", "resetCounter", "setTask", "callWait", "return"}

WorkersQuiescent ==
  (ppc[0] \in CallerOwns \/ (ppc[0] \in {"clip", "convert"} /\ request.size < Threshold))
     => \A t \in Workers : ~created \/ ppc[t] \in {"unborn", "callWait", "inWait"}

\* No two threads work on the same slot (parallelFloatProcessor.cpp:184, 190-191).
DistinctSlots ==
  \A t, u \in Threads :
    t # u /\ ppc[t] = "convert" /\ ppc[u] = "convert" => kernel[t].j # kernel[u].j

\* NotifyAbort and the end of Wait read mCurrentCon without the lock
\* (barrier.h:104-107, 110-112): never while another thread is about to swap it.
ConPointerNotRaced ==
  (\E t \in Threads : pc[t] \in {"abortNotify", "tellAbort"})
     => \A u \in Threads : pc[u] \notin {"swap"} \cup B!Closing

\* Every call returns.
InCall == {"clip", "convert", "resetCounter", "setTask", "callWait", "inWait",
           "ownSlice", "await", "return"}
CallReturns == ppc[0] \in InCall ~> ppc[0] = "idle"

\* TerminateWorkers returns, provided no worker is caught between the test of
\* mStop and its sleep when the flag is set (see MixedBarrier!AbortFrees).
TerminationCompletes ==
  (pc[0] = "abortNotify" /\ \A t \in Workers : pc[t] # "sleep") ~> (ppc[0] = "idle" /\ ~created)
=============================================================================
