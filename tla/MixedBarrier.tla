---------------------------- MODULE MixedBarrier ----------------------------
(***************************************************************************)
(* MixedBarrier (internal/barrier.h) and the SpinLock it holds: a reusable *)
(* barrier that spins for a while on a generation number and then sleeps   *)
(* on one of two condition variables, which swap roles at every release.   *)
(*                                                                         *)
(* One action is one access to shared memory.  pc[t] is the access thread  *)
(* t does next inside Wait; "out" is a thread outside the barrier and      *)
(* "done" one that has stopped using it: it returned from Wait with        *)
(* `aborted' set, or it is the controller after NotifyAbort.               *)
(*                                                                         *)
(* The client is the one the class is written for (ParallelFloatProcessor):*)
(* every thread calls Wait again and again; one of them, the Controller,   *)
(* may set `aborted' between two of its own calls, call NotifyAbort and    *)
(* never Wait again.                                                       *)
(***************************************************************************)
EXTENDS Integers, FiniteSets

CONSTANTS
  Threads,            \* the threads that meet at the barrier (mMax of them)
  Controller,         \* the thread that may abort
  NoThread,           \* the lock is free
  MayAbort,           \* whether this client ever aborts
  GenerationModulus,  \* mGeneration (atomic_uint_fast32_t) counts modulo this
  SnapshotModulus,    \* myGeneration (uint32_t) keeps a value modulo this
  InitialGenerations  \* what the uninitialised mGeneration may hold at first

ASSUME ThreadsAssumption ==
  /\ IsFiniteSet(Threads)
  /\ Controller \in Threads
  /\ NoThread \notin Threads
  /\ Cardinality(Threads) >= 2

ASSUME AbortAssumption == MayAbort \in BOOLEAN

ASSUME GenerationAssumption ==
  /\ GenerationModulus \in Nat /\ GenerationModulus >= 3
  /\ SnapshotModulus \in Nat /\ SnapshotModulus >= 3
  /\ InitialGenerations \subseteq 0 .. (GenerationModulus - 1)

VARIABLES
  aborted,        \* the atomic_bool that every caller passes by reference
  mSpaces,        \* arrivals still missing in this generation
  mGeneration,    \* how often the barrier has opened
  mCurrentCon,    \* 1 or 2: the variable to sleep on; mPreviousCon is the other
  mCondVarMutex,  \* holder of the spin lock
  pc,             \* next access of each thread
  myGeneration,   \* its snapshot
  con             \* the condition variable it sleeps on

vars == <<aborted, mSpaces, mGeneration, mCurrentCon, mCondVarMutex,
          pc, myGeneration, con>>

mMax == Cardinality(Threads)

Generations == 0 .. (GenerationModulus - 1)

NextGeneration(g) == IF g + 1 = GenerationModulus THEN 0 ELSE g + 1

\* Whether uint_fast32_t is no wider than the uint32_t that keeps a snapshot of it.
Narrow == GenerationModulus <= SnapshotModulus

\* Storing the generation in the snapshot.
Truncate(g) == IF Narrow THEN g ELSE g % SnapshotModulus

Other(c) == 3 - c

(***************************************************************************)
(* Program points.                                                         *)
(***************************************************************************)
Closing == {"refill", "lockBump", "bump"}           \* the last arrival, before the bump
Opening == {"swap", "notify", "unlockBump"}         \* the same thread, after it
Parking == {"testGen", "testAbort", "sleep", "unlockPark"}
Waiting == {"spin", "lockPark", "asleep", "woken"} \cup Parking
Leaving == {"checkAbort", "tellAbort"}
Quitting == {"abortNotify", "abortBump"}
PCs == {"out", "dec", "done"} \cup Closing \cup Opening \cup Waiting
         \cup Leaving \cup Quitting

Goto(t, l) == pc' = [pc EXCEPT ![t] = l]

\* notify_all on condition variable c by thread t, which goes on at l.
NotifyAll(t, c, l) ==
  pc' = [u \in Threads |-> IF u = t THEN l
                           ELSE IF pc[u] = "asleep" /\ con[u] = c THEN "woken"
                           ELSE pc[u]]

\* SpinLock: exchange on an atomic flag until it was clear.
Acquire(t) ==
  /\ mCondVarMutex = NoThread
  /\ mCondVarMutex' = t

Release == mCondVarMutex' = NoThread

Init ==
  /\ aborted = FALSE
  /\ mSpaces = mMax
  /\ mGeneration \in InitialGenerations
  /\ mCurrentCon = 1
  /\ mCondVarMutex = NoThread
  /\ pc = [t \in Threads |-> "out"]
  /\ myGeneration = [t \in Threads |-> 0]
  /\ con = [t \in Threads |-> 1]

(***************************************************************************)
(* Wait, the thread that is not the last one.                              *)
(***************************************************************************)
Enter(t) ==
  /\ pc[t] = "out"
  /\ myGeneration' = [myGeneration EXCEPT ![t] = Truncate(mGeneration)]
  /\ Goto(t, "dec")
  /\ UNCHANGED <<aborted, mSpaces, mGeneration, mCurrentCon, mCondVarMutex, con>>

\* Slip: takes the last but one arrival for the last.
Decrement_OpensEarly(t) ==
  /\ pc[t] = "dec"
  /\ mSpaces' = mSpaces - 1
  /\ Goto(t, IF mSpaces = 2 THEN "refill" ELSE "spin")
  /\ UNCHANGED <<aborted, mGeneration, mCurrentCon, mCondVarMutex, myGeneration, con>>

Decrement(t) ==
  /\ pc[t] = "dec"
  /\ mSpaces' = mSpaces - 1
  /\ Goto(t, IF mSpaces = 1 THEN "refill" ELSE "spin")
  /\ UNCHANGED <<aborted, mGeneration, mCurrentCon, mCondVarMutex, myGeneration, con>>

\* The spin loop ends because the generation changed ...
SpinLeave(t) ==
  /\ pc[t] = "spin"
  /\ mGeneration # myGeneration[t]
  /\ Goto(t, "checkAbort")
  /\ UNCHANGED <<aborted, mSpaces, mGeneration, mCurrentCon, mCondVarMutex, myGeneration, con>>

\* ... or because it ran 16000 times, the last time still in the old one.
SpinGiveUp(t) ==
  /\ pc[t] = "spin"
  /\ mGeneration = myGeneration[t]
  /\ Goto(t, "lockPark")
  /\ UNCHANGED <<aborted, mSpaces, mGeneration, mCurrentCon, mCondVarMutex, myGeneration, con>>

\* Takes the lock and evaluates mCurrentCon, the object wait is called on.
LockPark(t) ==
  /\ pc[t] = "lockPark"
  /\ Acquire(t)
  /\ con' = [con EXCEPT ![t] = mCurrentCon]
  /\ Goto(t, "testGen")
  /\ UNCHANGED <<aborted, mSpaces, mGeneration, mCurrentCon, myGeneration>>

\* The predicate of wait: mGeneration != myGeneration || aborted.
TestGeneration(t) ==
  /\ pc[t] = "testGen"
  /\ Goto(t, IF mGeneration # myGeneration[t] THEN "unlockPark" ELSE "testAbort")
  /\ UNCHANGED <<aborted, mSpaces, mGeneration, mCurrentCon, mCondVarMutex, myGeneration, con>>

\* Slip: the predicate of wait leaves out `aborted'.
TestAbort_Ignored(t) ==
  /\ pc[t] = "testAbort"
  /\ Goto(t, "sleep")
  /\ UNCHANGED <<aborted, mSpaces, mGeneration, mCurrentCon, mCondVarMutex, myGeneration, con>>

TestAbort(t) ==
  /\ pc[t] = "testAbort"
  /\ Goto(t, IF aborted THEN "unlockPark" ELSE "sleep")
  /\ UNCHANGED <<aborted, mSpaces, mGeneration, mCurrentCon, mCondVarMutex, myGeneration, con>>

\* condition_variable_any::wait unlocks and blocks in one step.
Sleep(t) ==
  /\ pc[t] = "sleep"
  /\ Release
  /\ Goto(t, "asleep")
  /\ UNCHANGED <<aborted, mSpaces, mGeneration, mCurrentCon, myGeneration, con>>

SpuriousWakeup(t) ==
  /\ pc[t] = "asleep"
  /\ Goto(t, "woken")
  /\ UNCHANGED <<aborted, mSpaces, mGeneration, mCurrentCon, mCondVarMutex, myGeneration, con>>

Relock(t) ==
  /\ pc[t] = "woken"
  /\ Acquire(t)
  /\ Goto(t, "testGen")
  /\ UNCHANGED <<aborted, mSpaces, mGeneration, mCurrentCon, myGeneration, con>>

\* (con[t] has served; it and the snapshot are cleared when they go out of scope.)
UnlockPark(t) ==
  /\ pc[t] = "unlockPark"
  /\ Release
  /\ con' = [con EXCEPT ![t] = 1]
  /\ Goto(t, "checkAbort")
  /\ UNCHANGED <<aborted, mSpaces, mGeneration, mCurrentCon, myGeneration>>

(***************************************************************************)
(* Wait, the last thread to arrive.                                        *)
(***************************************************************************)
\* Slip: counts the opening thread as already arrived in the next generation.
Refill_OneShort(t) ==
  /\ pc[t] = "refill"
  /\ mSpaces' = mMax - 1
  /\ Goto(t, "lockBump")
  /\ UNCHANGED <<aborted, mGeneration, mCurrentCon, mCondVarMutex, myGeneration, con>>

Refill(t) ==
  /\ pc[t] = "refill"
  /\ mSpaces' = mMax
  /\ Goto(t, "lockBump")
  /\ UNCHANGED <<aborted, mGeneration, mCurrentCon, mCondVarMutex, myGeneration, con>>

LockBump(t) ==
  /\ pc[t] = "lockBump"
  /\ Acquire(t)
  /\ Goto(t, "bump")
  /\ UNCHANGED <<aborted, mSpaces, mGeneration, mCurrentCon, myGeneration, con>>

Bump(t) ==
  /\ pc[t] = "bump"
  /\ mGeneration' = NextGeneration(mGeneration)
  /\ Goto(t, "swap")
  /\ UNCHANGED <<aborted, mSpaces, mCurrentCon, mCondVarMutex, myGeneration, con>>

\* Reset: swap the condition variables, then notify the one in use so far.
Swap(t) ==
  /\ pc[t] = "swap"
  /\ mCurrentCon' = Other(mCurrentCon)
  /\ Goto(t, "notify")
  /\ UNCHANGED <<aborted, mSpaces, mGeneration, mCondVarMutex, myGeneration, con>>

\* Slip: notifies the new variable instead of the one in use so far.
Notify_WrongCon(t) ==
  /\ pc[t] = "notify"
  /\ NotifyAll(t, mCurrentCon, "unlockBump")
  /\ UNCHANGED <<aborted, mSpaces, mGeneration, mCurrentCon, mCondVarMutex, myGeneration, con>>

Notify(t) ==
  /\ pc[t] = "notify"
  /\ NotifyAll(t, Other(mCurrentCon), "unlockBump")
  /\ UNCHANGED <<aborted, mSpaces, mGeneration, mCurrentCon, mCondVarMutex, myGeneration, con>>

UnlockBump(t) ==
  /\ pc[t] = "unlockBump"
  /\ Release
  /\ Goto(t, "checkAbort")
  /\ UNCHANGED <<aborted, mSpaces, mGeneration, mCurrentCon, myGeneration, con>>

(***************************************************************************)
(* The end of Wait.                                                        *)
(***************************************************************************)
CheckAbort(t) ==
  /\ pc[t] = "checkAbort"
  /\ IF aborted
     THEN Goto(t, "tellAbort") /\ UNCHANGED myGeneration
     ELSE Goto(t, "out") /\ myGeneration' = [myGeneration EXCEPT ![t] = 0]
  /\ UNCHANGED <<aborted, mSpaces, mGeneration, mCurrentCon, mCondVarMutex, con>>

TellAbort(t) ==
  /\ pc[t] = "tellAbort"
  /\ NotifyAll(t, mCurrentCon, "done")
  /\ UNCHANGED <<aborted, mSpaces, mGeneration, mCurrentCon, mCondVarMutex, myGeneration, con>>

(***************************************************************************)
(* The abort: the client sets the flag, then calls NotifyAbort.  Neither   *)
(* takes mCondVarMutex.                                                    *)
(***************************************************************************)
SetAborted(t) ==
  /\ MayAbort
  /\ pc[t] = "out"
  /\ t = Controller
  /\ aborted' = TRUE
  /\ Goto(t, "abortNotify")
  /\ UNCHANGED <<mSpaces, mGeneration, mCurrentCon, mCondVarMutex, myGeneration, con>>

AbortNotify(t) ==
  /\ pc[t] = "abortNotify"
  /\ NotifyAll(t, mCurrentCon, "abortBump")
  /\ UNCHANGED <<aborted, mSpaces, mGeneration, mCurrentCon, mCondVarMutex, myGeneration, con>>

AbortBump(t) ==
  /\ pc[t] = "abortBump"
  /\ mGeneration' = NextGeneration(mGeneration)
  /\ Goto(t, "done")
  /\ UNCHANGED <<aborted, mSpaces, mCurrentCon, mCondVarMutex, myGeneration, con>>

WaitStep(t) ==
  \/ Decrement(t)
  \/ SpinLeave(t)
  \/ SpinGiveUp(t)
  \/ LockPark(t)
  \/ TestGeneration(t)
  \/ TestAbort(t)
  \/ Sleep(t)
  \/ Relock(t)
  \/ UnlockPark(t)
  \/ Refill(t)
  \/ LockBump(t)
  \/ Bump(t)
  \/ Swap(t)
  \/ Notify(t)
  \/ UnlockBump(t)
  \/ CheckAbort(t)
  \/ TellAbort(t)

AbortStep(t) == AbortNotify(t) \/ AbortBump(t)

Next == \E t \in Threads : \/ Enter(t)
                           \/ WaitStep(t)
                           \/ SpuriousWakeup(t)
                           \/ SetAborted(t)
                           \/ AbortStep(t)

Spec == Init /\ [][Next]_vars

(***************************************************************************)
(* Fairness: the operating system runs every thread, threads keep coming   *)
(* back to the barrier, and spurious wakeups do not go on for ever (a      *)
(* thread woken spuriously without end could keep the spin lock from       *)
(* another, since the lock is not fair).                                   *)
(***************************************************************************)
FairSpec ==
  /\ Spec
  /\ \A t \in Threads : WF_vars(Enter(t)) /\ WF_vars(WaitStep(t)) /\ WF_vars(AbortStep(t))
  /\ <>[][\A t \in Threads : ~SpuriousWakeup(t)]_vars

(***************************************************************************)
(* Safety.                                                                 *)
(***************************************************************************)
TypeOK ==
  /\ aborted \in BOOLEAN
  /\ mSpaces \in 0 .. mMax
  /\ mGeneration \in Generations
  /\ mCurrentCon \in {1, 2}
  /\ mCondVarMutex \in Threads \cup {NoThread}
  /\ pc \in [Threads -> PCs]
  /\ myGeneration \in [Threads -> Generations]
  /\ con \in [Threads -> {1, 2}]

Holding(t) == pc[t] \in Parking \cup Opening \cup {"bump"}

\* Threads inside Wait whose arrival the current generation counts.
Inside(t) == pc[t] \in Waiting \cup Opening \cup Leaving
Held(t) == Inside(t) /\ myGeneration[t] = mGeneration
Counted == {t \in Threads : Held(t) \/ pc[t] \in Closing}

\* Threads that may still decrement mSpaces once the barrier is aborted.
Late == {t \in Threads \ {Controller} : pc[t] \in {"out", "dec"}}

\* The spin lock is held by exactly the thread that is between its lock and its
\* unlock (barrier.h:83-85, 99-100), so a generation changes, and a condition
\* variable is swapped, under the lock that a parking thread evaluates them under.
LockInv == \A t \in Threads : mCondVarMutex = t <=> Holding(t)

\* barrier.h:79-81 refills mSpaces before the generation moves on: until an
\* abort it is what the arrivals of this generation leave, or already full
\* while the last of them still closes the generation; it never underflows.
SpacesAccounted ==
  ~aborted =>
    IF \E t \in Threads : pc[t] \in {"lockBump", "bump"}
    THEN mSpaces = mMax /\ Counted = Threads
    ELSE mSpaces = mMax - Cardinality(Counted)

\* After an abort the controller is missing for ever: whoever still arrives
\* finds more spaces than there are threads left to take them, so nobody ever
\* becomes the last one and opens the barrier.
SpacesAborted ==
  aborted =>
    /\ pc[Controller] \in Quitting \cup {"done"}
    /\ mSpaces > Cardinality(Late)
    /\ \A t \in Threads : pc[t] \notin Closing

\* At most one thread opens the barrier, and until it moves the generation
\* every other thread is held: a fast thread cannot overtake a slow one into
\* the next generation (barrier.h:77-85).
OneOpens ==
  \A t \in Threads : pc[t] \in Closing =>
    \A u \in Threads \ {t} : pc[u] \in Waiting /\ myGeneration[u] = mGeneration

\* A snapshot is current until the generation it names is over.
SnapshotInv ==
  /\ \A t \in Threads : pc[t] \in Closing => myGeneration[t] = mGeneration
  /\ ~aborted => \A t \in Threads :
       /\ pc[t] = "dec" => myGeneration[t] = mGeneration
       /\ pc[t] \in Opening \cup {"checkAbort"} => myGeneration[t] # mGeneration
       /\ pc[t] \in {"testAbort", "sleep"} => myGeneration[t] = mGeneration
       /\ pc[t] = "unlockPark" => myGeneration[t] # mGeneration
       /\ pc[t] \notin Quitting \cup {"done", "tellAbort"}

\* A thread in Wait is at most one generation behind, until NotifyAbort: the
\* counter cannot come round to the snapshot of a thread it has released.
RecentInv ==
  pc[Controller] # "done" => \A t \in Threads :
    pc[t] = "dec" \/ Inside(t) =>
      \/ mGeneration = myGeneration[t]
      \/ mGeneration = NextGeneration(myGeneration[t])

\* Reset swaps the two condition variables and then notifies the old one
\* (barrier.h:131-139): no thread of a finished generation is left asleep
\* without the opening thread being about to wake it, and a thread of the
\* current generation sleeps on the variable that the next release notifies
\* (it cannot go to sleep before the swap: the opening thread has the lock).
NoLostWakeup ==
  ~aborted => \A t \in Threads :
    /\ pc[t] \in Parking \cup {"asleep", "woken"} /\ (\E u \in Threads : pc[u] = "swap")
         => myGeneration[t] # mGeneration
    /\ (pc[t] \in Parking \cup {"asleep", "woken"} /\ myGeneration[t] = mGeneration)
         => con[t] = mCurrentCon
    /\ (pc[t] = "asleep" /\ myGeneration[t] # mGeneration)
         => \E u \in Threads : \/ pc[u] = "swap" /\ con[t] = mCurrentCon
                               \/ pc[u] = "notify" /\ con[t] = Other(mCurrentCon)

\* Only the controller aborts.
AbortInv == \A t \in Threads : pc[t] \in Quitting => t = Controller

IInv ==
  /\ TypeOK
  /\ LockInv
  /\ SpacesAccounted
  /\ SpacesAborted
  /\ OneOpens
  /\ SnapshotInv
  /\ RecentInv
  /\ NoLostWakeup
  /\ AbortInv

(***************************************************************************)
(* The barrier implements AbstractBarrier: the threads held are those of   *)
(* the current generation, the released ones those of an earlier one.      *)
(***************************************************************************)
arrivedBar == {t \in Threads : Held(t)}
releasedBar == {t \in Threads : Inside(t) /\ myGeneration[t] # mGeneration}

AB == INSTANCE AbstractBarrier WITH arrived <- arrivedBar, released <- releasedBar

\* "all threads have waited for each other to reach the barrier" (barrier.h:72).
RefinesBarrier == AB!Spec

(***************************************************************************)
(* Liveness.                                                               *)
(***************************************************************************)
\* Every call of Wait returns, however its thread waits, as long as nobody
\* aborts.
EveryWaitReturns ==
  \A t \in Threads : [](pc[t] = "dec" => <>(aborted \/ pc[t] \in {"out", "done"}))

\* "the process can be aborted when `aborted` equals to true" (barrier.h:65-66):
\* once the flag is set every thread that waits is let go.
AbortFrees == \A t \in Threads : (aborted /\ Inside(t)) ~> ~Inside(t)

\* The one thread an abort may forget is one that has found `aborted' clear in
\* the predicate (barrier.h:100) and is not yet blocked: every other thread in
\* Wait when the flag is set, asleep or not, is let go.
AbortFreesUnlessParking ==
  \A t \in Threads :
    (pc[Controller] = "abortNotify" /\ Inside(t) /\ pc[t] # "sleep") ~> ~Inside(t)
=============================================================================
