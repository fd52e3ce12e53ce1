------------------------ MODULE MixedBarrier_proofs -------------------------
(***************************************************************************)
(* Proofs about MixedBarrier, for any finite set of at least two threads.  *)
(* The inductive invariant is IInv.                                        *)
(***************************************************************************)
EXTENDS MixedBarrier, TLAPS, FiniteSetTheorems

(***************************************************************************)
(* Counting threads.                                                       *)
(***************************************************************************)

\* mMax is the number of threads, at least two.
LEMMA MaxFacts == mMax \in Nat /\ mMax >= 2
  BY ThreadsAssumption, FS_CardinalityType DEF mMax

\* Every set of threads is finite, has at most mMax elements, and is all of
\* them when it has mMax.
LEMMA SubsetFacts ==
  ASSUME NEW S \in SUBSET Threads
  PROVE  /\ IsFiniteSet(S)
         /\ Cardinality(S) \in Nat
         /\ Cardinality(S) <= mMax
         /\ Cardinality(S) = mMax => S = Threads
<1>1. IsFiniteSet(S) /\ Cardinality(S) <= mMax /\ (Cardinality(S) = mMax => S = Threads)
  BY ThreadsAssumption, FS_Subset DEF mMax
<1>2. Cardinality(S) \in Nat
  BY <1>1, FS_CardinalityType
<1> QED
  BY <1>1, <1>2

\* Adding one thread to a set of threads.
LEMMA AddThread ==
  ASSUME NEW S \in SUBSET Threads, NEW t \in Threads, t \notin S
  PROVE  /\ Cardinality(S \cup {t}) = Cardinality(S) + 1
         /\ Cardinality(S) < mMax
         /\ Cardinality(S) = mMax - 1 => S \cup {t} = Threads
<1>1. Cardinality(S \cup {t}) = Cardinality(S) + 1
  BY SubsetFacts, FS_AddElement
<1>2. S \cup {t} \in SUBSET Threads
  OBVIOUS
<1> QED
  BY <1>1, <1>2, SubsetFacts, MaxFacts

\* Removing one thread from a set of threads.
LEMMA RemoveThread ==
  ASSUME NEW S \in SUBSET Threads, NEW t \in S
  PROVE  Cardinality(S \ {t}) = Cardinality(S) - 1 /\ Cardinality(S) >= 1
<1>1. Cardinality(S \ {t}) = Cardinality(S) - 1
  BY SubsetFacts, FS_RemoveElement
<1>2. Cardinality(S \ {t}) \in Nat /\ Cardinality(S) \in Nat
  BY SubsetFacts
<1> QED
  BY <1>1, <1>2

\* What a thread that is about to decrement mSpaces finds there: at least one
\* space, and the last one only if every other thread has been counted.
LEMMA DecrementSpaces ==
  ASSUME IInv, NEW t \in Threads, pc[t] = "dec"
  PROVE  /\ mSpaces >= 1
         /\ \A u \in Threads : pc[u] \notin {"lockBump", "bump"}
         /\ mSpaces = 1 => ~aborted /\ Counted = Threads \ {t}
<1>1. t \notin Counted /\ Counted \in SUBSET Threads
  BY DEF Counted, Held, Inside, Waiting, Opening, Leaving, Closing, Parking
<1>2. \A u \in Threads : pc[u] \notin Closing
  BY DEF IInv, OneOpens, Waiting, Parking, Closing
<1>3. CASE aborted
  <2>1. Late \in SUBSET Threads /\ t \in Late
    BY <1>3 DEF IInv, SpacesAborted, Late, Quitting
  <2>2. Cardinality(Late) >= 1 /\ Cardinality(Late) \in Nat
    BY <2>1, RemoveThread, SubsetFacts
  <2> QED
    BY <1>2, <1>3, <2>2 DEF IInv, TypeOK, SpacesAborted, Closing
<1>4. CASE ~aborted
  <2>1. mSpaces = mMax - Cardinality(Counted)
    BY <1>2, <1>4 DEF IInv, SpacesAccounted, Closing
  <2>2. Cardinality(Counted) < mMax /\ Cardinality(Counted) \in Nat
    BY <1>1, AddThread, SubsetFacts
  <2>3. Cardinality(Counted) = mMax - 1 => Counted \cup {t} = Threads
    BY <1>1, AddThread
  <2>4. mSpaces = 1 => Counted \cup {t} = Threads
    BY <2>1, <2>2, <2>3, MaxFacts
  <2> QED
    BY <1>1, <1>2, <1>4, <2>1, <2>2, <2>4, MaxFacts DEF Closing
<1> QED
  BY <1>3, <1>4

\* The next generation is another one.
LEMMA NextGenerationFacts ==
  ASSUME NEW g \in Generations
  PROVE  NextGeneration(g) \in Generations /\ NextGeneration(g) # g
  BY GenerationAssumption DEF NextGeneration, Generations

(***************************************************************************)
(* Types.                                                                  *)
(***************************************************************************)

\* Every step keeps the types; mSpaces never underflows.
LEMMA TypeStep ==
  ASSUME IInv, Narrow, [Next]_vars
  PROVE  TypeOK'
<1> USE DEF IInv, TypeOK, PCs, Closing, Opening, Parking, Waiting, Leaving, Quitting
<1>1. CASE UNCHANGED vars
  BY <1>1 DEF vars
<1>2. ASSUME NEW t \in Threads,
             \/ Enter(t) \/ WaitStep(t) \/ SpuriousWakeup(t) \/ SetAborted(t) \/ AbortStep(t)
      PROVE  TypeOK'
  <2>1. CASE Enter(t)
    BY <2>1, GenerationAssumption DEF Enter, Goto, Truncate
  <2>2. CASE Decrement(t)
    BY <2>2, DecrementSpaces, MaxFacts DEF Decrement, Goto
  <2>3. CASE SpinLeave(t)
    BY <2>3 DEF SpinLeave, Goto
  <2>4. CASE SpinGiveUp(t)
    BY <2>4 DEF SpinGiveUp, Goto
  <2>5. CASE LockPark(t)
    BY <2>5 DEF LockPark, Goto, Acquire
  <2>6. CASE TestGeneration(t)
    BY <2>6 DEF TestGeneration, Goto
  <2>7. CASE TestAbort(t)
    BY <2>7 DEF TestAbort, Goto
  <2>8. CASE Sleep(t)
    BY <2>8 DEF Sleep, Goto, Release
  <2>9. CASE Relock(t)
    BY <2>9 DEF Relock, Goto, Acquire
  <2>10. CASE UnlockPark(t)
    BY <2>10 DEF UnlockPark, Goto, Release
  <2>11. CASE Refill(t)
    BY <2>11, MaxFacts DEF Refill, Goto
  <2>12. CASE LockBump(t)
    BY <2>12 DEF LockBump, Goto, Acquire
  <2>13. CASE Bump(t)
    BY <2>13, NextGenerationFacts DEF Bump, Goto
  <2>14. CASE Swap(t)
    BY <2>14 DEF Swap, Goto, Other
  <2>15. CASE Notify(t)
    BY <2>15 DEF Notify, NotifyAll
  <2>16. CASE UnlockBump(t)
    BY <2>16 DEF UnlockBump, Goto, Release
  <2>17. CASE CheckAbort(t)
    <3>1. 0 \in Generations
      BY GenerationAssumption DEF Generations
    <3> QED
      BY <2>17, <3>1 DEF CheckAbort, Goto
  <2>18. CASE TellAbort(t)
    BY <2>18 DEF TellAbort, NotifyAll
  <2>19. CASE SpuriousWakeup(t)
    BY <2>19 DEF SpuriousWakeup, Goto
  <2>20. CASE SetAborted(t)
    BY <2>20 DEF SetAborted, Goto
  <2>21. CASE AbortNotify(t)
    BY <2>21 DEF AbortNotify, NotifyAll
  <2>22. CASE AbortBump(t)
    BY <2>22, NextGenerationFacts DEF AbortBump, Goto
  <2> QED
    BY <1>2, <2>1, <2>2, <2>3, <2>4, <2>5, <2>6, <2>7, <2>8, <2>9, <2>10, <2>11, <2>12, <2>13, <2>14, <2>15, <2>16, <2>17, <2>18, <2>19, <2>20, <2>21, <2>22
    DEF WaitStep, AbortStep
<1> QED
  BY <1>1, <1>2 DEF Next

(***************************************************************************)
(* The lock, the opening thread, the snapshots and the wakeups.            *)
(***************************************************************************)

\* Only the holder of the spin lock is between its lock and its unlock.
LEMMA LockStep ==
  ASSUME IInv, Narrow, [Next]_vars
  PROVE  LockInv'
<1> USE DEF IInv, TypeOK, LockInv, Holding, Opening, Parking
<1>1. CASE UNCHANGED vars
  BY <1>1 DEF vars
<1>2. ASSUME NEW t \in Threads,
             \/ Enter(t) \/ WaitStep(t) \/ SpuriousWakeup(t) \/ SetAborted(t) \/ AbortStep(t)
      PROVE  LockInv'
  <2>1. CASE Enter(t)
    BY <2>1 DEF Enter, Goto
  <2>2. CASE Decrement(t)
    BY <2>2 DEF Decrement, Goto
  <2>3. CASE SpinLeave(t)
    BY <2>3 DEF SpinLeave, Goto
  <2>4. CASE SpinGiveUp(t)
    BY <2>4 DEF SpinGiveUp, Goto
  <2>5. CASE LockPark(t)
    BY <2>5, ThreadsAssumption DEF LockPark, Goto, Acquire
  <2>6. CASE TestGeneration(t)
    BY <2>6 DEF TestGeneration, Goto
  <2>7. CASE TestAbort(t)
    BY <2>7 DEF TestAbort, Goto
  <2>8. CASE Sleep(t)
    BY <2>8, ThreadsAssumption DEF Sleep, Goto, Release
  <2>9. CASE Relock(t)
    BY <2>9, ThreadsAssumption DEF Relock, Goto, Acquire
  <2>10. CASE UnlockPark(t)
    BY <2>10, ThreadsAssumption DEF UnlockPark, Goto, Release
  <2>11. CASE Refill(t)
    BY <2>11 DEF Refill, Goto
  <2>12. CASE LockBump(t)
    BY <2>12, ThreadsAssumption DEF LockBump, Goto, Acquire
  <2>13. CASE Bump(t)
    BY <2>13 DEF Bump, Goto
  <2>14. CASE Swap(t)
    BY <2>14 DEF Swap, Goto
  <2>15. CASE Notify(t)
    BY <2>15 DEF Notify, NotifyAll
  <2>16. CASE UnlockBump(t)
    BY <2>16, ThreadsAssumption DEF UnlockBump, Goto, Release
  <2>17. CASE CheckAbort(t)
    BY <2>17 DEF CheckAbort, Goto
  <2>18. CASE TellAbort(t)
    BY <2>18 DEF TellAbort, NotifyAll
  <2>19. CASE SpuriousWakeup(t)
    BY <2>19 DEF SpuriousWakeup, Goto
  <2>20. CASE SetAborted(t)
    BY <2>20 DEF SetAborted, Goto
  <2>21. CASE AbortNotify(t)
    BY <2>21 DEF AbortNotify, NotifyAll
  <2>22. CASE AbortBump(t)
    BY <2>22 DEF AbortBump, Goto
  <2> QED
    BY <1>2, <2>1, <2>2, <2>3, <2>4, <2>5, <2>6, <2>7, <2>8, <2>9, <2>10, <2>11,
       <2>12, <2>13, <2>14, <2>15, <2>16, <2>17, <2>18, <2>19, <2>20, <2>21, <2>22 DEF WaitStep, AbortStep
<1> QED
  BY <1>1, <1>2 DEF Next

\* Only the controller aborts.
LEMMA AbortInvStep ==
  ASSUME IInv, Narrow, [Next]_vars
  PROVE  AbortInv'
<1> USE DEF IInv, TypeOK, AbortInv, Quitting
<1>1. CASE UNCHANGED vars
  BY <1>1 DEF vars
<1>2. ASSUME NEW t \in Threads,
             \/ Enter(t) \/ WaitStep(t) \/ SpuriousWakeup(t) \/ SetAborted(t) \/ AbortStep(t)
      PROVE  AbortInv'
  <2>1. CASE Enter(t)
    BY <2>1 DEF Enter, Goto
  <2>2. CASE Decrement(t)
    BY <2>2 DEF Decrement, Goto
  <2>3. CASE SpinLeave(t)
    BY <2>3 DEF SpinLeave, Goto
  <2>4. CASE SpinGiveUp(t)
    BY <2>4 DEF SpinGiveUp, Goto
  <2>5. CASE LockPark(t)
    BY <2>5 DEF LockPark, Goto, Acquire
  <2>6. CASE TestGeneration(t)
    BY <2>6 DEF TestGeneration, Goto
  <2>7. CASE TestAbort(t)
    BY <2>7 DEF TestAbort, Goto
  <2>8. CASE Sleep(t)
    BY <2>8 DEF Sleep, Goto, Release
  <2>9. CASE Relock(t)
    BY <2>9 DEF Relock, Goto, Acquire
  <2>10. CASE UnlockPark(t)
    BY <2>10 DEF UnlockPark, Goto, Release
  <2>11. CASE Refill(t)
    BY <2>11 DEF Refill, Goto
  <2>12. CASE LockBump(t)
    BY <2>12 DEF LockBump, Goto, Acquire
  <2>13. CASE Bump(t)
    BY <2>13 DEF Bump, Goto
  <2>14. CASE Swap(t)
    BY <2>14 DEF Swap, Goto
  <2>15. CASE Notify(t)
    BY <2>15 DEF Notify, NotifyAll
  <2>16. CASE UnlockBump(t)
    BY <2>16 DEF UnlockBump, Goto, Release
  <2>17. CASE CheckAbort(t)
    BY <2>17 DEF CheckAbort, Goto
  <2>18. CASE TellAbort(t)
    BY <2>18 DEF TellAbort, NotifyAll
  <2>19. CASE SpuriousWakeup(t)
    BY <2>19 DEF SpuriousWakeup, Goto
  <2>20. CASE SetAborted(t)
    BY <2>20 DEF SetAborted, Goto
  <2>21. CASE AbortNotify(t)
    BY <2>21 DEF AbortNotify, NotifyAll
  <2>22. CASE AbortBump(t)
    BY <2>22 DEF AbortBump, Goto
  <2> QED
    BY <1>2, <2>1, <2>2, <2>3, <2>4, <2>5, <2>6, <2>7, <2>8, <2>9, <2>10, <2>11,
       <2>12, <2>13, <2>14, <2>15, <2>16, <2>17, <2>18, <2>19, <2>20, <2>21, <2>22 DEF WaitStep, AbortStep
<1> QED
  BY <1>1, <1>2 DEF Next

\* The opening thread stays alone.
LEMMA OneOpensStep ==
  ASSUME IInv, Narrow, [Next]_vars
  PROVE  OneOpens'
<1> USE DEF IInv, TypeOK, OneOpens, Closing, Opening, Parking, Waiting, Leaving, Quitting
<1>1. CASE UNCHANGED vars
  BY <1>1 DEF vars
<1>2. ASSUME NEW t \in Threads,
             \/ Enter(t) \/ WaitStep(t) \/ SpuriousWakeup(t) \/ SetAborted(t) \/ AbortStep(t)
      PROVE  OneOpens'
  <2>1. CASE Enter(t)
    BY <2>1 DEF Enter, Goto
  <2>2. CASE Decrement(t)
    <3>1. CASE mSpaces = 1
      <4>1. ~aborted /\ Counted = Threads \ {t}
        BY <2>2, <3>1, DecrementSpaces DEF Decrement
      <4>2. ASSUME NEW u \in Threads \ {t}
            PROVE  pc[u] \in Waiting /\ myGeneration[u] = mGeneration
        <5>1. pc[u] \notin Closing
          BY <2>2 DEF Decrement
        <5>2. Inside(u) /\ myGeneration[u] = mGeneration
          BY <4>1, <5>1 DEF Counted, Held
        <5> QED
          BY <4>1, <5>2 DEF SnapshotInv, Inside
      <4> QED
        BY <2>2, <4>2 DEF Decrement, Goto
    <3>2. CASE mSpaces # 1
      BY <2>2, <3>2 DEF Decrement, Goto
    <3> QED
      BY <3>1, <3>2
  <2>3. CASE SpinLeave(t)
    BY <2>3 DEF SpinLeave, Goto
  <2>4. CASE SpinGiveUp(t)
    BY <2>4 DEF SpinGiveUp, Goto
  <2>5. CASE LockPark(t)
    BY <2>5 DEF LockPark, Goto, Acquire
  <2>6. CASE TestGeneration(t)
    BY <2>6 DEF TestGeneration, Goto
  <2>7. CASE TestAbort(t)
    BY <2>7 DEF TestAbort, Goto
  <2>8. CASE Sleep(t)
    BY <2>8 DEF Sleep, Goto, Release
  <2>9. CASE Relock(t)
    BY <2>9 DEF Relock, Goto, Acquire
  <2>10. CASE UnlockPark(t)
    BY <2>10 DEF UnlockPark, Goto, Release, SnapshotInv, SpacesAborted
  <2>11. CASE Refill(t)
    BY <2>11 DEF Refill, Goto
  <2>12. CASE LockBump(t)
    BY <2>12 DEF LockBump, Goto, Acquire
  <2>13. CASE Bump(t)
    BY <2>13, NextGenerationFacts DEF Bump, Goto
  <2>14. CASE Swap(t)
    BY <2>14 DEF Swap, Goto
  <2>15. CASE Notify(t)
    BY <2>15 DEF Notify, NotifyAll
  <2>16. CASE UnlockBump(t)
    BY <2>16 DEF UnlockBump, Goto, Release
  <2>17. CASE CheckAbort(t)
    BY <2>17 DEF CheckAbort, Goto, SnapshotInv, SpacesAborted
  <2>18. CASE TellAbort(t)
    BY <2>18 DEF TellAbort, NotifyAll
  <2>19. CASE SpuriousWakeup(t)
    BY <2>19 DEF SpuriousWakeup, Goto
  <2>20. CASE SetAborted(t)
    BY <2>20 DEF SetAborted, Goto
  <2>21. CASE AbortNotify(t)
    BY <2>21 DEF AbortNotify, NotifyAll
  <2>22. CASE AbortBump(t)
    BY <2>22, NextGenerationFacts DEF AbortBump, Goto, SnapshotInv, SpacesAborted
  <2> QED
    BY <1>2, <2>1, <2>2, <2>3, <2>4, <2>5, <2>6, <2>7, <2>8, <2>9, <2>10, <2>11,
       <2>12, <2>13, <2>14, <2>15, <2>16, <2>17, <2>18, <2>19, <2>20, <2>21, <2>22 DEF WaitStep, AbortStep
<1> QED
  BY <1>1, <1>2 DEF Next

\* Snapshots stay current until the generation is over.
LEMMA SnapshotStep ==
  ASSUME IInv, Narrow, [Next]_vars
  PROVE  SnapshotInv'
<1> USE DEF IInv, TypeOK, SnapshotInv, Narrow, Closing, Opening, Parking, Waiting, Leaving, Quitting
<1>1. CASE UNCHANGED vars
  BY <1>1 DEF vars
<1>2. ASSUME NEW t \in Threads,
             \/ Enter(t) \/ WaitStep(t) \/ SpuriousWakeup(t) \/ SetAborted(t) \/ AbortStep(t)
      PROVE  SnapshotInv'
  <2>1. CASE Enter(t)
    BY <2>1 DEF Enter, Goto, Truncate
  <2>2. CASE Decrement(t)
    BY <2>2, DecrementSpaces DEF Decrement, Goto
  <2>3. CASE SpinLeave(t)
    BY <2>3 DEF SpinLeave, Goto
  <2>4. CASE SpinGiveUp(t)
    BY <2>4 DEF SpinGiveUp, Goto
  <2>5. CASE LockPark(t)
    BY <2>5 DEF LockPark, Goto, Acquire
  <2>6. CASE TestGeneration(t)
    BY <2>6 DEF TestGeneration, Goto
  <2>7. CASE TestAbort(t)
    BY <2>7 DEF TestAbort, Goto
  <2>8. CASE Sleep(t)
    BY <2>8 DEF Sleep, Goto, Release
  <2>9. CASE Relock(t)
    BY <2>9 DEF Relock, Goto, Acquire
  <2>10. CASE UnlockPark(t)
    BY <2>10 DEF UnlockPark, Goto, Release
  <2>11. CASE Refill(t)
    BY <2>11 DEF Refill, Goto
  <2>12. CASE LockBump(t)
    BY <2>12 DEF LockBump, Goto, Acquire
  <2>13. CASE Bump(t)
    BY <2>13, NextGenerationFacts DEF Bump, Goto, OneOpens, LockInv, Holding
  <2>14. CASE Swap(t)
    BY <2>14 DEF Swap, Goto
  <2>15. CASE Notify(t)
    BY <2>15 DEF Notify, NotifyAll
  <2>16. CASE UnlockBump(t)
    BY <2>16 DEF UnlockBump, Goto, Release
  <2>17. CASE CheckAbort(t)
    BY <2>17 DEF CheckAbort, Goto
  <2>18. CASE TellAbort(t)
    BY <2>18 DEF TellAbort, NotifyAll
  <2>19. CASE SpuriousWakeup(t)
    BY <2>19 DEF SpuriousWakeup, Goto
  <2>20. CASE SetAborted(t)
    BY <2>20 DEF SetAborted, Goto
  <2>21. CASE AbortNotify(t)
    BY <2>21 DEF AbortNotify, NotifyAll
  <2>22. CASE AbortBump(t)
    BY <2>22, NextGenerationFacts DEF AbortBump, Goto, SpacesAborted
  <2> QED
    BY <1>2, <2>1, <2>2, <2>3, <2>4, <2>5, <2>6, <2>7, <2>8, <2>9, <2>10, <2>11,
       <2>12, <2>13, <2>14, <2>15, <2>16, <2>17, <2>18, <2>19, <2>20, <2>21, <2>22 DEF WaitStep, AbortStep
<1> QED
  BY <1>1, <1>2 DEF Next

\* Until NotifyAbort no thread is more than one generation behind.
LEMMA RecentStep ==
  ASSUME IInv, Narrow, [Next]_vars
  PROVE  RecentInv'
<1> USE DEF IInv, TypeOK, RecentInv, Narrow, Inside, Closing, Opening, Parking, Waiting, Leaving, Quitting
<1>1. CASE UNCHANGED vars
  BY <1>1 DEF vars
<1>2. ASSUME NEW t \in Threads,
             \/ Enter(t) \/ WaitStep(t) \/ SpuriousWakeup(t) \/ SetAborted(t) \/ AbortStep(t)
      PROVE  RecentInv'
  <2>1. CASE Enter(t)
    BY <2>1 DEF Enter, Goto, Truncate
  <2>2. CASE Decrement(t)
    BY <2>2 DEF Decrement, Goto
  <2>3. CASE SpinLeave(t)
    BY <2>3 DEF SpinLeave, Goto
  <2>4. CASE SpinGiveUp(t)
    BY <2>4 DEF SpinGiveUp, Goto
  <2>5. CASE LockPark(t)
    BY <2>5 DEF LockPark, Goto, Acquire
  <2>6. CASE TestGeneration(t)
    BY <2>6 DEF TestGeneration, Goto
  <2>7. CASE TestAbort(t)
    BY <2>7 DEF TestAbort, Goto
  <2>8. CASE Sleep(t)
    BY <2>8 DEF Sleep, Goto, Release
  <2>9. CASE Relock(t)
    BY <2>9 DEF Relock, Goto, Acquire
  <2>10. CASE UnlockPark(t)
    BY <2>10 DEF UnlockPark, Goto, Release
  <2>11. CASE Refill(t)
    BY <2>11 DEF Refill, Goto
  <2>12. CASE LockBump(t)
    BY <2>12 DEF LockBump, Goto, Acquire
  <2>13. CASE Bump(t)
    <3>1. \A u \in Threads : myGeneration[u] = mGeneration
      BY <2>13 DEF Bump, OneOpens, SnapshotInv
    <3>2. \A u \in Threads : mGeneration' = NextGeneration(myGeneration'[u])
      BY <2>13, <3>1 DEF Bump
    <3> QED
      BY <3>2
  <2>14. CASE Swap(t)
    BY <2>14 DEF Swap, Goto
  <2>15. CASE Notify(t)
    <3>1. pc'[Controller] = "done" <=> pc[Controller] = "done"
      BY <2>15, ThreadsAssumption DEF Notify, NotifyAll
    <3>2. \A u \in Threads : pc'[u] = "dec" \/ Inside(u)' => pc[u] = "dec" \/ Inside(u)
      BY <2>15 DEF Notify, NotifyAll
    <3> QED
      BY <2>15, <3>1, <3>2 DEF Notify, NextGeneration
  <2>16. CASE UnlockBump(t)
    BY <2>16 DEF UnlockBump, Goto, Release
  <2>17. CASE CheckAbort(t)
    <3>1. pc'[Controller] = "done" <=> pc[Controller] = "done"
      BY <2>17, ThreadsAssumption DEF CheckAbort, Goto
    <3>2. \A u \in Threads : pc'[u] = "dec" \/ Inside(u)' =>
            /\ pc[u] = "dec" \/ Inside(u)
            /\ myGeneration'[u] = myGeneration[u]
      BY <2>17 DEF CheckAbort, Goto
    <3> QED
      BY <2>17, <3>1, <3>2 DEF CheckAbort, NextGeneration
  <2>18. CASE TellAbort(t)
    <3>1. aborted /\ t # Controller
      BY <2>18, ThreadsAssumption DEF TellAbort, SnapshotInv, SpacesAborted
    <3>2. pc'[Controller] = "done" <=> pc[Controller] = "done"
      BY <2>18, <3>1, ThreadsAssumption DEF TellAbort, NotifyAll
    <3>3. \A u \in Threads : pc'[u] = "dec" \/ Inside(u)' => pc[u] = "dec" \/ Inside(u)
      BY <2>18 DEF TellAbort, NotifyAll
    <3> QED
      BY <2>18, <3>2, <3>3 DEF TellAbort, NextGeneration
  <2>19. CASE SpuriousWakeup(t)
    BY <2>19 DEF SpuriousWakeup, Goto
  <2>20. CASE SetAborted(t)
    BY <2>20 DEF SetAborted, Goto
  <2>21. CASE AbortNotify(t)
    <3>1. pc'[Controller] = "done" <=> pc[Controller] = "done"
      BY <2>21, ThreadsAssumption DEF AbortNotify, NotifyAll
    <3>2. \A u \in Threads : pc'[u] = "dec" \/ Inside(u)' => pc[u] = "dec" \/ Inside(u)
      BY <2>21 DEF AbortNotify, NotifyAll
    <3> QED
      BY <2>21, <3>1, <3>2 DEF AbortNotify, NextGeneration
  <2>22. CASE AbortBump(t)
    BY <2>22, ThreadsAssumption DEF AbortBump, Goto, AbortInv
  <2> QED
    BY <1>2, <2>1, <2>2, <2>3, <2>4, <2>5, <2>6, <2>7, <2>8, <2>9, <2>10, <2>11,
       <2>12, <2>13, <2>14, <2>15, <2>16, <2>17, <2>18, <2>19, <2>20, <2>21, <2>22 DEF WaitStep, AbortStep
<1> QED
  BY <1>1, <1>2 DEF Next

\* No wakeup is lost.
LEMMA WakeupStep ==
  ASSUME IInv, Narrow, [Next]_vars
  PROVE  NoLostWakeup'
<1> USE DEF IInv, TypeOK, NoLostWakeup, SnapshotInv, Other, Closing, Opening, Parking, Waiting, Leaving, Quitting
<1>1. CASE UNCHANGED vars
  BY <1>1 DEF vars
<1>2. ASSUME NEW t \in Threads,
             \/ Enter(t) \/ WaitStep(t) \/ SpuriousWakeup(t) \/ SetAborted(t) \/ AbortStep(t)
      PROVE  NoLostWakeup'
  <2>1. CASE Enter(t)
    BY <2>1 DEF Enter, Goto
  <2>2. CASE Decrement(t)
    BY <2>2 DEF Decrement, Goto
  <2>3. CASE SpinLeave(t)
    BY <2>3 DEF SpinLeave, Goto
  <2>4. CASE SpinGiveUp(t)
    BY <2>4 DEF SpinGiveUp, Goto
  <2>5. CASE LockPark(t)
    BY <2>5, ThreadsAssumption DEF LockPark, Goto, Acquire, LockInv, Holding
  <2>6. CASE TestGeneration(t)
    BY <2>6 DEF TestGeneration, Goto
  <2>7. CASE TestAbort(t)
    BY <2>7 DEF TestAbort, Goto
  <2>8. CASE Sleep(t)
    BY <2>8 DEF Sleep, Goto, Release
  <2>9. CASE Relock(t)
    BY <2>9 DEF Relock, Goto, Acquire, LockInv, Holding
  <2>10. CASE UnlockPark(t)
    BY <2>10 DEF UnlockPark, Goto, Release
  <2>11. CASE Refill(t)
    BY <2>11 DEF Refill, Goto
  <2>12. CASE LockBump(t)
    BY <2>12 DEF LockBump, Goto, Acquire
  <2>13. CASE Bump(t)
    BY <2>13, NextGenerationFacts DEF Bump, Goto, OneOpens, LockInv, Holding
  <2>14. CASE Swap(t)
    BY <2>14 DEF Swap, Goto, LockInv, Holding
  <2>15. CASE Notify(t)
    BY <2>15 DEF Notify, NotifyAll, LockInv, Holding
  <2>16. CASE UnlockBump(t)
    BY <2>16 DEF UnlockBump, Goto, Release, LockInv, Holding
  <2>17. CASE CheckAbort(t)
    BY <2>17 DEF CheckAbort, Goto
  <2>18. CASE TellAbort(t)
    BY <2>18 DEF TellAbort, NotifyAll
  <2>19. CASE SpuriousWakeup(t)
    BY <2>19 DEF SpuriousWakeup, Goto
  <2>20. CASE SetAborted(t)
    BY <2>20 DEF SetAborted, Goto
  <2>21. CASE AbortNotify(t)
    BY <2>21 DEF AbortNotify, NotifyAll
  <2>22. CASE AbortBump(t)
    BY <2>22 DEF AbortBump, Goto
  <2> QED
    BY <1>2, <2>1, <2>2, <2>3, <2>4, <2>5, <2>6, <2>7, <2>8, <2>9, <2>10, <2>11,
       <2>12, <2>13, <2>14, <2>15, <2>16, <2>17, <2>18, <2>19, <2>20, <2>21, <2>22 DEF WaitStep, AbortStep
<1> QED
  BY <1>1, <1>2 DEF Next

(***************************************************************************)
(* Spaces.                                                                 *)
(***************************************************************************)

\* Until an abort mSpaces counts the missing arrivals.
LEMMA AccountedStep ==
  ASSUME IInv, Narrow, [Next]_vars
  PROVE  SpacesAccounted'
<1> USE DEF IInv, TypeOK, SpacesAccounted, Closing, Opening, Parking, Waiting, Leaving, Quitting
<1>1. CASE UNCHANGED vars
  BY <1>1 DEF vars, Counted, Held, Inside
<1>2. ASSUME NEW t \in Threads,
             \/ Enter(t) \/ WaitStep(t) \/ SpuriousWakeup(t) \/ SetAborted(t) \/ AbortStep(t)
      PROVE  SpacesAccounted'
  <2>1. CASE Enter(t)
    <3>1. Counted' = Counted
      BY <2>1 DEF Counted, Held, Inside, Enter, Goto
    <3> QED
      BY <2>1, <3>1 DEF Enter, Goto
  <2>2. CASE Decrement(t)
    <3> SUFFICES ASSUME ~aborted PROVE SpacesAccounted'
      BY <2>2 DEF Decrement
    <3>1. /\ Counted' = Counted \cup {t}
          /\ t \notin Counted
          /\ Counted \in SUBSET Threads
      BY <2>2 DEF Counted, Held, Inside, Decrement, Goto, SnapshotInv
    <3>2. Cardinality(Counted') = Cardinality(Counted) + 1 /\ Cardinality(Counted) \in Nat
      BY <3>1, AddThread, SubsetFacts
    <3>3. \A u \in Threads : pc[u] \notin {"lockBump", "bump"} /\ pc'[u] \notin {"lockBump", "bump"}
      BY <2>2, DecrementSpaces DEF Decrement, Goto
    <3> QED
      BY <2>2, <3>2, <3>3, MaxFacts DEF Decrement
  <2>3. CASE SpinLeave(t)
    <3>1. Counted' = Counted
      BY <2>3 DEF Counted, Held, Inside, SpinLeave, Goto
    <3> QED
      BY <2>3, <3>1 DEF SpinLeave, Goto
  <2>4. CASE SpinGiveUp(t)
    <3>1. Counted' = Counted
      BY <2>4 DEF Counted, Held, Inside, SpinGiveUp, Goto
    <3> QED
      BY <2>4, <3>1 DEF SpinGiveUp, Goto
  <2>5. CASE LockPark(t)
    <3>1. Counted' = Counted
      BY <2>5 DEF Counted, Held, Inside, LockPark, Goto, Acquire
    <3> QED
      BY <2>5, <3>1 DEF LockPark, Goto, Acquire
  <2>6. CASE TestGeneration(t)
    <3>1. Counted' = Counted
      BY <2>6 DEF Counted, Held, Inside, TestGeneration, Goto
    <3> QED
      BY <2>6, <3>1 DEF TestGeneration, Goto
  <2>7. CASE TestAbort(t)
    <3>1. Counted' = Counted
      BY <2>7 DEF Counted, Held, Inside, TestAbort, Goto
    <3> QED
      BY <2>7, <3>1 DEF TestAbort, Goto
  <2>8. CASE Sleep(t)
    <3>1. Counted' = Counted
      BY <2>8 DEF Counted, Held, Inside, Sleep, Goto, Release
    <3> QED
      BY <2>8, <3>1 DEF Sleep, Goto, Release
  <2>9. CASE Relock(t)
    <3>1. Counted' = Counted
      BY <2>9 DEF Counted, Held, Inside, Relock, Goto, Acquire
    <3> QED
      BY <2>9, <3>1 DEF Relock, Goto, Acquire
  <2>10. CASE UnlockPark(t)
    <3>1. Counted' = Counted
      BY <2>10 DEF Counted, Held, Inside, UnlockPark, Goto, Release
    <3> QED
      BY <2>10, <3>1 DEF UnlockPark, Goto, Release
  <2>11. CASE Refill(t)
    <3>1. Counted' = Threads
      BY <2>11 DEF Counted, Held, Inside, Refill, Goto, OneOpens
    <3> QED
      BY <2>11, <3>1 DEF Refill, Goto
  <2>12. CASE LockBump(t)
    <3>1. Counted' = Counted
      BY <2>12 DEF Counted, Held, Inside, LockBump, Goto, Acquire
    <3> QED
      BY <2>12, <3>1 DEF LockBump, Goto, Acquire
  <2>13. CASE Bump(t)
    <3>1. mSpaces = mMax
      BY <2>13 DEF Bump, SpacesAborted
    <3>2. \A u \in Threads \ {t} : pc[u] \in Waiting /\ myGeneration[u] = mGeneration
      BY <2>13 DEF OneOpens, Bump
    <3>3. myGeneration[t] = mGeneration
      BY <2>13 DEF SnapshotInv, Bump
    <3>4. \A u \in Threads : pc'[u] \notin Closing /\ myGeneration'[u] # mGeneration'
      BY <2>13, <3>2, <3>3, NextGenerationFacts DEF Bump, Goto
    <3>5. Counted' = {}
      BY <3>4 DEF Counted, Held
    <3> QED
      BY <2>13, <3>1, <3>4, <3>5, FS_EmptySet, MaxFacts DEF Bump
  <2>14. CASE Swap(t)
    <3>1. Counted' = Counted
      BY <2>14 DEF Counted, Held, Inside, Swap, Goto
    <3> QED
      BY <2>14, <3>1 DEF Swap, Goto
  <2>15. CASE Notify(t)
    <3>1. Counted' = Counted
      BY <2>15 DEF Counted, Held, Inside, Notify, NotifyAll
    <3> QED
      BY <2>15, <3>1 DEF Notify, NotifyAll
  <2>16. CASE UnlockBump(t)
    <3>1. Counted' = Counted
      BY <2>16 DEF Counted, Held, Inside, UnlockBump, Goto, Release
    <3> QED
      BY <2>16, <3>1 DEF UnlockBump, Goto, Release
  <2>17. CASE CheckAbort(t)
    <3>1. Counted' = Counted
      BY <2>17 DEF Counted, Held, Inside, CheckAbort, Goto, SnapshotInv
    <3> QED
      BY <2>17, <3>1 DEF CheckAbort, Goto
  <2>18. CASE TellAbort(t)
    BY <2>18 DEF SnapshotInv, TellAbort, NotifyAll
  <2>19. CASE SpuriousWakeup(t)
    <3>1. Counted' = Counted
      BY <2>19 DEF Counted, Held, Inside, SpuriousWakeup, Goto
    <3> QED
      BY <2>19, <3>1 DEF SpuriousWakeup, Goto
  <2>20. CASE SetAborted(t)
    BY <2>20 DEF SnapshotInv, SetAborted, Goto
  <2>21. CASE AbortNotify(t)
    BY <2>21 DEF SnapshotInv, AbortNotify, NotifyAll
  <2>22. CASE AbortBump(t)
    BY <2>22 DEF SnapshotInv, AbortBump, Goto
  <2> QED
    BY <1>2, <2>1, <2>2, <2>3, <2>4, <2>5, <2>6, <2>7, <2>8, <2>9, <2>10, <2>11,
       <2>12, <2>13, <2>14, <2>15, <2>16, <2>17, <2>18, <2>19, <2>20, <2>21, <2>22 DEF WaitStep, AbortStep
<1> QED
  BY <1>1, <1>2 DEF Next

\* After an abort nobody becomes the last one.
LEMMA AbortedStep ==
  ASSUME IInv, Narrow, [Next]_vars
  PROVE  SpacesAborted'
<1> USE DEF IInv, TypeOK, SpacesAborted, Closing, Opening, Parking, Waiting, Leaving, Quitting
<1>1. CASE UNCHANGED vars
  BY <1>1 DEF vars, Late
<1>2. ASSUME NEW t \in Threads,
             \/ Enter(t) \/ WaitStep(t) \/ SpuriousWakeup(t) \/ SetAborted(t) \/ AbortStep(t)
      PROVE  SpacesAborted'
  <2>1. CASE Enter(t)
    <3>1. aborted => Late' = Late
      BY <2>1 DEF Late, Enter, Goto
    <3> QED
      BY <2>1, <3>1 DEF Enter, Goto
  <2>2. CASE Decrement(t)
    <3> SUFFICES ASSUME aborted PROVE SpacesAborted'
      BY <2>2 DEF Decrement
    <3>1. /\ Late' = Late \ {t}
          /\ t \in Late
          /\ Late \in SUBSET Threads
      BY <2>2 DEF Late, Decrement, Goto
    <3>2. Cardinality(Late') = Cardinality(Late) - 1 /\ Cardinality(Late) \in Nat
      BY <3>1, RemoveThread, SubsetFacts
    <3>3. mSpaces # 1
      BY <2>2, DecrementSpaces DEF Decrement
    <3>4. mSpaces' > Cardinality(Late')
      BY <2>2, <3>2, <3>3, MaxFacts DEF Decrement
    <3> QED
      BY <2>2, <3>3, <3>4 DEF Decrement, Goto
  <2>3. CASE SpinLeave(t)
    <3>1. aborted => Late' = Late
      BY <2>3 DEF Late, SpinLeave, Goto
    <3> QED
      BY <2>3, <3>1 DEF SpinLeave, Goto
  <2>4. CASE SpinGiveUp(t)
    <3>1. aborted => Late' = Late
      BY <2>4 DEF Late, SpinGiveUp, Goto
    <3> QED
      BY <2>4, <3>1 DEF SpinGiveUp, Goto
  <2>5. CASE LockPark(t)
    <3>1. aborted => Late' = Late
      BY <2>5 DEF Late, LockPark, Goto, Acquire
    <3> QED
      BY <2>5, <3>1 DEF LockPark, Goto, Acquire
  <2>6. CASE TestGeneration(t)
    <3>1. aborted => Late' = Late
      BY <2>6 DEF Late, TestGeneration, Goto
    <3> QED
      BY <2>6, <3>1 DEF TestGeneration, Goto
  <2>7. CASE TestAbort(t)
    <3>1. aborted => Late' = Late
      BY <2>7 DEF Late, TestAbort, Goto
    <3> QED
      BY <2>7, <3>1 DEF TestAbort, Goto
  <2>8. CASE Sleep(t)
    <3>1. aborted => Late' = Late
      BY <2>8 DEF Late, Sleep, Goto, Release
    <3> QED
      BY <2>8, <3>1 DEF Sleep, Goto, Release
  <2>9. CASE Relock(t)
    <3>1. aborted => Late' = Late
      BY <2>9 DEF Late, Relock, Goto, Acquire
    <3> QED
      BY <2>9, <3>1 DEF Relock, Goto, Acquire
  <2>10. CASE UnlockPark(t)
    <3>1. aborted => Late' = Late
      BY <2>10 DEF Late, UnlockPark, Goto, Release
    <3> QED
      BY <2>10, <3>1 DEF UnlockPark, Goto, Release
  <2>11. CASE Refill(t)
    <3>1. aborted => Late' = Late
      BY <2>11 DEF Late, Refill, Goto
    <3> QED
      BY <2>11, <3>1 DEF Refill, Goto
  <2>12. CASE LockBump(t)
    <3>1. aborted => Late' = Late
      BY <2>12 DEF Late, LockBump, Goto, Acquire
    <3> QED
      BY <2>12, <3>1 DEF LockBump, Goto, Acquire
  <2>13. CASE Bump(t)
    <3>1. aborted => Late' = Late
      BY <2>13 DEF Late, Bump, Goto
    <3> QED
      BY <2>13, <3>1 DEF Bump, Goto
  <2>14. CASE Swap(t)
    <3>1. aborted => Late' = Late
      BY <2>14 DEF Late, Swap, Goto
    <3> QED
      BY <2>14, <3>1 DEF Swap, Goto
  <2>15. CASE Notify(t)
    <3>1. \A u \in Threads : /\ pc'[u] \in {"out", "dec"} <=> pc[u] \in {"out", "dec"}
                             /\ pc'[u] \in Closing <=> pc[u] \in Closing
      BY <2>15 DEF Notify, NotifyAll
    <3>2. Late' = Late
      BY <3>1 DEF Late
    <3>3. aborted => pc'[Controller] \in Quitting \cup {"done"}
      BY <2>15, ThreadsAssumption DEF Notify, NotifyAll
    <3> QED
      BY <2>15, <3>1, <3>2, <3>3 DEF Notify
  <2>16. CASE UnlockBump(t)
    <3>1. aborted => Late' = Late
      BY <2>16 DEF Late, UnlockBump, Goto, Release
    <3> QED
      BY <2>16, <3>1 DEF UnlockBump, Goto, Release
  <2>17. CASE CheckAbort(t)
    <3>1. aborted => Late' = Late
      BY <2>17 DEF Late, CheckAbort, Goto
    <3> QED
      <4>1. CASE aborted
        <5>1. /\ pc' = [pc EXCEPT ![t] = "tellAbort"]
              /\ t # Controller
              /\ mSpaces' = mSpaces
          BY <2>17, <4>1 DEF CheckAbort, Goto
        <5>2. pc'[Controller] = pc[Controller]
          BY <5>1, ThreadsAssumption
        <5> QED
          BY <3>1, <4>1, <5>1, <5>2
      <4>2. CASE ~aborted
        BY <2>17, <4>2 DEF CheckAbort
      <4> QED
        BY <4>1, <4>2
  <2>18. CASE TellAbort(t)
    <3>1. \A u \in Threads : /\ pc'[u] \in {"out", "dec"} <=> pc[u] \in {"out", "dec"}
                             /\ pc'[u] \in Closing <=> pc[u] \in Closing
      BY <2>18 DEF TellAbort, NotifyAll
    <3>2. Late' = Late
      BY <3>1 DEF Late
    <3>3. aborted => pc'[Controller] \in Quitting \cup {"done"}
      BY <2>18, ThreadsAssumption DEF TellAbort, NotifyAll
    <3> QED
      BY <2>18, <3>1, <3>2, <3>3 DEF TellAbort
  <2>19. CASE SpuriousWakeup(t)
    <3>1. aborted => Late' = Late
      BY <2>19 DEF Late, SpuriousWakeup, Goto
    <3> QED
      BY <2>19, <3>1 DEF SpuriousWakeup, Goto
  <2>20. CASE SetAborted(t)
    <3>1. t = Controller /\ pc[t] = "out" /\ pc' = [pc EXCEPT ![t] = "abortNotify"]
      BY <2>20 DEF SetAborted, Goto
    <3>2. \A u \in Threads : pc[u] \notin Closing
      BY <3>1 DEF OneOpens
    <3>3. ~aborted
      BY <3>1
    <3>4. mSpaces = mMax - Cardinality(Counted)
      BY <3>2, <3>3 DEF SpacesAccounted
    <3>5. /\ Counted \in SUBSET Threads
          /\ Late \in SUBSET Threads
          /\ Counted \cap Late = {}
          /\ Counted \cup Late \in SUBSET Threads
          /\ t \notin Counted \cup Late
          /\ Late' = Late
      BY <3>1 DEF Counted, Late, Held, Inside
    <3>6. /\ Cardinality(Counted) \in Nat
          /\ Cardinality(Late) \in Nat
          /\ Cardinality(Counted \cup Late) = Cardinality(Counted) + Cardinality(Late)
      <4>1. Cardinality(Counted \cup Late)
              = Cardinality(Counted) + Cardinality(Late) - Cardinality(Counted \cap Late)
        BY <3>5, SubsetFacts, FS_Union
      <4> QED
        BY <4>1, <3>5, SubsetFacts, FS_EmptySet
    <3>7. Cardinality(Counted \cup Late) < mMax
      BY <3>5, AddThread
    <3>8. mSpaces > Cardinality(Late)
      BY <3>4, <3>6, <3>7, MaxFacts
    <3> QED
      BY <2>20, <3>1, <3>2, <3>5, <3>8 DEF SetAborted
  <2>21. CASE AbortNotify(t)
    <3>1. \A u \in Threads : /\ pc'[u] \in {"out", "dec"} <=> pc[u] \in {"out", "dec"}
                             /\ pc'[u] \in Closing <=> pc[u] \in Closing
      BY <2>21 DEF AbortNotify, NotifyAll
    <3>2. Late' = Late
      BY <3>1 DEF Late
    <3>3. aborted => pc'[Controller] \in Quitting \cup {"done"}
      BY <2>21, ThreadsAssumption DEF AbortNotify, NotifyAll
    <3> QED
      BY <2>21, <3>1, <3>2, <3>3 DEF AbortNotify
  <2>22. CASE AbortBump(t)
    <3>1. aborted => Late' = Late
      BY <2>22 DEF Late, AbortBump, Goto
    <3> QED
      BY <2>22, <3>1 DEF AbortBump, Goto
  <2> QED
    BY <1>2, <2>1, <2>2, <2>3, <2>4, <2>5, <2>6, <2>7, <2>8, <2>9, <2>10, <2>11,
       <2>12, <2>13, <2>14, <2>15, <2>16, <2>17, <2>18, <2>19, <2>20, <2>21, <2>22 DEF WaitStep, AbortStep
<1> QED
  BY <1>1, <1>2 DEF Next

(***************************************************************************)
(* The invariant.                                                          *)
(***************************************************************************)

\* The initial states satisfy the invariant.
LEMMA InitIInv == Init => IInv
<1> SUFFICES ASSUME Init PROVE IInv
  OBVIOUS
<1> USE DEF Init
<1>1. TypeOK
  <2>1. mGeneration \in Generations /\ 0 \in Generations
    BY GenerationAssumption DEF Generations
  <2>2. mSpaces \in 0 .. mMax
    BY MaxFacts
  <2> QED
    BY <2>1, <2>2 DEF TypeOK, PCs
<1>2. Counted = {}
  BY DEF Counted, Held, Inside, Waiting, Opening, Leaving, Closing, Parking
<1>3. SpacesAccounted
  BY <1>2, FS_EmptySet, MaxFacts DEF SpacesAccounted
<1>4. LockInv
  BY ThreadsAssumption DEF LockInv, Holding, Parking, Opening
<1>5. SpacesAborted /\ OneOpens /\ SnapshotInv /\ RecentInv /\ NoLostWakeup /\ AbortInv
  BY DEF SpacesAborted, OneOpens, SnapshotInv, RecentInv, Inside, NoLostWakeup, AbortInv,
         Waiting, Leaving,
         Closing, Opening, Parking, Quitting
<1> QED
  BY <1>1, <1>3, <1>4, <1>5 DEF IInv

\* Every step preserves it.
LEMMA StepIInv == ASSUME IInv, Narrow, [Next]_vars PROVE IInv'
  BY TypeStep, LockStep, AbortInvStep, OneOpensStep, SnapshotStep, RecentStep, WakeupStep,
     AccountedStep, AbortedStep DEF IInv

\* Where the counter is no wider than its snapshot, every reachable state
\* satisfies IInv: the accounting of spaces, the single opening thread, the
\* currency of snapshots and, until an abort, the absence of lost wakeups.
THEOREM BarrierInvariant == ASSUME Narrow PROVE Spec => []IInv
<1>1. Init => IInv
  BY InitIInv
<1>2. IInv /\ [Next]_vars => IInv'
  BY StepIInv
<1> QED
  BY <1>1, <1>2, PTL DEF Spec

(***************************************************************************)
(* What a client may rely on: how a step of Wait moves its thread, and     *)
(* when it lets threads go.                                                *)
(***************************************************************************)

\* A thread in Wait stays there until it is out, or done because of an abort;
\* it moves no other thread except by waking it.
LEMMA WaitMoves ==
  ASSUME TypeOK, NEW t \in Threads, WaitStep(t)
  PROVE  /\ pc[t] \in {"dec"} \cup Closing \cup Opening \cup Waiting \cup Leaving
         /\ pc'[t] \in {"dec", "out", "done"} \cup Closing \cup Opening \cup Waiting \cup Leaving
         /\ pc'[t] = "out" => ~aborted
         /\ pc'[t] = "done" => pc[t] = "tellAbort"
         /\ pc'[t] \in Opening => pc[t] \in Opening \cup {"bump"}
         /\ \A u \in Threads \ {t} : pc'[u] = pc[u] \/ (pc[u] = "asleep" /\ pc'[u] = "woken")
         /\ aborted' = aborted
<1> USE DEF TypeOK, Closing, Opening, Parking, Waiting, Leaving
<1>1. CASE Decrement(t)
  BY <1>1 DEF Decrement, Goto
<1>2. CASE SpinLeave(t)
  BY <1>2 DEF SpinLeave, Goto
<1>3. CASE SpinGiveUp(t)
  BY <1>3 DEF SpinGiveUp, Goto
<1>4. CASE LockPark(t)
  BY <1>4 DEF LockPark, Goto, Acquire
<1>5. CASE TestGeneration(t)
  BY <1>5 DEF TestGeneration, Goto
<1>6. CASE TestAbort(t)
  BY <1>6 DEF TestAbort, Goto
<1>7. CASE Sleep(t)
  BY <1>7 DEF Sleep, Goto, Release
<1>8. CASE Relock(t)
  BY <1>8 DEF Relock, Goto, Acquire
<1>9. CASE UnlockPark(t)
  BY <1>9 DEF UnlockPark, Goto, Release
<1>10. CASE Refill(t)
  BY <1>10 DEF Refill, Goto
<1>11. CASE LockBump(t)
  BY <1>11 DEF LockBump, Goto, Acquire
<1>12. CASE Bump(t)
  BY <1>12 DEF Bump, Goto
<1>13. CASE Swap(t)
  BY <1>13 DEF Swap, Goto
<1>14. CASE Notify(t)
  BY <1>14 DEF Notify, NotifyAll
<1>15. CASE UnlockBump(t)
  BY <1>15 DEF UnlockBump, Goto, Release
<1>16. CASE CheckAbort(t)
  BY <1>16 DEF CheckAbort, Goto
<1>17. CASE TellAbort(t)
  BY <1>17 DEF TellAbort, NotifyAll
<1> QED
  BY <1>1, <1>2, <1>3, <1>4, <1>5, <1>6, <1>7, <1>8, <1>9, <1>10, <1>11, <1>12, <1>13, <1>14, <1>15, <1>16, <1>17 DEF WaitStep

\* Until an abort: the last thread to arrive lets all of them go, nobody having
\* been let go before; a thread that was let go leaves once; no other step
\* changes who has been let go.
LEMMA ReleasedStep ==
  ASSUME IInv, ~aborted, NEW t \in Threads, WaitStep(t)
  PROVE  /\ pc'[t] # "done"
         /\ \/ pc'[t] = "out" /\ t \in releasedBar /\ releasedBar' = releasedBar \ {t}
            \/ pc'[t] # "out" /\ releasedBar' = releasedBar
            \/ /\ pc'[t] # "out" /\ releasedBar = {} /\ releasedBar' = Threads
               /\ \A u \in Threads : pc[u] \in Waiting \cup Closing
<1> USE DEF IInv, TypeOK, releasedBar, Inside, Closing, Opening, Parking, Waiting, Leaving, Quitting
<1>1. CASE Decrement(t)
  BY <1>1 DEF Decrement, Goto, SnapshotInv
<1>2. CASE SpinLeave(t)
  BY <1>2 DEF SpinLeave, Goto
<1>3. CASE SpinGiveUp(t)
  BY <1>3 DEF SpinGiveUp, Goto
<1>4. CASE LockPark(t)
  BY <1>4 DEF LockPark, Goto, Acquire
<1>5. CASE TestGeneration(t)
  BY <1>5 DEF TestGeneration, Goto
<1>6. CASE TestAbort(t)
  BY <1>6 DEF TestAbort, Goto
<1>7. CASE Sleep(t)
  BY <1>7 DEF Sleep, Goto, Release
<1>8. CASE Relock(t)
  BY <1>8 DEF Relock, Goto, Acquire
<1>9. CASE UnlockPark(t)
  BY <1>9 DEF UnlockPark, Goto, Release
<1>10. CASE Refill(t)
  BY <1>10 DEF Refill, Goto
<1>11. CASE LockBump(t)
  BY <1>11 DEF LockBump, Goto, Acquire
<1>12. CASE Bump(t)
  <2>1. \A u \in Threads : pc[u] \in Waiting \cup Closing /\ myGeneration[u] = mGeneration
    BY <1>12 DEF Bump, OneOpens, SnapshotInv
  <2>2. releasedBar = {}
    BY <2>1
  <2>3. pc'[t] = "swap" /\ \A u \in Threads \ {t} : pc'[u] = pc[u] /\ pc[u] \in Waiting
    BY <1>12, <2>1 DEF Bump, Goto, OneOpens
  <2>4. \A u \in Threads : myGeneration'[u] # mGeneration'
    BY <1>12, <2>1, NextGenerationFacts DEF Bump
  <2>5. releasedBar' = Threads
    BY <2>3, <2>4
  <2> QED
    BY <2>1, <2>2, <2>3, <2>5
<1>13. CASE Swap(t)
  BY <1>13 DEF Swap, Goto
<1>14. CASE Notify(t)
  BY <1>14 DEF Notify, NotifyAll
<1>15. CASE UnlockBump(t)
  BY <1>15 DEF UnlockBump, Goto, Release
<1>16. CASE CheckAbort(t)
  <2>1. pc' = [pc EXCEPT ![t] = "out"] /\ mGeneration' = mGeneration
        /\ \A u \in Threads \ {t} : myGeneration'[u] = myGeneration[u]
    BY <1>16 DEF CheckAbort, Goto
  <2>2. t \in releasedBar
    BY <1>16 DEF CheckAbort, SnapshotInv
  <2>3. releasedBar' = releasedBar \ {t}
    BY <2>1
  <2> QED
    BY <2>1, <2>2, <2>3
<1>17. CASE TellAbort(t)
  BY <1>17 DEF TellAbort, SnapshotInv
<1> QED
  BY <1>1, <1>2, <1>3, <1>4, <1>5, <1>6, <1>7, <1>8, <1>9, <1>10, <1>11, <1>12, <1>13, <1>14, <1>15, <1>16, <1>17 DEF WaitStep

\* A thread outside Wait, one that is woken for nothing and one that aborts
\* change nothing of that.
LEMMA ReleasedKept ==
  ASSUME TypeOK, NEW t \in Threads, Enter(t) \/ SpuriousWakeup(t) \/ SetAborted(t)
  PROVE  releasedBar' = releasedBar
<1> USE DEF TypeOK, releasedBar, Inside, Opening, Parking, Waiting, Leaving
<1>1. CASE Enter(t)
  BY <1>1 DEF Enter, Goto
<1>2. CASE SpuriousWakeup(t)
  BY <1>2 DEF SpuriousWakeup, Goto
<1>3. CASE SetAborted(t)
  BY <1>3 DEF SetAborted, Goto
<1> QED
  BY <1>1, <1>2, <1>3

(***************************************************************************)
(* The barrier implements AbstractBarrier.                                 *)
(***************************************************************************)

\* Two steps of the counter do not bring it back.
LEMMA NextTwice ==
  ASSUME NEW g \in Generations
  PROVE  NextGeneration(NextGeneration(g)) # g
  BY GenerationAssumption DEF NextGeneration, Generations

\* Every step is a step of AbstractBarrier or leaves its variables alone:
\* only the bump of the generation releases, and it releases everybody.
LEMMA RefinementStep ==
  ASSUME IInv, Narrow, [Next]_vars
  PROVE  [AB!Next]_(AB!vars)
<1> USE DEF IInv, TypeOK, arrivedBar, releasedBar, Held, Inside, Closing, Opening, Parking, Waiting, Leaving, Quitting
<1>1. CASE UNCHANGED vars
  <2>1. arrivedBar' = arrivedBar /\ releasedBar' = releasedBar /\ aborted' = aborted
    BY <1>1 DEF vars
  <2> QED
    BY <2>1 DEF AB!vars
<1>2. ASSUME NEW t \in Threads,
             \/ Enter(t) \/ WaitStep(t) \/ SpuriousWakeup(t) \/ SetAborted(t) \/ AbortStep(t)
      PROVE  [AB!Next]_(AB!vars)
  <2>1. CASE Enter(t)
    <3>1. arrivedBar' = arrivedBar /\ releasedBar' = releasedBar /\ aborted' = aborted
      BY <2>1 DEF Enter, Goto
    <3> QED
      BY <3>1 DEF AB!vars
  <2>2. CASE Decrement(t)
    <3>1. CASE mSpaces = 1
      <4>1. arrivedBar' = arrivedBar /\ releasedBar' = releasedBar /\ aborted' = aborted
        BY <2>2, <3>1 DEF Decrement, Goto
      <4> QED
        BY <4>1 DEF AB!vars
    <3>2. CASE mSpaces # 1 /\ ~aborted
      <4>1. /\ arrivedBar' = arrivedBar \cup {t}
            /\ releasedBar' = releasedBar
            /\ AB!Outside(t)
        BY <2>2, <3>2 DEF Decrement, Goto, SnapshotInv, AB!Outside
      <4>2. arrivedBar \cup {t} # Threads
        <5> SUFFICES ASSUME arrivedBar \cup {t} = Threads PROVE FALSE
          OBVIOUS
        <5>1. Counted = Threads \ {t} /\ Threads \ {t} \in SUBSET Threads
          BY <2>2 DEF Counted, Decrement
        <5>2. Cardinality(Counted) = mMax - 1
          BY <5>1, ThreadsAssumption, FS_RemoveElement DEF mMax
        <5>3. mSpaces = mMax - Cardinality(Counted)
          BY <2>2, <3>2, DecrementSpaces DEF SpacesAccounted, Decrement
        <5> QED
          BY <3>2, <5>2, <5>3, MaxFacts
      <4>3. AB!Arrive(t)
        BY <2>2, <4>1, <4>2 DEF Decrement, AB!Arrive
      <4> QED
        BY <4>3 DEF AB!Next
    <3>3. CASE mSpaces # 1 /\ aborted /\ myGeneration[t] = mGeneration
      <4>1. /\ arrivedBar' = arrivedBar \cup {t}
            /\ releasedBar' = releasedBar
            /\ AB!Outside(t)
        BY <2>2, <3>3 DEF Decrement, Goto, AB!Outside
      <4>2. Controller \in Threads /\ Controller \notin arrivedBar \cup {t}
        BY <2>2, <3>3, ThreadsAssumption DEF Decrement, SpacesAborted
      <4>3. AB!Arrive(t)
        BY <2>2, <4>1, <4>2 DEF Decrement, AB!Arrive
      <4> QED
        BY <4>3 DEF AB!Next
    <3>4. CASE mSpaces # 1 /\ aborted /\ myGeneration[t] # mGeneration
      <4>1. /\ arrivedBar' = arrivedBar
            /\ releasedBar' = releasedBar \cup {t}
            /\ AB!Outside(t)
        BY <2>2, <3>4 DEF Decrement, Goto, AB!Outside
      <4>2. AB!ArriveAborted(t)
        BY <2>2, <3>4, <4>1 DEF Decrement, AB!ArriveAborted
      <4> QED
        BY <4>2 DEF AB!Next
    <3> QED
      BY <3>1, <3>2, <3>3, <3>4
  <2>3. CASE SpinLeave(t)
    <3>1. arrivedBar' = arrivedBar /\ releasedBar' = releasedBar /\ aborted' = aborted
      BY <2>3 DEF SpinLeave, Goto
    <3> QED
      BY <3>1 DEF AB!vars
  <2>4. CASE SpinGiveUp(t)
    <3>1. arrivedBar' = arrivedBar /\ releasedBar' = releasedBar /\ aborted' = aborted
      BY <2>4 DEF SpinGiveUp, Goto
    <3> QED
      BY <3>1 DEF AB!vars
  <2>5. CASE LockPark(t)
    <3>1. arrivedBar' = arrivedBar /\ releasedBar' = releasedBar /\ aborted' = aborted
      BY <2>5 DEF LockPark, Goto, Acquire
    <3> QED
      BY <3>1 DEF AB!vars
  <2>6. CASE TestGeneration(t)
    <3>1. arrivedBar' = arrivedBar /\ releasedBar' = releasedBar /\ aborted' = aborted
      BY <2>6 DEF TestGeneration, Goto
    <3> QED
      BY <3>1 DEF AB!vars
  <2>7. CASE TestAbort(t)
    <3>1. arrivedBar' = arrivedBar /\ releasedBar' = releasedBar /\ aborted' = aborted
      BY <2>7 DEF TestAbort, Goto
    <3> QED
      BY <3>1 DEF AB!vars
  <2>8. CASE Sleep(t)
    <3>1. arrivedBar' = arrivedBar /\ releasedBar' = releasedBar /\ aborted' = aborted
      BY <2>8 DEF Sleep, Goto, Release
    <3> QED
      BY <3>1 DEF AB!vars
  <2>9. CASE Relock(t)
    <3>1. arrivedBar' = arrivedBar /\ releasedBar' = releasedBar /\ aborted' = aborted
      BY <2>9 DEF Relock, Goto, Acquire
    <3> QED
      BY <3>1 DEF AB!vars
  <2>10. CASE UnlockPark(t)
    <3>1. arrivedBar' = arrivedBar /\ releasedBar' = releasedBar /\ aborted' = aborted
      BY <2>10 DEF UnlockPark, Goto, Release
    <3> QED
      BY <3>1 DEF AB!vars
  <2>11. CASE Refill(t)
    <3>1. arrivedBar' = arrivedBar /\ releasedBar' = releasedBar /\ aborted' = aborted
      BY <2>11 DEF Refill, Goto
    <3> QED
      BY <3>1 DEF AB!vars
  <2>12. CASE LockBump(t)
    <3>1. arrivedBar' = arrivedBar /\ releasedBar' = releasedBar /\ aborted' = aborted
      BY <2>12 DEF LockBump, Goto, Acquire
    <3> QED
      BY <3>1 DEF AB!vars
  <2>13. CASE Bump(t)
    <3>1. \A u \in Threads \ {t} : pc[u] \in Waiting /\ myGeneration[u] = mGeneration
      BY <2>13 DEF Bump, OneOpens
    <3>2. myGeneration[t] = mGeneration
      BY <2>13 DEF Bump, SnapshotInv
    <3>3. /\ arrivedBar \cup {t} = Threads
          /\ AB!Outside(t)
      BY <2>13, <3>1, <3>2 DEF Bump, AB!Outside
    <3>4. \A u \in Threads : Inside(u)' /\ myGeneration'[u] # mGeneration'
      BY <2>13, <3>1, <3>2, NextGenerationFacts DEF Bump, Goto
    <3>5. arrivedBar' = {} /\ releasedBar' = Threads
      BY <3>4
    <3>6. AB!ArriveLast(t)
      BY <2>13, <3>3, <3>5 DEF Bump, AB!ArriveLast
    <3> QED
      BY <3>6 DEF AB!Next
  <2>14. CASE Swap(t)
    <3>1. arrivedBar' = arrivedBar /\ releasedBar' = releasedBar /\ aborted' = aborted
      BY <2>14 DEF Swap, Goto
    <3> QED
      BY <3>1 DEF AB!vars
  <2>15. CASE Notify(t)
    <3>1. \A u \in Threads : Inside(u)' <=> Inside(u)
      BY <2>15 DEF Notify, NotifyAll
    <3>2. arrivedBar' = arrivedBar /\ releasedBar' = releasedBar /\ aborted' = aborted
      BY <2>15, <3>1 DEF Notify
    <3> QED
      BY <3>2 DEF AB!vars
  <2>16. CASE UnlockBump(t)
    <3>1. arrivedBar' = arrivedBar /\ releasedBar' = releasedBar /\ aborted' = aborted
      BY <2>16 DEF UnlockBump, Goto, Release
    <3> QED
      BY <3>1 DEF AB!vars
  <2>17. CASE CheckAbort(t)
    <3>1. CASE aborted
      <4>1. arrivedBar' = arrivedBar /\ releasedBar' = releasedBar /\ aborted' = aborted
        BY <2>17, <3>1 DEF CheckAbort, Goto
      <4> QED
        BY <4>1 DEF AB!vars
    <3>2. CASE ~aborted
      <4>1. /\ t \in releasedBar
            /\ arrivedBar' = arrivedBar \ {t}
            /\ releasedBar' = releasedBar \ {t}
        BY <2>17, <3>2 DEF CheckAbort, Goto, SnapshotInv
      <4>2. AB!Leave(t)
        BY <2>17, <4>1 DEF CheckAbort, AB!Leave
      <4> QED
        BY <4>2 DEF AB!Next
    <3> QED
      BY <3>1, <3>2
  <2>18. CASE TellAbort(t)
    <3>1. aborted /\ t \in arrivedBar \cup releasedBar
      BY <2>18 DEF TellAbort, SnapshotInv
    <3>2. \A u \in Threads : Inside(u)' <=> Inside(u) /\ u # t
      BY <2>18 DEF TellAbort, NotifyAll
    <3>3. arrivedBar' = arrivedBar \ {t} /\ releasedBar' = releasedBar \ {t}
      BY <2>18, <3>2 DEF TellAbort
    <3>4. AB!Leave(t)
      BY <2>18, <3>1, <3>3 DEF TellAbort, AB!Leave
    <3> QED
      BY <3>4 DEF AB!Next
  <2>19. CASE SpuriousWakeup(t)
    <3>1. arrivedBar' = arrivedBar /\ releasedBar' = releasedBar /\ aborted' = aborted
      BY <2>19 DEF SpuriousWakeup, Goto
    <3> QED
      BY <3>1 DEF AB!vars
  <2>20. CASE SetAborted(t)
    <3>1. ~aborted
      BY <2>20 DEF SetAborted, SpacesAborted
    <3>2. arrivedBar' = arrivedBar /\ releasedBar' = releasedBar
      BY <2>20 DEF SetAborted, Goto
    <3>3. AB!Abort
      BY <2>20, <3>1, <3>2 DEF SetAborted, AB!Abort
    <3> QED
      BY <3>3 DEF AB!Next
  <2>21. CASE AbortNotify(t)
    <3>1. \A u \in Threads : Inside(u)' <=> Inside(u)
      BY <2>21 DEF AbortNotify, NotifyAll
    <3>2. arrivedBar' = arrivedBar /\ releasedBar' = releasedBar /\ aborted' = aborted
      BY <2>21, <3>1 DEF AbortNotify
    <3> QED
      BY <3>2 DEF AB!vars
  <2>22. CASE AbortBump(t)
    <3>1. aborted /\ pc[Controller] # "done"
      BY <2>22 DEF AbortBump, SnapshotInv, AbortInv
    <3>2. \A u \in Threads : Inside(u)' <=> Inside(u)
      BY <2>22 DEF AbortBump, Goto
    <3>3. \A u \in Threads : Inside(u) => myGeneration'[u] # mGeneration'
      BY <2>22, <3>1, NextTwice, NextGenerationFacts DEF AbortBump, RecentInv
    <3>4. arrivedBar' = {} /\ releasedBar' = releasedBar \cup arrivedBar
      BY <3>2, <3>3
    <3>5. AB!BreakOpen
      BY <2>22, <3>1, <3>4 DEF AbortBump, AB!BreakOpen
    <3> QED
      BY <3>5 DEF AB!Next
  <2> QED
    BY <1>2, <2>1, <2>2, <2>3, <2>4, <2>5, <2>6, <2>7, <2>8, <2>9, <2>10, <2>11,
       <2>12, <2>13, <2>14, <2>15, <2>16, <2>17, <2>18, <2>19, <2>20, <2>21, <2>22 DEF WaitStep, AbortStep
<1> QED
  BY <1>1, <1>2 DEF Next

\* Where the counter is no wider than its snapshot, MixedBarrier implements
\* AbstractBarrier: nobody is released before everybody has arrived, unless
\* the barrier is aborted (barrier.h:65-73).
THEOREM BarrierRefinement == ASSUME Narrow PROVE Spec => RefinesBarrier
<1>1. Init => AB!Init
  BY DEF Init, AB!Init, arrivedBar, releasedBar, Held, Inside, Waiting, Parking, Opening, Leaving
<1>2. IInv /\ [Next]_vars => [AB!Next]_(AB!vars)
  BY RefinementStep
<1>3. Spec => []IInv
  BY BarrierInvariant
<1> QED
  BY <1>1, <1>2, <1>3, PTL DEF Spec, RefinesBarrier, AB!Spec
=============================================================================
