--------------------------- MODULE MCMixedBarrier ---------------------------
(***************************************************************************)
(* MixedBarrier with a history: how often each thread has arrived at and   *)
(* returned from the barrier.  The counts are bounded by MaxWaits so that  *)
(* TLC's graph is finite; the generations wrap around long before.         *)
(***************************************************************************)
EXTENDS MixedBarrier

CONSTANT MaxWaits   \* calls of Wait per thread

VARIABLES arrivals, returns

history == <<arrivals, returns>>

HInit ==
  /\ Init
  /\ arrivals = [t \in Threads |-> 0]
  /\ returns = [t \in Threads |-> 0]

HEnter(t) ==
  /\ arrivals[t] < MaxWaits
  /\ Enter(t)
  /\ UNCHANGED history

HStep(t) ==
  /\ WaitStep(t)
  /\ arrivals' = [arrivals EXCEPT ![t] = IF pc[t] = "dec" THEN @ + 1 ELSE @]
  /\ returns' = [returns EXCEPT ![t] = IF pc[t] = "checkAbort" THEN @ + 1 ELSE @]

HOther(t) ==
  /\ SpuriousWakeup(t) \/ SetAborted(t) \/ AbortStep(t)
  /\ UNCHANGED history

HNext == \E t \in Threads : HEnter(t) \/ HStep(t) \/ HOther(t)

HSpec == HInit /\ [][HNext]_<<vars, history>>

\* "all threads have waited for each other to reach the barrier" (barrier.h:72):
\* until an abort, a thread has returned from its k-th Wait only if every
\* thread has arrived for its k-th.
MetAtBarrier ==
  ~aborted => \A t, u \in Threads : returns[t] <= arrivals[u]
=============================================================================
