--------------------------- MODULE AbstractBarrier ---------------------------
(***************************************************************************)
(* What MixedBarrier::Wait promises, and nothing of how it keeps it        *)
(* (internal/barrier.h:64-73).                                             *)
(*                                                                         *)
(* A thread is outside the barrier, or has `arrived' and is held, or has   *)
(* been `released' and may return.  The arrival of the last thread         *)
(* releases everybody at once.  After an abort a held thread may return    *)
(* without the others, and the barrier can be broken open.                 *)
(***************************************************************************)
CONSTANT Threads

VARIABLES arrived,    \* the threads held at the barrier
          released,   \* the threads let go that have not yet returned
          aborted     \* the flag handed to every Wait

vars == <<arrived, released, aborted>>

Init ==
  /\ arrived = {}
  /\ released = {}
  /\ aborted = FALSE

Outside(t) == t \notin arrived \cup released

\* A thread arrives; there are others to wait for.
Arrive(t) ==
  /\ Outside(t)
  /\ arrived \cup {t} # Threads
  /\ arrived' = arrived \cup {t}
  /\ UNCHANGED <<released, aborted>>

\* The last thread arrives: all of them, and only now, are released.
ArriveLast(t) ==
  /\ Outside(t)
  /\ arrived \cup {t} = Threads
  /\ arrived' = {}
  /\ released' = Threads
  /\ UNCHANGED aborted

\* A released thread returns; any thread may once the barrier is aborted.
Leave(t) ==
  /\ \/ t \in released
     \/ aborted /\ t \in arrived
  /\ arrived' = arrived \ {t}
  /\ released' = released \ {t}
  /\ UNCHANGED aborted

Abort ==
  /\ ~aborted
  /\ aborted' = TRUE
  /\ UNCHANGED <<arrived, released>>

\* After an abort every held thread is let go at once ...
BreakOpen ==
  /\ aborted
  /\ arrived' = {}
  /\ released' = released \cup arrived
  /\ UNCHANGED aborted

\* ... and one that comes later is not held at all.
ArriveAborted(t) ==
  /\ aborted
  /\ Outside(t)
  /\ released' = released \cup {t}
  /\ UNCHANGED <<arrived, aborted>>

Next ==
  \/ \E t \in Threads : Arrive(t) \/ ArriveLast(t) \/ Leave(t) \/ ArriveAborted(t)
  \/ Abort
  \/ BreakOpen

Spec == Init /\ [][Next]_vars
=============================================================================
