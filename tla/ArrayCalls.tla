----------------------------- MODULE ArrayCalls -----------------------------
(***************************************************************************)
(* What the calls of StoreEntryPoint are promised: each has an array of    *)
(* pending variables that no other has, and finds it again when the calls  *)
(* it makes have returned.  The arrays of calls left by an exception stay  *)
(* where they are until the message is deleted.                            *)
(***************************************************************************)
EXTENDS Integers, Sequences

CONSTANT Arrays

VARIABLES calls, abandoned, refused

vars == <<calls, abandoned, refused>>
Used == abandoned \cup {calls[i] : i \in DOMAIN calls}

Init == calls = <<>> /\ abandoned = {} /\ refused = FALSE

Enter(a) ==
  /\ ~refused
  /\ a \notin Used
  /\ calls' = Append(calls, a)
  /\ UNCHANGED <<abandoned, refused>>

Leave ==
  /\ calls # <<>>
  /\ calls' = SubSeq(calls, 1, Len(calls) - 1)
  /\ UNCHANGED <<abandoned, refused>>

\* Exceptions of the library are the last thing that happens.
Throw ==
  /\ calls # <<>>
  /\ calls' = <<>> /\ abandoned' = Used
  /\ refused' \in {refused, TRUE}

Delete == calls = <<>> /\ abandoned' = {} /\ refused' = TRUE /\ UNCHANGED calls

Next == (\E a \in Arrays : Enter(a)) \/ Leave \/ Throw \/ Delete

Spec == Init /\ [][Next]_vars
=============================================================================
