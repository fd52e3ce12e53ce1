----------------------------- MODULE ByteSource -----------------------------
(***************************************************************************)
(* What a reader promises the messages that share it: one sequence of      *)
(* bytes, 1 to Length in this order, and one position in it, however many  *)
(* readers take turns and whatever they buffer.                            *)
(***************************************************************************)
EXTENDS Integers, Sequences

CONSTANTS Sizes         \* how many bytes a call may ask for

VARIABLES length, position, answer

NoAnswer == [to |-> "nothing", bytes |-> <<>>]

Bytes(first, last) == [k \in 1 .. (last - first + 1) |-> first + k - 1]
Reach(n) == IF position + n < length THEN position + n ELSE length

Init ==
  /\ length = 0
  /\ position = 0
  /\ answer = NoAnswer

\* All that was asked for.
Read(n) ==
  /\ position + n <= length
  /\ answer' = [to |-> "read", bytes |-> Bytes(position + 1, position + n)]
  /\ position' = position + n

\* An exception: the end is nearer.
Fail(n) ==
  /\ position + n > length
  /\ answer' = [to |-> "failed", bytes |-> <<>>]
  /\ position' = length

\* A block may be cut short, without a word.
Block(n) ==
  /\ answer' = [to |-> "block", bytes |-> Bytes(position + 1, Reach(n))]
  /\ position' = Reach(n)

Skip(n) ==
  /\ answer' = [to |-> "skip", bytes |-> <<>>]
  /\ position' = Reach(n)

\* The writers fill the source before anybody reads.
Fill ==
  /\ position = 0 /\ answer = NoAnswer
  /\ length' > length
  /\ UNCHANGED <<position, answer>>

Next ==
  \/ Fill
  \/ /\ \E n \in Sizes : Read(n) \/ Fail(n) \/ Block(n) \/ Skip(n)
     /\ UNCHANGED length

Spec == Init /\ [][Next]_<<length, position, answer>>

=============================================================================
