----------------------------- MODULE CodeEntry ------------------------------
(***************************************************************************)
(* What a row of boxes for a code should be: digits are appended and taken *)
(* away at the end, and the code is handed over when it is complete.       *)
(***************************************************************************)
EXTENDS Sequences, Naturals

CONSTANTS Digits, Length

VARIABLES entered,    \* the digits so far
          completed   \* the code handed over last

vars == <<entered, completed>>

Init == entered = <<>> /\ completed = <<>>

Enter(d) ==
  /\ Len(entered) < Length
  /\ entered' = Append(entered, d)
  /\ completed' = IF Len(entered') = Length THEN entered' ELSE completed

Erase ==
  /\ entered # <<>>
  /\ entered' = SubSeq(entered, 1, Len(entered) - 1)
  /\ UNCHANGED completed

Next == Erase \/ \E d \in Digits : Enter(d)

Spec == Init /\ [][Next]_vars
=============================================================================
