------------------------------ MODULE TxChannel ------------------------------
(****************************************************************************)
(* What the transmit path promises about packets, with no descriptors,      *)
(* locks or doorbells in sight.  One packet is with the engine at a time,   *)
(* and leaves once before the next is handed over.  The promise ends when a *)
(* packet that has not left is taken back.                                  *)
(****************************************************************************)
CONSTANTS Packets, None

VARIABLES
  waiting,  \* handed over and not begun
  sending,  \* the packet going out, or None
  ended     \* a packet has been taken back

vars == <<waiting, sending, ended>>

Init == waiting = {} /\ sending = None /\ ended = FALSE

Hand ==
  /\ ~ended /\ waiting = {} /\ sending = None
  /\ \E p \in Packets : waiting' = {p}
  /\ UNCHANGED <<sending, ended>>

Begin ==
  /\ sending = None
  /\ \E p \in waiting : sending' = p /\ waiting' = waiting \ {p}
  /\ UNCHANGED ended

Finish == sending # None /\ sending' = None /\ UNCHANGED <<waiting, ended>>

TakeBack ==
  /\ ~ended /\ (waiting # {} \/ sending # None)
  /\ waiting' = {} /\ sending' = None /\ ended' = TRUE

Next == Hand \/ Begin \/ Finish \/ TakeBack

Spec == Init /\ [][Next]_vars

=============================================================================
