------------------------------- MODULE RxQueue -------------------------------
(****************************************************************************)
(* What the receive rings promise, with no ring in sight: the frames of the *)
(* wire wait in one queue of bounded length and are taken from it in the    *)
(* order they came.  Every good frame is handed on once, every bad one is   *)
(* passed over, nothing leaves the queue in any other way, and nothing      *)
(* arrives before the MAC is enabled or while the queue is full.            *)
(****************************************************************************)
EXTENDS Integers, Sequences

CONSTANT Capacity   \* frames that may wait

VARIABLES
  up,      \* frames can arrive
  queue,   \* the frames that wait, oldest first: "good" or "bad"
  phase    \* the oldest is "unseen", to be given ("give"), or done with ("seen")

vars == <<up, queue, phase>>

Init == up = FALSE /\ queue = <<>> /\ phase = "unseen"

Enable == ~up /\ up' = TRUE /\ UNCHANGED <<queue, phase>>

Arrive(frame) ==
  /\ up
  /\ Len(queue) < Capacity
  /\ queue' = Append(queue, frame)
  /\ UNCHANGED <<up, phase>>

Judge ==
  /\ phase = "unseen"
  /\ queue # <<>>
  /\ phase' = IF Head(queue) = "good" THEN "give" ELSE "seen"
  /\ UNCHANGED <<up, queue>>

Give == phase = "give" /\ phase' = "seen" /\ UNCHANGED <<up, queue>>

Remove ==
  /\ phase = "seen"
  /\ queue' = Tail(queue)
  /\ phase' = "unseen"
  /\ UNCHANGED up

Next == Enable \/ (\E frame \in {"good", "bad"} : Arrive(frame)) \/ Judge \/ Give \/ Remove

Spec == Init /\ [][Next]_vars

=============================================================================
