---------------------------- MODULE PlannerQueue ----------------------------
(***************************************************************************)
(* What the planner promises as a buffer: a bounded first-in first-out     *)
(* queue of motions.  A motion is never lost, duplicated, reordered or     *)
(* changed between the moment it is accepted and the moment the stepper    *)
(* has used it up; all are dropped at once only with the machine stopped.  *)
(***************************************************************************)
EXTENDS Naturals, Sequences

CONSTANTS Capacity,     \* blocks that can be queued
          QueuedMotions \* what a block says of its motion

VARIABLES queue,
          speed         \* of the machine, where its segments end

Init == queue = <<>> /\ speed = 0

Put == /\ Len(queue) < Capacity
       /\ \E m \in QueuedMotions : queue' = Append(queue, m)
       /\ UNCHANGED speed

Take == /\ queue # <<>>
        /\ queue' = Tail(queue)
        /\ speed' \in Nat

Drive == /\ speed' \in Nat
         /\ UNCHANGED queue

Clear == queue' = <<>> /\ speed' = 0

Next == Put \/ Take \/ Drive \/ Clear

Spec == Init /\ [][Next]_<<queue, speed>>
=============================================================================
