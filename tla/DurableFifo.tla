----------------------------- MODULE DurableFifo -----------------------------
(***************************************************************************)
(* What DiskQueue promises: messages, numbered in the order they are       *)
(* pushed, come out in that order, none twice, across power losses.  Room  *)
(* is made by giving up messages at one end, never in the middle.          *)
(***************************************************************************)
EXTENDS Naturals, Sequences

VARIABLES
    queue,  \* the messages kept, oldest first
    made    \* messages pushed so far: the number of the last one

vars == <<queue, made>>

Init == queue = <<>> /\ made = 0

(* A message is kept; overflow may cost messages at either end. *)
Keep ==
    /\ made' = made + 1
    /\ \E first \in 1..Len(queue) + 2, last \in 0..Len(queue) + 1 :
         queue' = SubSeq(Append(queue, made'), first, last)

(* A message is refused, or its write fails or is torn by a power loss. *)
Refuse == made' = made + 1 /\ UNCHANGED queue

(* The oldest message is consumed. *)
Take == queue # <<>> /\ queue' = Tail(queue) /\ UNCHANGED made

(* Storing is switched off; a power loss may spare the newest. *)
Clear ==
    /\ \E first \in 1..Len(queue) + 1 : queue' = SubSeq(queue, first, Len(queue))
    /\ UNCHANGED made

Next == Keep \/ Refuse \/ Take \/ Clear

Spec == Init /\ [][Next]_vars
=============================================================================
