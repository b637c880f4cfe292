------------------------------ MODULE PublishQueue -----------------------------
(***************************************************************************)
(* What the background publisher promises to its callers: one bounded FIFO *)
(* per priority level, an event leaves its queue only from the front, at    *)
(* most one event is with the cloud, and an event that was offered is        *)
(* refused, or accepted and then finished or cancelled, exactly once.       *)
(***************************************************************************)
EXTENDS Naturals, Sequences

CONSTANTS NumQueues, MaxEntries, Events, NoEvent

VARIABLES
    offered,    \* events whose publish() has not returned
    pending,    \* accepted events, per level
    inFlight    \* the event with the cloud

vars == <<offered, pending, inFlight>>

Levels == 0 .. NumQueues - 1

Known(e) ==
    \/ e \in offered
    \/ inFlight = e
    \/ \E q \in Levels : \E k \in 1 .. Len(pending[q]) : pending[q][k] = e

Init ==
    /\ offered = {}
    /\ pending = [q \in Levels |-> <<>>]
    /\ inFlight = NoEvent

Offer(e) ==
    /\ ~Known(e)
    /\ offered' = offered \cup {e}
    /\ UNCHANGED <<pending, inFlight>>

Refuse(e) ==
    /\ e \in offered
    /\ \E q \in Levels : Len(pending[q]) >= MaxEntries
    /\ offered' = offered \ {e}
    /\ UNCHANGED <<pending, inFlight>>

Accept(e, q) ==
    /\ e \in offered
    /\ Len(pending[q]) < MaxEntries
    /\ offered' = offered \ {e}
    /\ pending' = [pending EXCEPT ![q] = Append(@, e)]
    /\ UNCHANGED inFlight

Begin(q) ==
    /\ inFlight = NoEvent
    /\ pending[q] # <<>>
    /\ inFlight' = Head(pending[q])
    /\ pending' = [pending EXCEPT ![q] = Tail(@)]
    /\ UNCHANGED offered

Finish ==
    /\ inFlight # NoEvent
    /\ inFlight' = NoEvent
    /\ UNCHANGED <<offered, pending>>

\* Never while an event is with the cloud: cancellation is the last word.
Cancel(q) ==
    /\ inFlight = NoEvent
    /\ pending[q] # <<>>
    /\ pending' = [pending EXCEPT ![q] = Tail(@)]
    /\ UNCHANGED <<offered, inFlight>>

Next ==
    \/ \E e \in Events : Offer(e) \/ Refuse(e) \/ \E q \in Levels : Accept(e, q)
    \/ \E q \in Levels : Begin(q) \/ Cancel(q)
    \/ Finish

Spec == Init /\ [][Next]_vars
=============================================================================
