----------------------------- MODULE EdgeLocation -----------------------------
(***************************************************************************)
(* EdgeLocation::loop() as a whole: the geofence is evaluated on every pass  *)
(* with a stable lock, its events are triggers, and the decision to publish   *)
(* is taken in the same pass.                                               *)
(***************************************************************************)
EXTENDS Geofence, LocationPublish

vars == <<geofenceVars, locationVars>>

TypeOK == GeofenceTypeOK /\ LocationTypeOK

Init == GeofenceInit /\ LocationInit

\* hdop > _maximumDop: no zone is evaluated.
Pass(poor) ==
    LET evaluated == gnss = "LOCKED" /\ AnyGeofenceEnabled /\ ~poor IN
    /\ IF evaluated THEN GeofenceLoop ELSE UNCHANGED geofenceVars
    /\ LocationPass(evaluated /\ \E z \in Zones : Events(z) # {})

Second == LocationSecond /\ GeofenceSecond

Moves == \E z \in Zones : Crosses(z) /\ UNCHANGED locationVars
Configures ==
    /\ \E z \in Zones, on \in BOOLEAN, v \in Verifs : Configure(z, on, v)
    /\ UNCHANGED locationVars

Requests == \E now \in BOOLEAN : TriggerLocPub(now) /\ UNCHANGED geofenceVars
Environment ==
    /\ Connection \/ GnssChanges \/ Acknowledged
    /\ UNCHANGED geofenceVars

Next ==
    \/ \E poor \in BOOLEAN : Pass(poor)
    \/ Second \/ Moves \/ Configures \/ Requests \/ Environment

Spec == Init /\ [][Next]_vars

-----------------------------------------------------------------------------
(* A crossing is reported: the side that a zone stands by changes only in a    *)
(* pass that raises the event of the change, and this pass publishes or       *)
(* leaves a trigger pending, whatever lock, connection and intervals say.     *)
CrossingReported ==
    [][\A z \in Zones :
          prev[z] # "UNKNOWN" /\ prev'[z] # prev[z] =>
             /\ (IF prev'[z] = "OUTSIDE" THEN "EXIT" ELSE "ENTER") \in Events(z)
             /\ lastAge' = 0 \/ requested']_vars
=============================================================================
