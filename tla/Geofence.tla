------------------------------- MODULE Geofence -------------------------------
(***************************************************************************)
(* Geofence::loop() of lib/geofence: per zone, a side that evaluations have  *)
(* agreed on for the verification time raises the events of that side, on     *)
(* every evaluation from then on.                                           *)
(*                                                                         *)
(* The geometry is left out: a zone has the side the device is on.  Ages      *)
(* count seconds, up to MaxVerif.  A poor position ends the evaluation of      *)
(* every enabled zone; the index that its callback is given is not kept        *)
(* right, and nobody reads it.                                              *)
(***************************************************************************)
EXTENDS Naturals

CONSTANTS Zones,
          Verifs   \* values of verification_time_sec

MaxVerif == CHOOSE m \in Verifs : \A v \in Verifs : v <= m

ASSUME GeofenceAssumption ==
    /\ Verifs \subseteq Nat /\ MaxVerif \in Verifs
    /\ \A v \in Verifs : v <= MaxVerif

VARIABLES
    side,     \* the side of each zone that the device is on
    enable, verif, \* the configuration of the zones
    prev,     \* prev_event
    pending,  \* pending_event
    elapsed,  \* the age of pending_time_ms
    seen,     \* age of the last good evaluation that saw each side
    stale     \* verif was zero, and the pending event not followed

geofenceVars == <<side, enable, verif, prev, pending, elapsed, seen, stale>>

Sides == {"OUTSIDE", "INSIDE"}
Other(s) == IF s = "OUTSIDE" THEN "INSIDE" ELSE "OUTSIDE"
Aged(a) == IF a < MaxVerif THEN a + 1 ELSE a

GeofenceTypeOK ==
    /\ side \in [Zones -> Sides]
    /\ enable \in [Zones -> BOOLEAN] /\ verif \in [Zones -> Verifs]
    /\ prev \in [Zones -> Sides \cup {"UNKNOWN"}]
    /\ pending \in [Zones -> Sides \cup {"UNKNOWN"}]
    /\ elapsed \in [Zones -> 0 .. MaxVerif]
    /\ seen \in [Zones -> [Sides -> 0 .. MaxVerif]]
    /\ stale \in [Zones -> BOOLEAN]

GeofenceInit ==
    /\ side \in [Zones -> Sides]
    /\ enable \in [Zones -> BOOLEAN] /\ verif \in [Zones -> Verifs]
    /\ prev = [z \in Zones |-> "UNKNOWN"] /\ pending = [z \in Zones |-> "UNKNOWN"]
    /\ elapsed = [z \in Zones |-> 0]
    /\ seen = [z \in Zones |-> [s \in Sides |-> MaxVerif]]
    /\ stale = [z \in Zones |-> FALSE]

-----------------------------------------------------------------------------
(* The zones and the device.                                               *)

Crosses(z) ==
    /\ side' = [side EXCEPT ![z] = Other(@)]
    /\ UNCHANGED <<enable, verif, prev, pending, elapsed, seen, stale>>

\* A zone is configured in place: what was pending for it stays.
Configure(z, on, v) ==
    /\ enable' = [enable EXCEPT ![z] = on] /\ verif' = [verif EXCEPT ![z] = v]
    /\ stale' = [stale EXCEPT ![z] = @ \/ verif[z] = 0]
    /\ UNCHANGED <<side, prev, pending, elapsed, seen>>

GeofenceSecond ==
    /\ elapsed' = [z \in Zones |-> Aged(elapsed[z])]
    /\ seen' = [z \in Zones |-> [s \in Sides |-> Aged(seen[z][s])]]
    /\ UNCHANGED <<side, enable, verif, prev, pending, stale>>

-----------------------------------------------------------------------------
(* IsEventTriggered(): "stable" when the pending side is still the side.      *)

Stable(z) == verif[z] = 0 \/ pending[z] = side[z]
Restarts_once(z) == pending[z] = "UNKNOWN"
Restarts(z) == pending[z] = "UNKNOWN" \/ ~Stable(z)
Triggered(z) ==
    /\ Stable(z)
    /\ IF Restarts(z) THEN verif[z] = 0 ELSE elapsed[z] >= verif[z]

AnyGeofenceEnabled == \E z \in Zones : enable[z]

GeofenceLoop ==
    LET good == {z \in Zones : enable[z]}
        restarted == {z \in good : Restarts(z)}
    IN
    /\ pending' = [z \in Zones |-> IF z \in restarted THEN side[z] ELSE pending[z]]
    /\ elapsed' = [z \in Zones |-> IF z \in restarted THEN 0 ELSE elapsed[z]]
    /\ stale' = [z \in Zones |-> stale[z] /\ z \notin restarted]
    /\ prev' = [z \in Zones |-> IF z \in good /\ Triggered(z) THEN side[z] ELSE prev[z]]
    /\ seen' = [z \in Zones |-> IF z \in good THEN [seen[z] EXCEPT ![side[z]] = 0]
                                ELSE seen[z]]
    /\ UNCHANGED <<side, enable, verif>>

\* The callbacks, with all four events of a zone configured.
Events(z) ==
    IF ~enable[z] \/ ~Triggered(z) THEN {}
    ELSE {side[z]} \cup (IF prev[z] # Other(side[z]) THEN {}
                         ELSE {IF side[z] = "OUTSIDE" THEN "EXIT" ELSE "ENTER"})

-----------------------------------------------------------------------------
(* An event is raised only when no evaluation in the verification time has    *)
(* seen the other side (config-schema.json, "verif"), however the device      *)
(* moved, whatever positions were poor and however the zones were disabled    *)
(* and enabled; a verification time that has just replaced zero is excluded.  *)
DwellSpent ==
    \A z \in Zones :
        Events(z) # {} => stale[z] \/ seen[z][Other(side[z])] >= verif[z]
=============================================================================
