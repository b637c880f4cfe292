------------------------------ MODULE EdgePower ------------------------------
(***************************************************************************)
(* The power decisions of Edge::loop(): ChargeControl and BatteryMonitor     *)
(* around one battery.  They share no variable; what the first decides the    *)
(* second hears of from Device OS, since a battery is reported as charging    *)
(* only while it is plugged in and charging is not disabled.                 *)
(***************************************************************************)
EXTENDS ChargeControl, BatteryMonitor

VARIABLES
    plugged, \* there is external power
    charge   \* the state of charge

vars == <<chargeVars, batteryVars, plugged, charge>>

TypeOK ==
    /\ ChargeTypeOK /\ BatteryTypeOK
    /\ plugged \in BOOLEAN /\ charge \in Charges

\* System.batteryState(), decoded.
Battery == IF plugged /\ ~disabled THEN "DONT_CARE" ELSE "CARE"

Init ==
    /\ ChargeInit /\ BatteryInit
    /\ plugged \in BOOLEAN /\ charge \in Charges

-----------------------------------------------------------------------------
World == UNCHANGED <<plugged, charge>>

TemperatureTick == EvaluateCharge /\ World /\ UNCHANGED batteryVars
TemperatureChanges == TempChanges /\ World /\ UNCHANGED batteryVars
Application ==
    /\ \E v \in BOOLEAN : ForceDisableCharging(v)
    /\ World /\ UNCHANGED batteryVars

\* Device OS reports a state that is new.
Report ==
    /\ Battery # reported
    /\ BatteryReport(Battery)
    /\ World /\ UNCHANGED chargeVars
Alert ==
    /\ charge < Cutoff /\ ~lowBatteryEvent
    /\ LowBatteryAlert
    /\ World /\ UNCHANGED chargeVars
Second == SecondPasses /\ World /\ UNCHANGED chargeVars

MonitorBegins ==
    /\ DelayEnds(Battery) \/ StoreFound \/ TakeCopy
    /\ World /\ UNCHANGED chargeVars
MonitorEnds ==
    /\ \/ (Settle \/ NotDue) /\ UNCHANGED faults
       \/ \E error \in BOOLEAN : Evaluate(charge, error) /\ Fault(error)
    /\ World
    /\ UNCHANGED <<temp, chargeTempState, safe, forced, disabled, current, measured,
                   missed, moves>>

Plug ==
    /\ Move /\ plugged' = ~plugged
    /\ UNCHANGED <<charge, temp, chargeTempState, safe, forced, disabled, current,
                   measured, missed, faults, batteryVars>>
\* Charging raises the charge, using the device lowers it.
ChargeMoves ==
    /\ Move /\ charge' \in Charges
    /\ IF Battery = "CARE" THEN charge' < charge ELSE charge' # charge
    /\ UNCHANGED <<plugged, temp, chargeTempState, safe, forced, disabled, current,
                   measured, missed, faults, batteryVars>>

\* A reset, or the end of a shutdown: shipping mode is left on external power.
Reboot == ChargeBoot /\ BatteryBoot /\ World

Next ==
    \/ TemperatureTick \/ TemperatureChanges \/ Application
    \/ Report \/ Alert \/ Second \/ MonitorBegins \/ MonitorEnds
    \/ Plug \/ ChargeMoves \/ Reboot

Spec == Init /\ [][Next]_vars

\* The loop keeps running, time passes, and Device OS reports.
FairSpec ==
    /\ Spec
    /\ WF_vars(TemperatureTick) /\ WF_vars(MonitorBegins) /\ WF_vars(MonitorEnds)
    /\ WF_vars(Second) /\ WF_vars(Report)

-----------------------------------------------------------------------------
(* Charging comes back: at a temperature between the limits, and with         *)
(* nothing forcing it off, the battery ends up charged with the high current, *)
(* whatever the limits, forced periods, failed readings and resets before.    *)
Comfortable == temp >= LowLimit + Hyst /\ temp <= ReducedLimit - Hyst /\ ~forced
ChargeResumes ==
    <>[]Comfortable => <>[](missed \/ (~disabled /\ current = "high"))

(* One good reading at such a temperature is enough, unless a write fails:   *)
(* nothing that happened before keeps charging off or the current low.        *)
ReadingRestores ==
    [][TemperatureTick /\ Comfortable /\ faults' = faults
       => missed \/ (~disabled' /\ current' = "high")]_vars

(* A device that runs on a battery below the cut-off, unplugged or with       *)
(* charging disabled, shuts down (edge.cpp:485), unless a report was lost.     *)
LowBatteryStops ==
    [](charge <= Cutoff /\ Battery = "CARE") ~> (shutdown \/ lost)

(* It does so at the first evaluation: once the report has been taken over,   *)
(* no warning, alert or earlier charge stands in the way.                     *)
EvaluationStops ==
    [][/\ MonitorEnds /\ evalAge = EvalInterval /\ faults' = faults /\ ~delayed
       /\ reported = "CARE" /\ pending = NoReport /\ charge <= Cutoff
       => shutdown' \/ lost]_vars

(* A shutdown has a reason: an alert, or a charge at the cut-off on a battery  *)
(* of which the last report, or one that this report replaced less than the   *)
(* debounce time ago, said that it matters.                                  *)
ShutdownJustified ==
    [][~shutdown /\ shutdown' =>
          \/ lowBatteryEvent
          \/ charge <= Cutoff
               /\ \/ reported = "CARE" \/ lost
                  \/ pending # NoReport /\ pending.age < Debounce]_vars
=============================================================================
