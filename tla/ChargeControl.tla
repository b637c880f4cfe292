---------------------------- MODULE ChargeControl ----------------------------
(***************************************************************************)
(* Charging and temperature: the state machine of                          *)
(* evaluate_charge_temperature() (lib/edge/src/edge_temperature.cpp), the    *)
(* callback that acts on its changes, and forceDisableCharging() of the user *)
(* application (edge.cpp), over a power configuration that survives resets.  *)
(*                                                                         *)
(* Charging is off when the feature DISABLE_CHARGING is set.  Setting the    *)
(* power configuration may fail, and so may reading the sensor: the reading  *)
(* is then zero (get_temperature()).  The application's own setChargeCurrent() *)
(* and the PMIC's registers, which Device OS writes from the configuration,  *)
(* are left out.  The evaluation is not bound to its interval: it may come   *)
(* at any time, which covers 30 seconds and one.                            *)
(***************************************************************************)
EXTENDS Integers

CONSTANTS
    Temps,          \* temperatures in degrees
    HighLimit, ReducedLimit, LowLimit, Hyst, \* ChargeTempHighLimit, ...
    FailedReading,  \* what get_temperature() returns when the sensor fails
    NotMeasured,
    DisableAtBoot,  \* EdgeConfiguration::disableCharging()
    MaxMoves,       \* bound on temperature changes and calls of the application
    MaxFaults       \* bound on failed reads, failed writes and resets

ASSUME ChargeAssumption ==
    /\ Temps \subseteq Int /\ NotMeasured \notin Int
    /\ {HighLimit, ReducedLimit, LowLimit, FailedReading} \subseteq Int /\ Hyst \in Nat
    /\ LowLimit < ReducedLimit /\ ReducedLimit <= HighLimit
    /\ FailedReading <= LowLimit
    /\ DisableAtBoot \in BOOLEAN /\ MaxMoves \in Nat /\ MaxFaults \in Nat

VARIABLES
    temp,            \* the temperature
    chargeTempState,
    safe,            \* _batterySafeToCharge
    forced,          \* _forceDisableCharging
    disabled,        \* SystemPowerFeature::DISABLE_CHARGING
    current,         \* batteryChargeCurrent(): "high" or "low"
    measured,        \* the temperature at the last evaluation since boot
    missed,          \* a write that was needed has failed since boot
    moves, faults

chargeVars == <<temp, chargeTempState, safe, forced, disabled, current, measured,
                missed, moves, faults>>

ChargeStates == {"UNKNOWN", "NORMAL", "OVER_TEMPERATURE", "UNDER_TEMPERATURE",
                 "OVER_CHARGE_REDUCTION"}

ChargeTypeOK ==
    /\ temp \in Temps /\ chargeTempState \in ChargeStates
    /\ safe \in BOOLEAN /\ forced \in BOOLEAN /\ disabled \in BOOLEAN
    /\ current \in {"high", "low"} /\ measured \in Temps \cup {NotMeasured}
    /\ missed \in BOOLEAN
    /\ moves \in 0 .. MaxMoves /\ faults \in 0 .. MaxFaults

Fault(happens) ==
    /\ happens => faults < MaxFaults
    /\ faults' = IF happens THEN faults + 1 ELSE faults
Move == moves < MaxMoves /\ moves' = moves + 1

\* The configuration after a write that may fail.
Written(wanted, present, ok) == IF ok THEN wanted ELSE present

-----------------------------------------------------------------------------
(* initBatteryMonitor(): "safe" is what the configuration was left with.   *)

ChargeInit ==
    /\ temp \in Temps /\ chargeTempState = "UNKNOWN"
    /\ disabled \in BOOLEAN /\ safe = ~disabled
    /\ forced = DisableAtBoot /\ current = "high"
    /\ measured = NotMeasured /\ missed = FALSE
    /\ moves = 0 /\ faults = 0

ChargeBoot ==
    /\ Fault(TRUE)
    /\ chargeTempState' = "UNKNOWN" /\ measured' = NotMeasured
    /\ safe' = ~disabled /\ forced' = DisableAtBoot
    /\ \E ok \in BOOLEAN : current' = Written("high", current, ok)
    /\ missed' = FALSE
    /\ UNCHANGED <<temp, disabled, moves>>

-----------------------------------------------------------------------------
(* The state machine.  Outside the two outer limits the state follows from   *)
(* the temperature alone; between them each limit has its hysteresis.       *)

Held(s, t) ==
    \/ s = "UNDER_TEMPERATURE" /\ t < LowLimit + Hyst
    \/ s \in {"OVER_TEMPERATURE", "OVER_CHARGE_REDUCTION"} /\ t > ReducedLimit - Hyst

Evaluated(s, t) ==
    CASE t <= LowLimit -> "UNDER_TEMPERATURE"
      [] t >= HighLimit -> "OVER_TEMPERATURE"
      [] OTHER ->
           IF t >= ReducedLimit
           THEN IF s = "OVER_TEMPERATURE" /\ t > HighLimit - Hyst
                THEN s ELSE "OVER_CHARGE_REDUCTION"
           ELSE IF Held(s, t) THEN s ELSE "NORMAL"

\* chargeCallback(), called when the state changes.  Whether it is safe to
\* charge is kept although the writes may fail.
ShouldCharge(s) == s \in {"NORMAL", "OVER_CHARGE_REDUCTION"}
SafeAfter_unlessForced(s) == IF forced THEN safe ELSE ShouldCharge(s)
SafeAfter(s) == ShouldCharge(s)
ChargeCallback(s) ==
    LET wanted == IF s = "NORMAL" THEN "high" ELSE "low"
        off == CASE ~ShouldCharge(s) /\ safe -> TRUE
                 [] ShouldCharge(s) /\ ~safe /\ ~forced -> FALSE
                 [] OTHER -> disabled
    IN  \E okCurrent, okFeature \in BOOLEAN :
          /\ safe' = SafeAfter(s)
          /\ current' = Written(wanted, current, okCurrent)
          /\ disabled' = Written(off, disabled, okFeature)
          /\ missed' = (missed \/ current' # wanted \/ disabled' # off)

\* evaluate_charge_temperature() of a reading that is good or failed.
EvaluateCharge ==
    \E reading \in {temp, FailedReading} :
      LET s == Evaluated(chargeTempState, reading) IN
      /\ chargeTempState' = s /\ measured' = temp
      /\ IF s = chargeTempState THEN UNCHANGED <<safe, current, disabled, missed>>
                                ELSE ChargeCallback(s)
      /\ Fault(reading # temp \/ (missed' /\ ~missed))
      /\ UNCHANGED <<temp, forced, moves>>

\* forceDisableCharging(): lifting it charges again only when it is safe.
Released_always(v) == ~v
Released(v) == ~v /\ safe
ForceDisableCharging(v) ==
    LET off == CASE v -> TRUE [] Released(v) -> FALSE [] OTHER -> disabled IN
    /\ Move
    /\ forced' = v
    /\ \E ok \in BOOLEAN : disabled' = Written(off, disabled, ok)
    /\ missed' = (missed \/ disabled' # off)
    /\ Fault(missed' /\ ~missed)
    /\ UNCHANGED <<temp, chargeTempState, safe, current, measured>>

TempChanges ==
    /\ Move
    /\ temp' \in Temps \ {temp}
    /\ UNCHANGED <<chargeTempState, safe, forced, disabled, current, measured, missed,
                   faults>>

ChargeNext ==
    \/ EvaluateCharge \/ TempChanges \/ ChargeBoot
    \/ \E v \in BOOLEAN : ForceDisableCharging(v)

ChargeSpec == ChargeInit /\ [][ChargeNext]_chargeVars

-----------------------------------------------------------------------------
(* Whatever the order of evaluations, of the application's calls, of failed  *)
(* readings and of resets: charging is off while the application forces it    *)
(* off ("not re-enabled by Tracker Edge", edge.h:374) and, since the last      *)
(* evaluation, outside the limits; the high current is used only below the    *)
(* reduced limit.  A write that fails breaks it: nothing repeats it.         *)
ChargesOnlyWhenAllowed ==
    ~missed =>
        /\ forced /\ ~DisableAtBoot => disabled
        /\ measured # NotMeasured =>
             /\ measured >= HighLimit \/ measured <= LowLimit => disabled
             /\ measured >= ReducedLimit => disabled \/ current = "low"
=============================================================================
