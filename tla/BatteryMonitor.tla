--------------------------- MODULE BatteryMonitor ---------------------------
(***************************************************************************)
(* evaluateBatteryCharge() of lib/edge/src/edge.cpp: the state reported by   *)
(* Device OS is debounced, and a low charge makes the device publish a        *)
(* warning or shut down.                                                    *)
(*                                                                         *)
(* The reports are events; _pendingLock guards the pending report, but the    *)
(* monitor takes a copy and clears the report in two critical sections, so    *)
(* that an event may come in between.  A state of the battery is seen as       *)
(* batteryDecode() sees it: CARE or DONT_CARE.  At least one pass of the loop  *)
(* is made in every second.  Ages count seconds.                             *)
(***************************************************************************)
EXTENDS Naturals

CONSTANTS
    Charges,        \* states of charge in percent
    Cutoff, Warning, WarningHyst, \* lowBatteryCutoff, ...
    StartTime,      \* lowBatteryStartTime
    Debounce,       \* lowBatteryDebounceTime
    EvalInterval,   \* lowBatteryAwakeEvalInterval
    NoReport

ASSUME BatteryAssumption ==
    /\ Charges \subseteq Nat /\ {Cutoff, Warning, WarningHyst, StartTime} \subseteq Nat
    /\ Debounce \in Nat \ {0} /\ EvalInterval \in Nat \ {0}
    /\ Cutoff <= Warning
    /\ NoReport \notin [state : {"CARE", "DONT_CARE"}, age : 0 .. Debounce]
    /\ NoReport \notin {"CARE", "DONT_CARE"}

VARIABLES
    step,         \* in evaluateBatteryCharge(): its "start", the state of the
                  \* battery "found" and not stored yet, or the "rest"
    ticked,       \* a second has passed since the last pass
    uptime,       \* up to StartTime
    delayed,      \* _delayedBatteryCheck
    chargeStatus,
    pending,      \* _pendingChargeStatus with its age
    copy,         \* the copy the monitor works on, or the state found
    evalAge,      \* seconds since _evalTick, up to EvalInterval
    lowBatteryEvent, pastWarnLimit,
    shutdown,     \* startLowBatteryShippingMode() was called
    reported,     \* the last event, or the state found when the monitor started
    lost          \* an event was cleared with the report before it, or overwritten

batteryVars == <<step, ticked, uptime, delayed, chargeStatus, pending, copy, evalAge,
                 lowBatteryEvent, pastWarnLimit, shutdown, reported, lost>>

Statuses == {"CARE", "DONT_CARE"}
Reports == [state : Statuses, age : 0 .. Debounce] \cup {NoReport}

BatteryTypeOK ==
    /\ step \in {"start", "found", "rest"} /\ ticked \in BOOLEAN
    /\ uptime \in 0 .. StartTime /\ delayed \in BOOLEAN
    /\ chargeStatus \in Statuses \cup {"INIT"}
    /\ pending \in Reports /\ copy \in Reports
    /\ evalAge \in 0 .. EvalInterval
    /\ lowBatteryEvent \in BOOLEAN /\ pastWarnLimit \in BOOLEAN /\ shutdown \in BOOLEAN
    /\ reported \in Statuses \cup {NoReport} /\ lost \in BOOLEAN

BatteryInit ==
    /\ step = "start" /\ ticked = TRUE /\ uptime = 0 /\ delayed = TRUE
    /\ chargeStatus = "INIT" /\ pending = NoReport /\ copy = NoReport
    /\ evalAge = 0 /\ lowBatteryEvent = FALSE /\ pastWarnLimit = FALSE
    /\ shutdown = FALSE /\ reported = NoReport /\ lost = FALSE

BatteryBoot ==
    /\ step' = "start" /\ ticked' = TRUE /\ uptime' = 0 /\ delayed' = TRUE
    /\ chargeStatus' = "INIT" /\ pending' = NoReport /\ copy' = NoReport
    /\ evalAge' = 0 /\ lowBatteryEvent' = FALSE /\ pastWarnLimit' = FALSE
    /\ shutdown' = FALSE /\ reported' = NoReport /\ lost' = FALSE

-----------------------------------------------------------------------------
\* batteryStateHandler(), registered when the delay is over.
BatteryReport(state) ==
    /\ ~delayed
    /\ pending' = [state |-> state, age |-> 0] /\ reported' = state
    /\ UNCHANGED <<step, ticked, uptime, delayed, chargeStatus, copy, evalAge,
                   lowBatteryEvent, pastWarnLimit, shutdown, lost>>

\* lowBatteryHandler(); the event is never forgotten.
LowBatteryAlert ==
    /\ ~delayed /\ lowBatteryEvent' = TRUE
    /\ UNCHANGED <<step, ticked, uptime, delayed, chargeStatus, pending, copy, evalAge,
                   pastWarnLimit, shutdown, reported, lost>>

SecondPasses ==
    /\ step = "start" /\ ~ticked /\ ticked' = TRUE
    /\ uptime' = IF uptime < StartTime THEN uptime + 1 ELSE uptime
    /\ evalAge' = IF evalAge < EvalInterval THEN evalAge + 1 ELSE evalAge
    /\ pending' = IF pending = NoReport THEN NoReport
                  ELSE [pending EXCEPT !.age = @ + 1]
    /\ UNCHANGED <<step, delayed, chargeStatus, copy, lowBatteryEvent, pastWarnLimit,
                   shutdown, reported, lost>>

-----------------------------------------------------------------------------
\* The delay ends: the handlers are registered, then the battery is looked at.
DelayEnds(battery) ==
    /\ step = "start" /\ ticked /\ delayed /\ uptime = StartTime
    /\ step' = "found" /\ delayed' = FALSE
    /\ copy' = [state |-> battery, age |-> 0] /\ reported' = battery
    /\ UNCHANGED <<ticked, uptime, chargeStatus, pending, evalAge, lowBatteryEvent,
                   pastWarnLimit, shutdown, lost>>

\* The state found is stored, over an event that has come since.
StoreFound ==
    /\ step = "found" /\ step' = "start"
    /\ pending' = copy /\ copy' = NoReport
    /\ lost' = (lost \/ copy.state # reported)
    /\ UNCHANGED <<ticked, uptime, delayed, chargeStatus, evalAge, lowBatteryEvent,
                   pastWarnLimit, shutdown, reported>>

\* getPendingChargeStatus()
TakeCopy ==
    /\ step = "start" /\ ticked /\ ~(delayed /\ uptime = StartTime)
    /\ step' = "rest" /\ copy' = pending
    /\ UNCHANGED <<ticked, uptime, delayed, chargeStatus, pending, evalAge,
                   lowBatteryEvent, pastWarnLimit, shutdown, reported, lost>>

Matured_later == copy # NoReport /\ copy.age > Debounce
Matured == copy # NoReport /\ copy.age >= Debounce

PassEnds == step = "rest" /\ step' = "start" /\ ticked' = FALSE /\ copy' = NoReport

\* The report is taken over and cleared, with what has replaced it.
Settle ==
    /\ PassEnds /\ Matured
    /\ chargeStatus' = copy.state /\ pending' = NoReport
    /\ lost' = (lost \/ pending # copy)
    /\ evalAge' = 0
    /\ UNCHANGED <<uptime, delayed, lowBatteryEvent, pastWarnLimit, shutdown, reported>>

NotDue ==
    /\ PassEnds /\ ~Matured
    /\ delayed \/ evalAge < EvalInterval
    /\ UNCHANGED <<uptime, delayed, chargeStatus, pending, evalAge, lowBatteryEvent,
                   pastWarnLimit, shutdown, reported, lost>>

IsLow_event(charge) == lowBatteryEvent
IsLow(charge) == lowBatteryEvent \/ (chargeStatus = "CARE" /\ charge <= Cutoff)
PastWarnLimit(charge) ==
    CASE chargeStatus = "CARE" -> pastWarnLimit \/ charge <= Warning
      [] OTHER -> pastWarnLimit /\ charge < Warning + WarningHyst

\* The evaluation of the charge; an error of the gauge ends it.
Evaluate(charge, error) ==
    /\ PassEnds /\ ~Matured
    /\ ~delayed /\ evalAge = EvalInterval /\ evalAge' = 0
    /\ LET skip == error \/ chargeStatus = "INIT" IN
       /\ shutdown' = (shutdown \/ (~skip /\ IsLow(charge)))
       /\ pastWarnLimit' = IF skip \/ IsLow(charge) THEN pastWarnLimit
                           ELSE PastWarnLimit(charge)
    /\ UNCHANGED <<uptime, delayed, chargeStatus, pending, lowBatteryEvent, reported,
                   lost>>

-----------------------------------------------------------------------------
(* The state the monitor works with is the last one reported, but for the    *)
(* debounce time, as long as no event fell between two critical sections of   *)
(* the monitor: a pass never leaves a report behind.                        *)
StatusFollows ==
    ~lost /\ step = "start" /\ ~delayed =>
        \/ chargeStatus = reported /\ pending = NoReport
        \/ pending # NoReport /\ pending.state = reported
             /\ pending.age + (IF ticked THEN 0 ELSE 1) <= Debounce
=============================================================================
