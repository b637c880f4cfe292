---------------------------- MODULE EdgePowerProofs ----------------------------
(***************************************************************************)
(* What EdgePower keeps for every choice of the limits, of the charges and    *)
(* of the times.                                                            *)
(***************************************************************************)
EXTENDS EdgePower, TLAPS

-----------------------------------------------------------------------------
(* The charge machine, whose type and invariant are inductive by themselves.  *)

LEMMA WriteType ==
    ASSUME NEW S, NEW wanted \in S, NEW present \in S, NEW ok \in BOOLEAN
    PROVE  Written(wanted, present, ok) \in S
BY DEF Written

\* The states that a reading may lead to.
LEMMA EvaluatedFacts ==
    ASSUME NEW s \in ChargeStates, NEW t \in Int
    PROVE  /\ Evaluated(s, t) \in ChargeStates \ {"UNKNOWN"}
           /\ t <= LowLimit => Evaluated(s, t) = "UNDER_TEMPERATURE"
           /\ t >= HighLimit => Evaluated(s, t) = "OVER_TEMPERATURE"
           /\ t >= ReducedLimit => Evaluated(s, t) # "NORMAL"
<1> USE ChargeAssumption
<1>1. CASE t <= LowLimit
  BY <1>1 DEF Evaluated, ChargeStates
<1>2. CASE t >= HighLimit
  BY <1>2 DEF Evaluated, ChargeStates
<1>3. CASE ~(t <= LowLimit) /\ ~(t >= HighLimit)
  <2>1. Evaluated(s, t) =
           IF t >= ReducedLimit
           THEN IF s = "OVER_TEMPERATURE" /\ t > HighLimit - Hyst
                THEN s ELSE "OVER_CHARGE_REDUCTION"
           ELSE IF Held(s, t) THEN s ELSE "NORMAL"
    BY <1>3 DEF Evaluated
  <2>2. Held(s, t) => s \in ChargeStates \ {"UNKNOWN"}
    BY DEF Held, ChargeStates
  <2> QED BY <1>3, <2>1, <2>2 DEF ChargeStates
<1> QED BY <1>1, <1>2, <1>3

\* What the state of the machine says of the configuration.
ChargeInv ==
    /\ chargeTempState # "UNKNOWN" => safe = ShouldCharge(chargeTempState)
    /\ measured # NotMeasured =>
         /\ chargeTempState # "UNKNOWN"
         /\ measured >= HighLimit => chargeTempState \in {"OVER_TEMPERATURE",
                                                           "UNDER_TEMPERATURE"}
         /\ measured <= LowLimit => chargeTempState = "UNDER_TEMPERATURE"
         /\ measured >= ReducedLimit => chargeTempState # "NORMAL"
    /\ ~missed =>
         /\ ~safe => disabled
         /\ forced /\ ~DisableAtBoot => disabled
         /\ chargeTempState \notin {"UNKNOWN", "NORMAL"} => current = "low"

LEMMA ChargeFollows == ChargeTypeOK /\ ChargeInv => ChargesOnlyWhenAllowed
<1> SUFFICES ASSUME ChargeTypeOK, ChargeInv, ~missed PROVE ChargesOnlyWhenAllowed
  BY DEF ChargesOnlyWhenAllowed
<1>1. ASSUME measured # NotMeasured, measured >= HighLimit \/ measured <= LowLimit
      PROVE  disabled
  <2>1. chargeTempState \in {"OVER_TEMPERATURE", "UNDER_TEMPERATURE"}
    BY <1>1 DEF ChargeInv
  <2>2. ~ShouldCharge(chargeTempState)
    BY <2>1 DEF ShouldCharge
  <2>3. safe = ShouldCharge(chargeTempState)
    BY <2>1 DEF ChargeInv
  <2> QED BY <2>2, <2>3 DEF ChargeInv
<1>2. ASSUME measured # NotMeasured, measured >= ReducedLimit
      PROVE  current = "low"
  BY <1>2 DEF ChargeInv
<1> QED BY <1>1, <1>2 DEF ChargesOnlyWhenAllowed, ChargeInv

LEMMA ChargeInitOK == ChargeInit => ChargeTypeOK /\ ChargeInv
<1> SUFFICES ASSUME ChargeInit PROVE ChargeTypeOK /\ ChargeInv
  OBVIOUS
<1>1. ChargeTypeOK
  <2>1. moves \in 0 .. MaxMoves /\ faults \in 0 .. MaxFaults
    BY ChargeAssumption DEF ChargeInit
  <2>2. safe \in BOOLEAN /\ forced \in BOOLEAN
    BY ChargeAssumption DEF ChargeInit
  <2> QED BY <2>1, <2>2 DEF ChargeInit, ChargeTypeOK, ChargeStates
<1>2. ChargeInv
  BY ChargeAssumption DEF ChargeInit, ChargeInv
<1> QED BY <1>1, <1>2

LEMMA FaultType ==
    ASSUME NEW happens \in BOOLEAN, faults \in 0 .. MaxFaults, Fault(happens)
    PROVE  faults' \in 0 .. MaxFaults
BY ChargeAssumption DEF Fault

LEMMA CallbackOK ==
    ASSUME ChargeTypeOK, ChargeInv, NEW s \in ChargeStates \ {"UNKNOWN"},
           ChargeCallback(s)
    PROVE  /\ safe' = ShouldCharge(s) /\ safe' \in BOOLEAN
           /\ current' \in {"high", "low"} /\ disabled' \in BOOLEAN /\ missed' \in BOOLEAN
           /\ ~missed' => /\ ~missed
                          /\ ~safe' => disabled'
                          /\ forced /\ ~DisableAtBoot => disabled'
                          /\ s # "NORMAL" => current' = "low"
<1> DEFINE wanted == IF s = "NORMAL" THEN "high" ELSE "low"
           off == CASE ~ShouldCharge(s) /\ safe -> TRUE
                    [] ShouldCharge(s) /\ ~safe /\ ~forced -> FALSE
                    [] OTHER -> disabled
<1>1. PICK okCurrent, okFeature \in BOOLEAN :
        /\ safe' = SafeAfter(s)
        /\ current' = Written(wanted, current, okCurrent)
        /\ disabled' = Written(off, disabled, okFeature)
        /\ missed' = (missed \/ current' # wanted \/ disabled' # off)
  BY DEF ChargeCallback
<1>2. wanted \in {"high", "low"} /\ (s # "NORMAL" => wanted = "low")
  OBVIOUS
<1>3. /\ ~ShouldCharge(s) /\ safe => off = TRUE
      /\ ShouldCharge(s) /\ ~safe /\ ~forced => off = FALSE
      /\ ~(~ShouldCharge(s) /\ safe) /\ ~(ShouldCharge(s) /\ ~safe /\ ~forced)
           => off = disabled
  OBVIOUS
<1>4. off \in BOOLEAN
  BY <1>3 DEF ChargeTypeOK
<1> HIDE DEF wanted, off
<1>5. current' \in {"high", "low"}
  BY <1>1, <1>2, WriteType DEF ChargeTypeOK
<1>6. disabled' \in BOOLEAN
  BY <1>1, <1>4, WriteType DEF ChargeTypeOK
<1>7. ShouldCharge(s) \in BOOLEAN
  BY DEF ShouldCharge
<1>8. ASSUME ~missed'
      PROVE  /\ ~missed
             /\ ~safe' => disabled'
             /\ forced /\ ~DisableAtBoot => disabled'
             /\ s # "NORMAL" => current' = "low"
  <2>1. ~missed /\ current' = wanted /\ disabled' = off
    BY <1>1, <1>8
  <2>2. ~ShouldCharge(s) => disabled'
    BY <1>3, <2>1 DEF ChargeInv
  <2>3. forced /\ ~DisableAtBoot => disabled'
    <3> SUFFICES ASSUME forced, ~DisableAtBoot PROVE disabled'
      OBVIOUS
    <3>1. disabled
      BY <2>1 DEF ChargeInv
    <3>2. CASE ~ShouldCharge(s)
      BY <2>2, <3>2
    <3>3. CASE ShouldCharge(s)
      BY <1>3, <2>1, <3>1, <3>3
    <3> QED BY <3>2, <3>3
  <2> QED BY <1>1, <1>2, <2>1, <2>2, <2>3 DEF SafeAfter
<1> QED BY <1>1, <1>5, <1>6, <1>7, <1>8 DEF SafeAfter

LEMMA EvaluateOK ==
    ASSUME ChargeTypeOK, ChargeInv, EvaluateCharge
    PROVE  ChargeTypeOK' /\ ChargeInv'
<1>1. PICK reading \in {temp, FailedReading} :
        /\ chargeTempState' = Evaluated(chargeTempState, reading) /\ measured' = temp
        /\ IF Evaluated(chargeTempState, reading) = chargeTempState
           THEN UNCHANGED <<safe, current, disabled, missed>>
           ELSE ChargeCallback(Evaluated(chargeTempState, reading))
        /\ Fault(reading # temp \/ (missed' /\ ~missed))
        /\ UNCHANGED <<temp, forced, moves>>
  BY DEF EvaluateCharge
<1> DEFINE s == Evaluated(chargeTempState, reading)
<1>2. reading \in Int /\ temp \in Int
  BY <1>1, ChargeAssumption DEF ChargeTypeOK
<1>3. /\ s \in ChargeStates \ {"UNKNOWN"}
      /\ reading <= LowLimit => s = "UNDER_TEMPERATURE"
      /\ reading >= HighLimit => s = "OVER_TEMPERATURE"
      /\ reading >= ReducedLimit => s # "NORMAL"
  BY <1>2, EvaluatedFacts DEF ChargeTypeOK
<1> HIDE DEF s
<1>4. reading = temp \/ s = "UNDER_TEMPERATURE"
  BY <1>1, <1>3, ChargeAssumption
<1>5. /\ temp <= LowLimit => s = "UNDER_TEMPERATURE"
      /\ temp >= HighLimit => s \in {"OVER_TEMPERATURE", "UNDER_TEMPERATURE"}
      /\ temp >= ReducedLimit => s # "NORMAL"
  BY <1>3, <1>4
<1>6. /\ safe' = ShouldCharge(s) /\ safe' \in BOOLEAN
      /\ current' \in {"high", "low"} /\ disabled' \in BOOLEAN /\ missed' \in BOOLEAN
      /\ ~missed' => /\ ~safe' => disabled'
                     /\ forced /\ ~DisableAtBoot => disabled'
                     /\ s # "NORMAL" => current' = "low"
  <2>1. CASE s = chargeTempState
    <3>1. UNCHANGED <<safe, current, disabled, missed>>
      BY <1>1, <2>1 DEF s
    <3> QED BY <1>3, <2>1, <3>1 DEF ChargeInv, ChargeTypeOK
  <2>2. CASE s # chargeTempState
    <3>1. ChargeCallback(s)
      BY <1>1, <2>2 DEF s
    <3> QED BY <1>3, <3>1, CallbackOK
  <2> QED BY <2>1, <2>2
<1>7. chargeTempState' = s /\ measured' = temp /\ UNCHANGED <<temp, forced, moves>>
  BY <1>1 DEF s
<1>8. faults' \in 0 .. MaxFaults
  <2>1. (reading # temp \/ (missed' /\ ~missed)) \in BOOLEAN
    OBVIOUS
  <2> QED BY <1>1, <2>1, FaultType DEF ChargeTypeOK
<1>9. ChargeTypeOK'
  BY <1>3, <1>6, <1>7, <1>8 DEF ChargeTypeOK
<1>10. ChargeInv'
  BY <1>3, <1>5, <1>6, <1>7 DEF ChargeInv
<1> QED BY <1>9, <1>10

LEMMA ForceOK ==
    ASSUME ChargeTypeOK, ChargeInv, NEW v \in BOOLEAN, ForceDisableCharging(v)
    PROVE  ChargeTypeOK' /\ ChargeInv'
<1> DEFINE off == CASE v -> TRUE [] Released(v) -> FALSE [] OTHER -> disabled
<1>1. PICK ok \in BOOLEAN : disabled' = Written(off, disabled, ok)
  BY DEF ForceDisableCharging
<1>2. /\ Move /\ forced' = v /\ missed' = (missed \/ disabled' # off)
      /\ Fault(missed' /\ ~missed)
      /\ UNCHANGED <<temp, chargeTempState, safe, current, measured>>
  BY DEF ForceDisableCharging
<1>3. /\ v => off = TRUE
      /\ ~v /\ safe => off = FALSE
      /\ ~v /\ ~safe => off = disabled
  BY DEF Released
<1>4. off \in BOOLEAN
  BY <1>3 DEF ChargeTypeOK
<1> HIDE DEF off
<1>5. disabled' \in BOOLEAN /\ missed' \in BOOLEAN
  BY <1>1, <1>2, <1>4, WriteType DEF ChargeTypeOK
<1>6. faults' \in 0 .. MaxFaults /\ moves' \in 0 .. MaxMoves
  <2>1. (missed' /\ ~missed) \in BOOLEAN
    OBVIOUS
  <2>2. faults' \in 0 .. MaxFaults
    BY <1>2, <2>1, FaultType DEF ChargeTypeOK
  <2> QED BY <1>2, <2>2, ChargeAssumption DEF Move, ChargeTypeOK
<1>7. ChargeTypeOK'
  BY <1>2, <1>5, <1>6 DEF ChargeTypeOK
<1>8. ASSUME ~missed'
      PROVE  ~missed /\ (~safe => disabled') /\ (v => disabled')
  <2>1. ~missed /\ disabled' = off
    BY <1>2, <1>8
  <2> QED BY <1>3, <2>1 DEF ChargeInv
<1> QED BY <1>2, <1>7, <1>8 DEF ChargeInv

LEMMA BootOK ==
    ASSUME ChargeTypeOK, ChargeBoot
    PROVE  ChargeTypeOK' /\ ChargeInv'
<1>1. current' \in {"high", "low"}
  BY WriteType DEF ChargeBoot, ChargeTypeOK
<1>2. faults' \in 0 .. MaxFaults
  BY FaultType DEF ChargeBoot, ChargeTypeOK
<1>3. safe' = ~disabled' /\ disabled' \in BOOLEAN /\ forced' = DisableAtBoot
      /\ chargeTempState' = "UNKNOWN" /\ measured' = NotMeasured /\ missed' = FALSE
  BY DEF ChargeBoot, ChargeTypeOK
<1>4. ChargeTypeOK'
  BY <1>1, <1>2, <1>3, ChargeAssumption DEF ChargeBoot, ChargeTypeOK, ChargeStates
<1>5. ChargeInv'
  BY <1>3, ChargeAssumption DEF ChargeInv
<1> QED BY <1>4, <1>5

-----------------------------------------------------------------------------
(* The monitor.  A report is pending for the last state reported, and it is    *)
(* younger than the debounce time when a second is due; the copy differs from  *)
(* it only by a report that came since.  The state found at first is a report  *)
(* that is not stored yet.                                                  *)
BatteryInv ==
    /\ delayed => pending = NoReport
    /\ pending # NoReport => pending.state = reported \/ lost
    /\ step = "start" =>
         /\ copy = NoReport
         /\ pending # NoReport => pending.age + (IF ticked THEN 0 ELSE 1) <= Debounce
    /\ step = "rest" =>
         /\ ticked
         /\ pending = copy \/ (pending # NoReport /\ pending.age = 0)
    /\ step = "found" =>
         /\ ticked /\ ~delayed
         /\ copy # NoReport /\ copy.age = 0
    /\ ~lost /\ ~delayed /\ step # "found" /\ pending = NoReport => chargeStatus = reported

LEMMA FollowsInv == BatteryTypeOK /\ BatteryInv => StatusFollows
BY DEF BatteryInv, StatusFollows

LEMMA NewReport ==
    ASSUME NEW state \in Statuses
    PROVE  /\ [state |-> state, age |-> 0] \in Reports
           /\ [state |-> state, age |-> 0] # NoReport
BY BatteryAssumption DEF Statuses, Reports

LEMMA Zeros == 0 \in 0 .. StartTime /\ 0 \in 0 .. EvalInterval
BY BatteryAssumption

LEMMA BatteryInitOK == BatteryInit => BatteryTypeOK /\ BatteryInv
<1> SUFFICES ASSUME BatteryInit PROVE BatteryTypeOK /\ BatteryInv
  OBVIOUS
<1>1. BatteryTypeOK
  BY Zeros DEF BatteryInit, BatteryTypeOK, Reports
<1>2. BatteryInv
  BY DEF BatteryInit, BatteryInv
<1> QED BY <1>1, <1>2

LEMMA BatteryBootOK == BatteryBoot => BatteryTypeOK' /\ BatteryInv'
<1> SUFFICES ASSUME BatteryBoot PROVE (BatteryTypeOK /\ BatteryInv)'
  OBVIOUS
<1>1. BatteryTypeOK'
  BY Zeros DEF BatteryBoot, BatteryTypeOK, Reports
<1>2. BatteryInv'
  BY DEF BatteryBoot, BatteryInv
<1> QED BY <1>1, <1>2

LEMMA ReportOK ==
    ASSUME BatteryTypeOK, BatteryInv, NEW state \in Statuses, BatteryReport(state)
    PROVE  BatteryTypeOK' /\ BatteryInv'
<1>1. pending' \in Reports /\ pending' # NoReport
      /\ pending'.state = state /\ pending'.age = 0 /\ reported' = state
  BY NewReport DEF BatteryReport
<1>2. BatteryTypeOK'
  BY <1>1 DEF BatteryReport, BatteryTypeOK, Statuses
<1>3. BatteryInv'
  BY <1>1, BatteryAssumption DEF BatteryReport, BatteryInv, BatteryTypeOK
<1> QED BY <1>2, <1>3

LEMMA AlertOK ==
    ASSUME BatteryTypeOK, BatteryInv, LowBatteryAlert
    PROVE  BatteryTypeOK' /\ BatteryInv'
<1>1. BatteryTypeOK'
  BY DEF LowBatteryAlert, BatteryTypeOK
<1>2. BatteryInv'
  BY DEF LowBatteryAlert, BatteryInv
<1> QED BY <1>1, <1>2

LEMMA SecondOK ==
    ASSUME BatteryTypeOK, BatteryInv, SecondPasses
    PROVE  BatteryTypeOK' /\ BatteryInv'
<1>1. uptime' \in 0 .. StartTime /\ evalAge' \in 0 .. EvalInterval
  BY BatteryAssumption DEF SecondPasses, BatteryTypeOK
<1>2. pending = NoReport => pending' = NoReport
  BY DEF SecondPasses
<1>3. ASSUME pending # NoReport
      PROVE  /\ pending' \in Reports /\ pending' # NoReport
             /\ pending'.state = reported \/ lost
             /\ pending'.age <= Debounce
  <2>1. pending \in [state : Statuses, age : 0 .. Debounce]
    BY <1>3 DEF BatteryTypeOK, Reports
  <2>2. (pending.state = reported \/ lost) /\ pending.age + 1 <= Debounce
    BY <1>3 DEF BatteryInv, SecondPasses
  <2>3. pending' = [pending EXCEPT !.age = pending.age + 1]
    BY <1>3 DEF SecondPasses
  <2>4. pending.age + 1 \in 0 .. Debounce
    BY <2>1, <2>2, BatteryAssumption
  <2>5. pending' \in [state : Statuses, age : 0 .. Debounce]
    BY <2>1, <2>3, <2>4
  <2>6. pending'.state = pending.state /\ pending'.age = pending.age + 1
    BY <2>1, <2>3
  <2>7. pending' # NoReport
    BY <2>5, BatteryAssumption DEF Statuses
  <2> QED BY <2>2, <2>5, <2>6, <2>7 DEF Reports
<1>4. BatteryTypeOK'
  <2>1. pending' \in Reports
    BY <1>2, <1>3 DEF Reports
  <2> QED BY <1>1, <2>1 DEF SecondPasses, BatteryTypeOK
<1>5. BatteryInv'
  <2>1. step' = "start" /\ ticked' = TRUE /\ copy' = NoReport
    BY DEF SecondPasses, BatteryInv
  <2>2. pending' # NoReport => pending'.age + 0 <= Debounce
    <3>1. ASSUME pending' # NoReport PROVE pending'.age \in Nat /\ pending'.age <= Debounce
      <4>1. pending' \in [state : Statuses, age : 0 .. Debounce]
        BY <1>2, <1>3, <3>1 DEF Reports
      <4> QED BY <1>2, <1>3, <3>1, <4>1
    <3> QED BY <3>1
  <2>3. UNCHANGED <<lost, delayed, chargeStatus, reported>>
    BY DEF SecondPasses
  <2>4. /\ delayed' => pending' = NoReport
        /\ pending' # NoReport => pending'.state = reported' \/ lost'
    BY <1>2, <1>3, <2>3 DEF BatteryInv
  <2>5. ~lost' /\ ~delayed' /\ pending' = NoReport => chargeStatus' = reported'
    BY <1>3, <2>3 DEF BatteryInv, SecondPasses
  <2> QED BY <2>1, <2>2, <2>4, <2>5 DEF BatteryInv
<1> QED BY <1>4, <1>5

LEMMA DelayEndsOK ==
    ASSUME BatteryTypeOK, BatteryInv, NEW state \in Statuses, DelayEnds(state)
    PROVE  BatteryTypeOK' /\ BatteryInv'
<1>1. copy' \in Reports /\ copy' # NoReport /\ copy'.age = 0 /\ reported' = state
  BY NewReport DEF DelayEnds
<1>2. BatteryTypeOK'
  BY <1>1 DEF DelayEnds, BatteryTypeOK
<1>3. BatteryInv'
  BY <1>1 DEF DelayEnds, BatteryInv
<1> QED BY <1>2, <1>3

LEMMA StoreFoundOK ==
    ASSUME BatteryTypeOK, BatteryInv, StoreFound
    PROVE  BatteryTypeOK' /\ BatteryInv'
<1>1. /\ step = "found" /\ step' = "start" /\ pending' = copy /\ copy' = NoReport
      /\ lost' = (lost \/ copy.state # reported)
      /\ UNCHANGED <<ticked, uptime, delayed, chargeStatus, evalAge, lowBatteryEvent,
                     pastWarnLimit, shutdown, reported>>
  BY DEF StoreFound
<1>2. BatteryTypeOK'
  <2>1. lost' \in BOOLEAN /\ copy' \in Reports
    BY <1>1 DEF BatteryTypeOK, Reports
  <2> QED BY <1>1, <2>1 DEF BatteryTypeOK
<1>3. BatteryInv'
  <2>1. ticked /\ ~delayed /\ copy # NoReport /\ copy.age = 0
    BY <1>1 DEF BatteryInv
  <2>2. copy.age + 0 <= Debounce
    BY <2>1, BatteryAssumption
  <2>3. copy.state = reported \/ lost'
    BY <1>1
  <2> QED BY <1>1, <2>1, <2>2, <2>3 DEF BatteryInv
<1> QED BY <1>2, <1>3

LEMMA CopyOK ==
    ASSUME BatteryTypeOK, BatteryInv, TakeCopy
    PROVE  BatteryTypeOK' /\ BatteryInv'
<1>1. /\ step = "start" /\ step' = "rest" /\ ticked /\ ticked' = ticked /\ copy' = pending
      /\ UNCHANGED <<uptime, delayed, chargeStatus, pending, evalAge, lowBatteryEvent,
                     pastWarnLimit, shutdown, reported, lost>>
  BY DEF TakeCopy
<1>2. BatteryTypeOK'
  BY <1>1 DEF BatteryTypeOK
<1>3. BatteryInv'
  BY <1>1 DEF BatteryInv
<1> QED BY <1>2, <1>3

LEMMA SettleOK ==
    ASSUME BatteryTypeOK, BatteryInv, Settle
    PROVE  BatteryTypeOK' /\ BatteryInv'
<1>1. /\ step' = "start" /\ ticked' = FALSE /\ copy' = NoReport /\ pending' = NoReport
      /\ chargeStatus' = copy.state /\ evalAge' = 0
      /\ lost' = (lost \/ pending # copy)
      /\ UNCHANGED <<uptime, delayed, lowBatteryEvent, pastWarnLimit, shutdown, reported>>
  BY DEF Settle, PassEnds
<1>2. copy \in [state : Statuses, age : 0 .. Debounce]
  BY DEF Settle, Matured, BatteryTypeOK, Reports
<1>3. copy # NoReport
  BY DEF Settle, Matured
<1>4. BatteryTypeOK'
  <2>1. copy.state \in Statuses
    BY <1>2
  <2>2. lost' \in BOOLEAN
    BY <1>1 DEF BatteryTypeOK
  <2> QED BY <1>1, <2>1, <2>2, Zeros DEF BatteryTypeOK, Reports
<1>5. ~lost' => chargeStatus' = reported'
  <2> SUFFICES ASSUME ~lost' PROVE copy.state = reported
    BY <1>1
  <2>1. pending = copy /\ ~lost
    BY <1>1
  <2> QED BY <1>3, <2>1 DEF BatteryInv
<1>6. BatteryInv'
  BY <1>1, <1>5 DEF BatteryInv
<1> QED BY <1>4, <1>6

\* The other ends of a pass leave the report and find it young enough.
LEMMA PassOK ==
    ASSUME BatteryTypeOK, BatteryInv, PassEnds, ~Matured,
           UNCHANGED <<delayed, chargeStatus, pending, reported, lost>>
    PROVE  BatteryInv'
<1>1. step = "rest" /\ step' = "start" /\ ticked' = FALSE /\ copy' = NoReport
  BY DEF PassEnds
<1>2. ASSUME pending # NoReport PROVE pending.age + 1 <= Debounce
  <2>1. pending.age \in 0 .. Debounce
    BY <1>2 DEF BatteryTypeOK, Reports
  <2>2. CASE pending = copy
    <3>1. ~(pending.age >= Debounce)
      BY <1>2, <2>2 DEF Matured
    <3> QED BY <2>1, <3>1, BatteryAssumption
  <2>3. CASE pending.age = 0
    BY <2>3, BatteryAssumption
  <2> QED BY <1>1, <2>2, <2>3 DEF BatteryInv
<1> QED BY <1>1, <1>2 DEF BatteryInv

LEMMA NotDueOK ==
    ASSUME BatteryTypeOK, BatteryInv, NotDue
    PROVE  BatteryTypeOK' /\ BatteryInv'
<1>1. BatteryTypeOK'
  BY DEF NotDue, PassEnds, BatteryTypeOK, Reports
<1>2. BatteryInv'
  BY PassOK DEF NotDue
<1> QED BY <1>1, <1>2

LEMMA EvaluationOK ==
    ASSUME BatteryTypeOK, BatteryInv, NEW c, NEW error, Evaluate(c, error)
    PROVE  BatteryTypeOK' /\ BatteryInv'
<1>1. shutdown' \in BOOLEAN
  BY DEF Evaluate, BatteryTypeOK
<1>2. PastWarnLimit(c) \in BOOLEAN
  <2>1. CASE chargeStatus = "CARE"
    BY <2>1 DEF PastWarnLimit
  <2>2. CASE chargeStatus # "CARE"
    BY <2>2 DEF PastWarnLimit
  <2> QED BY <2>1, <2>2
<1>3. pastWarnLimit' \in BOOLEAN
  BY <1>2 DEF Evaluate, BatteryTypeOK
<1>4. evalAge' \in 0 .. EvalInterval
  BY BatteryAssumption DEF Evaluate
<1>5. BatteryTypeOK'
  BY <1>1, <1>3, <1>4 DEF Evaluate, PassEnds, BatteryTypeOK, Reports
<1>6. BatteryInv'
  BY PassOK DEF Evaluate
<1> QED BY <1>5, <1>6

-----------------------------------------------------------------------------
IInv ==
    /\ TypeOK
    /\ ChargeInv
    /\ BatteryInv

LEMMA ChargeStutters ==
    ASSUME ChargeTypeOK, ChargeInv, UNCHANGED <<temp, chargeTempState, safe, forced,
             disabled, current, measured, missed>>,
           faults' \in 0 .. MaxFaults, moves' \in 0 .. MaxMoves
    PROVE  ChargeTypeOK' /\ ChargeInv'
<1>1. ChargeTypeOK'
  BY DEF ChargeTypeOK
<1>2. ChargeInv'
  BY DEF ChargeInv
<1> QED BY <1>1, <1>2

LEMMA BatteryStutters ==
    ASSUME BatteryTypeOK, BatteryInv, UNCHANGED batteryVars
    PROVE  BatteryTypeOK' /\ BatteryInv'
<1>1. BatteryTypeOK'
  BY DEF BatteryTypeOK, batteryVars
<1>2. BatteryInv'
  BY DEF BatteryInv, batteryVars
<1> QED BY <1>1, <1>2

LEMMA Initially == Init => IInv
BY ChargeInitOK, BatteryInitOK DEF Init, IInv, TypeOK

LEMMA Inductive == IInv /\ [Next]_vars => IInv'
<1> SUFFICES ASSUME IInv, [Next]_vars PROVE IInv'
  OBVIOUS
<1>1. ChargeTypeOK /\ ChargeInv /\ BatteryTypeOK /\ BatteryInv
      /\ plugged \in BOOLEAN /\ charge \in Charges
  BY DEF IInv, TypeOK
<1>2. Battery \in Statuses
  BY DEF Battery, Statuses
<1>3. faults \in 0 .. MaxFaults /\ moves \in 0 .. MaxMoves
  BY <1>1 DEF ChargeTypeOK
<1>4. CASE TemperatureTick
  BY <1>1, <1>4, EvaluateOK, BatteryStutters DEF TemperatureTick, World, IInv, TypeOK
<1>5. CASE TemperatureChanges
  <2>1. ChargeTypeOK'
    <3>1. moves' \in 0 .. MaxMoves
      BY <1>3, <1>5, ChargeAssumption DEF TemperatureChanges, TempChanges, Move
    <3> QED BY <1>1, <1>5, <3>1 DEF TemperatureChanges, TempChanges, ChargeTypeOK
  <2>2. ChargeInv'
    BY <1>1, <1>5 DEF TemperatureChanges, TempChanges, ChargeInv
  <2> QED BY <1>1, <1>5, <2>1, <2>2, BatteryStutters
          DEF TemperatureChanges, World, IInv, TypeOK
<1>6. CASE Application
  BY <1>1, <1>6, ForceOK, BatteryStutters DEF Application, World, IInv, TypeOK
<1>7. CASE Report
  BY <1>1, <1>2, <1>3, <1>7, ReportOK, ChargeStutters
     DEF Report, World, chargeVars, IInv, TypeOK
<1>8. CASE Alert
  BY <1>1, <1>3, <1>8, AlertOK, ChargeStutters DEF Alert, World, chargeVars, IInv, TypeOK
<1>9. CASE Second
  BY <1>1, <1>3, <1>9, SecondOK, ChargeStutters
     DEF Second, World, chargeVars, IInv, TypeOK
<1>10. CASE MonitorBegins
  <2>1. BatteryTypeOK' /\ BatteryInv'
    BY <1>1, <1>2, <1>10, DelayEndsOK, StoreFoundOK, CopyOK DEF MonitorBegins
  <2>2. ChargeTypeOK' /\ ChargeInv'
    BY <1>1, <1>3, <1>10, ChargeStutters DEF MonitorBegins, chargeVars
  <2> QED BY <1>1, <1>10, <2>1, <2>2 DEF MonitorBegins, World, IInv, TypeOK
<1>11. CASE MonitorEnds
  <2>1. faults' \in 0 .. MaxFaults
    BY <1>3, <1>11, FaultType DEF MonitorEnds
  <2>2. BatteryTypeOK' /\ BatteryInv'
    BY <1>1, <1>11, SettleOK, NotDueOK, EvaluationOK DEF MonitorEnds
  <2>3. ChargeTypeOK' /\ ChargeInv'
    BY <1>1, <1>3, <1>11, <2>1, ChargeStutters DEF MonitorEnds
  <2> QED BY <1>1, <1>11, <2>2, <2>3 DEF MonitorEnds, World, IInv, TypeOK
<1>12. CASE Plug
  <2>1. moves' \in 0 .. MaxMoves
    BY <1>3, <1>12, ChargeAssumption DEF Plug, Move
  <2> QED BY <1>1, <1>3, <1>12, <2>1, ChargeStutters, BatteryStutters
          DEF Plug, batteryVars, IInv, TypeOK
<1>13. CASE ChargeMoves
  <2>1. moves' \in 0 .. MaxMoves
    BY <1>3, <1>13, ChargeAssumption DEF ChargeMoves, Move
  <2> QED BY <1>1, <1>3, <1>13, <2>1, ChargeStutters, BatteryStutters
          DEF ChargeMoves, batteryVars, IInv, TypeOK
<1>14. CASE Reboot
  BY <1>1, <1>14, BootOK, BatteryBootOK DEF Reboot, World, IInv, TypeOK
<1>15. CASE UNCHANGED vars
  BY <1>1, <1>3, <1>15, ChargeStutters, BatteryStutters
     DEF vars, chargeVars, IInv, TypeOK
<1> QED BY <1>4, <1>5, <1>6, <1>7, <1>8, <1>9, <1>10, <1>11, <1>12, <1>13, <1>14,
           <1>15 DEF Next

LEMMA Always == Spec => []IInv
BY Initially, Inductive, PTL DEF Spec

\* The variables of the charge machine, of the monitor and of the battery keep
\* to their types, whatever the limits and the times (edge_temperature.cpp,
\* edge.cpp).
THEOREM TypeCorrect == Spec => []TypeOK
<1>1. IInv => TypeOK
  BY DEF IInv
<1> QED BY <1>1, Always, PTL

\* Whatever the order of evaluations, calls of the application, failed readings
\* and resets, and unless a write of the configuration failed: charging is off
\* while it is forced off and, since the last evaluation, outside the limits;
\* the high current is used only below the reduced limit (chargeCallback(),
\* evaluate_charge_temperature(), forceDisableCharging()).
THEOREM ChargesSafely == Spec => []ChargesOnlyWhenAllowed
<1>1. IInv => ChargesOnlyWhenAllowed
  BY ChargeFollows DEF IInv, TypeOK
<1> QED BY <1>1, Always, PTL

\* The state the monitor works with is the last one reported, but for the
\* debounce time, unless a report came between its two critical sections
\* (evaluateBatteryCharge(), batteryStateHandler()).
THEOREM Follows == Spec => []StatusFollows
<1>1. IInv => StatusFollows
  BY FollowsInv DEF IInv, TypeOK
<1> QED BY <1>1, Always, PTL

-----------------------------------------------------------------------------
(* The hysteresis of the state machine.                                      *)

\* A state that was left is not entered again by the next reading, unless the
\* temperature has moved by the hysteresis: a reading that trembles about a
\* limit does not switch the charger back and forth
\* (evaluate_charge_temperature()).
THEOREM NoChatter ==
    ASSUME LowLimit + Hyst <= ReducedLimit,
           NEW s \in ChargeStates, NEW t \in Int, NEW u \in Int,
           Evaluated(s, t) # s, Evaluated(Evaluated(s, t), u) = s
    PROVE  t - u >= Hyst \/ u - t >= Hyst
<1> DEFINE r == Evaluated(s, t)
<1>1. r \in ChargeStates \ {"UNKNOWN"} /\ s \in ChargeStates \ {"UNKNOWN"}
  BY EvaluatedFacts DEF ChargeStates
<1> USE ChargeAssumption
<1>2. CASE s = "UNDER_TEMPERATURE"
  <2>1. t >= LowLimit + Hyst
    BY <1>2 DEF Evaluated, Held
  <2>2. u <= LowLimit
    BY <1>1, <1>2 DEF Evaluated, Held
  <2>3. QED
    BY <2>1, <2>2
<1>3. CASE s = "OVER_TEMPERATURE"
  <2>1. t <= HighLimit - Hyst
    BY <1>3 DEF Evaluated, Held
  <2>2. u >= HighLimit
    BY <1>1, <1>3 DEF Evaluated, Held
  <2>3. QED
    BY <2>1, <2>2
<1>4. CASE s = "NORMAL"
  <2>1. \/ r = "UNDER_TEMPERATURE" /\ t <= LowLimit
        \/ r # "UNDER_TEMPERATURE" /\ t >= ReducedLimit
    BY <1>4 DEF Evaluated, Held
  <2>2. /\ r = "UNDER_TEMPERATURE" => u >= LowLimit + Hyst
        /\ r # "UNDER_TEMPERATURE" => u <= ReducedLimit - Hyst
    BY <1>1, <1>4 DEF Evaluated, Held, ChargeStates
  <2>3. QED
    BY <2>1, <2>2
<1>5. CASE s = "OVER_CHARGE_REDUCTION"
  <2>1. \/ r = "UNDER_TEMPERATURE" /\ t <= LowLimit
        \/ r = "OVER_TEMPERATURE" /\ t >= HighLimit
        \/ r = "NORMAL" /\ t <= ReducedLimit - Hyst
    BY <1>5 DEF Evaluated, Held
  <2>2. /\ u >= ReducedLimit
        /\ r = "OVER_TEMPERATURE" => u <= HighLimit - Hyst
    BY <1>1, <1>5 DEF Evaluated, Held
  <2>3. QED
    BY <2>1, <2>2
<1>6. QED
  BY <1>1, <1>2, <1>3, <1>4, <1>5 DEF ChargeStates

\* Between the limits, away from each by its hysteresis, every state gives way.
LEMMA ComfortableIsNormal ==
    ASSUME Hyst # 0, TypeOK, Comfortable
    PROVE  Evaluated(chargeTempState, temp) = "NORMAL"
BY ChargeAssumption DEF Comfortable, Evaluated, Held, TypeOK, ChargeTypeOK

-----------------------------------------------------------------------------
(* What a reading needs to find: where charging is safe and not forced off it  *)
(* is on, and NORMAL means the high current.                                 *)

ResumeInv ==
    ~missed => /\ safe /\ ~forced => ~disabled
               /\ chargeTempState = "NORMAL" => current = "high"

\* A change of the state to s.
LEMMA CallbackResumes ==
    ASSUME ChargeTypeOK, ResumeInv, NEW s \in ChargeStates, ChargeCallback(s), ~missed'
    PROVE  /\ safe' /\ ~forced => ~disabled'
           /\ s = "NORMAL" => current' = "high"
<1> DEFINE wanted == IF s = "NORMAL" THEN "high" ELSE "low"
           off == CASE ~ShouldCharge(s) /\ safe -> TRUE
                    [] ShouldCharge(s) /\ ~safe /\ ~forced -> FALSE
                    [] OTHER -> disabled
<1>1. /\ safe' = ShouldCharge(s)
      /\ ~missed /\ current' = wanted /\ disabled' = off
  BY DEF ChargeCallback, SafeAfter
<1>2. /\ ~ShouldCharge(s) /\ safe => off = TRUE
      /\ ShouldCharge(s) /\ ~safe /\ ~forced => off = FALSE
      /\ ShouldCharge(s) /\ safe => off = disabled
  OBVIOUS
<1>3. s = "NORMAL" => wanted = "high"
  OBVIOUS
<1> HIDE DEF wanted, off
<1>4. safe' /\ ~forced => ~disabled'
  BY <1>1, <1>2 DEF ResumeInv, ChargeTypeOK
<1>5. QED
  BY <1>1, <1>3, <1>4

LEMMA EvaluateResumes ==
    ASSUME ChargeTypeOK, ResumeInv, EvaluateCharge
    PROVE  ResumeInv'
<1>1. PICK reading \in {temp, FailedReading} :
        /\ chargeTempState' = Evaluated(chargeTempState, reading)
        /\ IF Evaluated(chargeTempState, reading) = chargeTempState
           THEN UNCHANGED <<safe, current, disabled, missed>>
           ELSE ChargeCallback(Evaluated(chargeTempState, reading))
        /\ UNCHANGED forced
  BY DEF EvaluateCharge
<1> DEFINE s == Evaluated(chargeTempState, reading)
<1>2. s \in ChargeStates
  BY <1>1, EvaluatedFacts, ChargeAssumption DEF ChargeTypeOK
<1> HIDE DEF s
<1>3. CASE s = chargeTempState
  <2>1. UNCHANGED <<safe, current, disabled, missed, chargeTempState, forced>>
    BY <1>1, <1>3 DEF s
  <2>2. QED
    BY <2>1 DEF ResumeInv
<1>4. CASE s # chargeTempState
  <2>1. ChargeCallback(s) /\ chargeTempState' = s /\ UNCHANGED forced
    BY <1>1, <1>4 DEF s
  <2>2. QED
    BY <1>2, <2>1, CallbackResumes DEF ResumeInv
<1>5. QED
  BY <1>3, <1>4

LEMMA ForceResumes ==
    ASSUME ChargeTypeOK, ResumeInv, NEW v \in BOOLEAN, ForceDisableCharging(v)
    PROVE  ResumeInv'
<1> SUFFICES ASSUME ~missed'
             PROVE  /\ safe' /\ ~forced' => ~disabled'
                    /\ chargeTempState' = "NORMAL" => current' = "high"
  BY DEF ResumeInv
<1> DEFINE off == CASE v -> TRUE [] Released(v) -> FALSE [] OTHER -> disabled
<1>1. /\ forced' = v /\ disabled' = off /\ ~missed
      /\ UNCHANGED <<chargeTempState, safe, current>>
  BY DEF ForceDisableCharging
<1>2. ~v /\ safe => off = FALSE
  BY DEF Released
<1> HIDE DEF off
<1>3. QED
  BY <1>1, <1>2 DEF ResumeInv

LEMMA ResumeStep == IInv /\ ResumeInv /\ [Next]_vars => ResumeInv'
<1> SUFFICES ASSUME IInv, ResumeInv, [Next]_vars PROVE ResumeInv'
  OBVIOUS
<1>1. ChargeTypeOK
  BY DEF IInv, TypeOK
<1>2. CASE TemperatureTick
  BY <1>1, <1>2, EvaluateResumes DEF TemperatureTick
<1>3. CASE Application
  BY <1>1, <1>3, ForceResumes DEF Application
<1>4. CASE Reboot
  BY <1>1, <1>4 DEF Reboot, ChargeBoot, ResumeInv, ChargeTypeOK
<1>5. CASE UNCHANGED <<chargeTempState, safe, forced, disabled, current, missed>>
  BY <1>5 DEF ResumeInv
<1>6. TemperatureChanges => UNCHANGED <<chargeTempState, safe, forced, disabled, current, missed>>
  BY DEF TemperatureChanges, TempChanges
<1>7. Report \/ Alert \/ Second \/ MonitorBegins
        => UNCHANGED <<chargeTempState, safe, forced, disabled, current, missed>>
  BY DEF Report, Alert, Second, MonitorBegins, chargeVars
<1>8. MonitorEnds \/ Plug \/ ChargeMoves
        => UNCHANGED <<chargeTempState, safe, forced, disabled, current, missed>>
  BY DEF MonitorEnds, Plug, ChargeMoves
<1>9. UNCHANGED vars
        => UNCHANGED <<chargeTempState, safe, forced, disabled, current, missed>>
  BY DEF vars, chargeVars
<1>10. QED
  BY <1>2, <1>3, <1>4, <1>5, <1>6, <1>7, <1>8, <1>9 DEF Next

LEMMA ResumeAlways == Spec => []ResumeInv
<1>1. Init => ResumeInv
  BY DEF Init, ChargeInit, ResumeInv
<1>2. QED
  BY <1>1, ResumeStep, Always, PTL DEF Spec

\* One good reading of a comfortable temperature restores charging with the
\* high current, whatever limits, forced periods, failed readings and resets
\* came before, unless a write of the configuration failed (chargeCallback()).
THEOREM Restores == ASSUME Hyst # 0 PROVE Spec => ReadingRestores
<1>1. ASSUME IInv, ResumeInv, ResumeInv', TemperatureTick, Comfortable, faults' = faults,
             ~missed
      PROVE  ~disabled' /\ current' = "high"
  <2>1. PICK reading \in {temp, FailedReading} :
          /\ chargeTempState' = Evaluated(chargeTempState, reading)
          /\ IF Evaluated(chargeTempState, reading) = chargeTempState
             THEN UNCHANGED <<safe, current, disabled, missed>>
             ELSE ChargeCallback(Evaluated(chargeTempState, reading))
          /\ Fault(reading # temp \/ (missed' /\ ~missed))
          /\ UNCHANGED forced
    BY <1>1 DEF TemperatureTick, EvaluateCharge
  <2>2. reading = temp /\ ~missed'
    <3>1. faults \in Nat
      BY <1>1, ChargeAssumption DEF IInv, TypeOK, ChargeTypeOK
    <3>2. QED
      BY <1>1, <2>1, <3>1 DEF Fault
  <2>3. chargeTempState' = "NORMAL"
    BY <1>1, <2>1, <2>2, ComfortableIsNormal DEF IInv
  <2>4. safe'
    <3>1. ChargeInv'
      BY <1>1, EvaluateOK DEF IInv, TypeOK, TemperatureTick
    <3>2. QED
      BY <2>3, <3>1 DEF ChargeInv, ShouldCharge
  <2>5. ~forced'
    BY <1>1, <2>1 DEF Comfortable
  <2>6. QED
    BY <1>1, <2>2, <2>3, <2>4, <2>5 DEF ResumeInv
<1>2. IInv /\ ResumeInv /\ ResumeInv' =>
        [TemperatureTick /\ Comfortable /\ faults' = faults
         => missed \/ (~disabled' /\ current' = "high")]_vars
  BY <1>1
<1>3. QED
  BY <1>2, Always, ResumeAlways, PTL DEF ReadingRestores

-----------------------------------------------------------------------------
(* Shutting down.                                                           *)

\* What the status of the monitor stands for when a pass ends.
LEMMA StatusAtPass ==
    ASSUME IInv, step = "rest", ~delayed, ~Matured, ~lost
    PROVE  \/ pending = NoReport /\ chargeStatus = reported
           \/ pending # NoReport /\ pending.age < Debounce
<1>1. BatteryInv /\ BatteryTypeOK
  BY DEF IInv, TypeOK
<1>2. CASE pending = NoReport
  BY <1>1, <1>2 DEF BatteryInv
<1>3. CASE pending # NoReport
  <2>1. pending.age \in Nat
    BY <1>1, <1>3, BatteryAssumption DEF BatteryTypeOK, Reports
  <2>2. pending = copy \/ pending.age = 0
    BY <1>1, <1>3 DEF BatteryInv
  <2>3. QED
    BY <1>3, <2>1, <2>2, BatteryAssumption DEF Matured
<1>4. QED
  BY <1>2, <1>3

\* With the report taken over, the first evaluation of a battery at the
\* cut-off starts the shutdown (evaluateBatteryCharge()).
THEOREM StopsAtEvaluation == Spec => EvaluationStops
<1>1. ASSUME IInv, MonitorEnds, evalAge = EvalInterval, faults' = faults, ~delayed,
             reported = "CARE", pending = NoReport, charge <= Cutoff, ~lost
      PROVE  shutdown'
  <2>1. step = "rest"
    BY <1>1 DEF MonitorEnds, Settle, NotDue, Evaluate, PassEnds
  <2>2. copy = NoReport
    BY <1>1, <2>1 DEF IInv, BatteryInv
  <2>3. ~Matured
    BY <2>2 DEF Matured
  <2>4. chargeStatus = "CARE"
    BY <1>1, <2>1, <2>3, StatusAtPass
  <2>5. ~(evalAge < EvalInterval)
    BY <1>1, BatteryAssumption
  <2>6. PICK error \in BOOLEAN : Evaluate(charge, error) /\ Fault(error)
    BY <1>1, <2>3, <2>5 DEF MonitorEnds, Settle, NotDue
  <2>7. ~error
    <3>1. faults \in Nat
      BY <1>1, ChargeAssumption DEF IInv, TypeOK, ChargeTypeOK
    <3>2. QED
      BY <1>1, <2>6, <3>1 DEF Fault
  <2>8. IsLow(charge)
    BY <1>1, <2>4 DEF IsLow
  <2>9. QED
    BY <2>4, <2>6, <2>7, <2>8 DEF Evaluate
<1>2. IInv =>
        [/\ MonitorEnds /\ evalAge = EvalInterval /\ faults' = faults /\ ~delayed
         /\ reported = "CARE" /\ pending = NoReport /\ charge <= Cutoff
         => shutdown' \/ lost]_vars
  BY <1>1
<1>3. QED
  BY <1>2, Always, PTL DEF EvaluationStops

\* A shutdown starts after an alert, or at a charge at the cut-off of a battery
\* that was reported to matter: by the last report, or until less than the
\* debounce time ago (evaluateBatteryCharge(), lowBatteryHandler()).
THEOREM JustifiedShutdown == Spec => ShutdownJustified
<1>1. ASSUME IInv, Next, ~shutdown, shutdown', ~lowBatteryEvent
      PROVE  /\ charge <= Cutoff
             /\ \/ reported = "CARE" \/ lost
                \/ pending # NoReport /\ pending.age < Debounce
  <2>1. PICK error \in BOOLEAN : Evaluate(charge, error)
    <3>1. ~ TemperatureTick /\ ~ TemperatureChanges /\ ~ Application /\ ~ Plug /\ ~ ChargeMoves
      BY <1>1 DEF TemperatureTick, TemperatureChanges, Application, Plug, ChargeMoves,
                  batteryVars
    <3>2. ~ Report /\ ~ Alert /\ ~ Second /\ ~ MonitorBegins /\ ~ Reboot
      BY <1>1 DEF Report, Alert, Second, MonitorBegins, Reboot, BatteryReport,
                  LowBatteryAlert, SecondPasses, DelayEnds, StoreFound, TakeCopy,
                  BatteryBoot
    <3>3. MonitorEnds
      BY <1>1, <3>1, <3>2 DEF Next
    <3>4. QED
      BY <1>1, <3>3 DEF MonitorEnds, Settle, NotDue
  <2>2. step = "rest" /\ ~Matured /\ ~delayed
    BY <2>1 DEF Evaluate, PassEnds
  <2>3. IsLow(charge)
    BY <1>1, <2>1 DEF Evaluate
  <2>4. chargeStatus = "CARE" /\ charge <= Cutoff
    BY <1>1, <2>3 DEF IsLow
  <2>5. QED
    BY <1>1, <2>2, <2>4, StatusAtPass
<1>2. IInv /\ [Next]_vars =>
        [~shutdown /\ shutdown' =>
          \/ lowBatteryEvent
          \/ charge <= Cutoff
               /\ \/ reported = "CARE" \/ lost
                  \/ pending # NoReport /\ pending.age < Debounce]_vars
  BY <1>1
<1>3. QED
  BY <1>2, Always, PTL DEF Spec, ShutdownJustified
=============================================================================
