---------------------------- MODULE LocationPublish ----------------------------
(***************************************************************************)
(* When a location is published: EdgeLocation::loop() with evaluatePublish()  *)
(* (lib/edge/src/edge_location.cpp), sleep being disabled, so that the device *)
(* is in a full wake cycle throughout.                                      *)
(*                                                                         *)
(* The names of the triggers are left out: some are pending or none.  GNSS    *)
(* is LOCKED (stable), SEARCHING (no stable lock, or off), or UNUSED           *)
(* (disabled, or in error).  Ages count seconds, up to MaxAge.               *)
(***************************************************************************)
EXTENDS Naturals

CONSTANTS
    IntervalMin, IntervalMax, \* interval_min_seconds, interval_max_seconds (0: no max)
    LockTimeout,              \* LockTimeoutSec
    MaxAge                    \* bound on the ages

ASSUME LocationAssumption ==
    /\ IntervalMin \in Nat /\ IntervalMax \in Nat /\ LockTimeout \in Nat
    /\ IntervalMin <= IntervalMax
    /\ MaxAge \in Nat /\ MaxAge > IntervalMax + LockTimeout

VARIABLES
    config,       \* process_ack, and whether the store is enabled
    gnss, connected,
    lastAge,      \* the age of _last_location_publish_sec
    monoAge,      \* the age of _monotonic_publish_sec
    requested,    \* there are _pending_triggers
    immediate, newMonotonic, first, pendingFirst,
    fresh,        \* a pass was made in this second, and nothing changed since
    behind        \* a publish was held back since the beat began

locationVars == <<config, gnss, connected, lastAge, monoAge, requested, immediate,
                  newMonotonic, first, pendingFirst, fresh, behind>>

LocationTypeOK ==
    /\ config \in [ack : BOOLEAN, store : BOOLEAN]
    /\ gnss \in {"UNUSED", "SEARCHING", "LOCKED"} /\ connected \in BOOLEAN
    /\ lastAge \in 0 .. MaxAge /\ monoAge \in 0 .. MaxAge
    /\ requested \in BOOLEAN /\ immediate \in BOOLEAN /\ newMonotonic \in BOOLEAN
    /\ first \in BOOLEAN /\ pendingFirst \in BOOLEAN /\ fresh \in BOOLEAN
    /\ behind \in BOOLEAN

LocationInit ==
    /\ config \in [ack : BOOLEAN, store : BOOLEAN]
    /\ gnss = "SEARCHING" /\ connected = FALSE
    /\ lastAge = IntervalMin /\ monoAge = 0
    /\ requested = FALSE /\ immediate = FALSE /\ newMonotonic = TRUE
    /\ first = TRUE /\ pendingFirst = FALSE /\ fresh = FALSE
    /\ behind = FALSE

-----------------------------------------------------------------------------
Older(a) == IF a < MaxAge THEN a + 1 ELSE a

\* There is at least one pass in a second.
LocationSecond ==
    /\ fresh /\ fresh' = FALSE
    /\ lastAge' = Older(lastAge) /\ monoAge' = Older(monoAge)
    /\ UNCHANGED <<config, gnss, connected, requested, immediate, newMonotonic, first,
                   pendingFirst, behind>>

Connection ==
    /\ connected' = ~connected /\ fresh' = FALSE
    /\ UNCHANGED <<config, gnss, lastAge, monoAge, requested, immediate, newMonotonic,
                   first, pendingFirst, behind>>

GnssChanges ==
    /\ gnss' \in {"UNUSED", "SEARCHING", "LOCKED"} \ {gnss} /\ fresh' = FALSE
    /\ UNCHANGED <<config, connected, lastAge, monoAge, requested, immediate,
                   newMonotonic, first, pendingFirst, behind>>

\* triggerLocPub(), from the temperature, the motion, the battery, commands...
TriggerLocPub(now) ==
    /\ requested' = TRUE /\ immediate' = (immediate \/ now) /\ fresh' = FALSE
    /\ UNCHANGED <<config, gnss, connected, lastAge, monoAge, newMonotonic, first,
                   pendingFirst, behind>>

\* location_publish_cb() with SUCCESS; the other answers change nothing here.
Acknowledged ==
    /\ pendingFirst
    /\ first' = FALSE /\ pendingFirst' = FALSE /\ fresh' = FALSE
    /\ UNCHANGED <<config, gnss, connected, lastAge, monoAge, requested, immediate,
                   newMonotonic, behind>>

-----------------------------------------------------------------------------
(* evaluatePublish().                                                      *)

FirstDue == first /\ ~pendingFirst
MaxDue == IntervalMax # 0 /\ monoAge >= IntervalMax
Reason(req) ==
    IF immediate THEN "IMMEDIATE"
    ELSE IF FirstDue THEN "TRIGGERS"
    ELSE IF MaxDue THEN "TIME"
    ELSE IF req /\ lastAge >= IntervalMin THEN "TRIGGERS"
    ELSE "NONE"

\* enableGnss() sets _gnssStartedSec again in every pass while GNSS is used, so
\* that the first publish never stops waiting for a lock.
LockWait_always(reason) == reason # "IMMEDIATE"
LockWait_longer(reason) ==
    CASE FirstDue -> reason = "TRIGGERS"
      [] ~FirstDue /\ reason = "TIME" -> monoAge <= IntervalMax + LockTimeout
      [] ~FirstDue /\ reason = "TRIGGERS" -> lastAge <= IntervalMin + LockTimeout
      [] OTHER -> FALSE
LockWait(reason) ==
    CASE FirstDue -> reason = "TRIGGERS"
      [] ~FirstDue /\ reason = "TIME" -> monoAge < IntervalMax + LockTimeout
      [] ~FirstDue /\ reason = "TRIGGERS" -> lastAge < IntervalMin + LockTimeout
      [] OTHER -> FALSE

\* The table of loop(): which reasons publish in which state.
PublishNow(reason) ==
    /\ reason # "NONE"
    /\ gnss # "SEARCHING" \/ ~LockWait(reason)

CanSend == connected \/ config.store
NewMonotonic(reason) == newMonotonic \/ reason \in {"TRIGGERS", "IMMEDIATE"}
Consumed(reason) == immediate' = (immediate /\ reason # "IMMEDIATE")

\* The pass, after the triggers that it has raised itself.
Waits(req, reason) ==
    /\ ~PublishNow(reason)
    /\ requested' = req
    /\ UNCHANGED <<lastAge, monoAge, immediate, newMonotonic, first, pendingFirst, behind>>

\* Nothing can be sent; a request for an immediate publish is consumed all the same.
HeldBack(req, reason) ==
    /\ PublishNow(reason) /\ ~CanSend
    /\ Consumed(reason)
    /\ newMonotonic' = NewMonotonic(reason)
    /\ requested' = (req \/ reason = "TIME")
    /\ behind' = TRUE
    /\ UNCHANGED <<lastAge, monoAge, first, pendingFirst>>

\* _monotonic_publish_sec: a publish for the maximum interval keeps its beat, any
\* other and the first begin it anew.
MonoAfter_beat(reason) == monoAge - IntervalMax
MonoAfter(reason) == IF FirstDue \/ NewMonotonic(reason) THEN 0 ELSE monoAge - IntervalMax

Publishes(reason) ==
    /\ PublishNow(reason) /\ CanSend
    /\ Consumed(reason)
    /\ requested' = FALSE /\ newMonotonic' = FALSE
    /\ lastAge' = 0
    /\ monoAge' = MonoAfter(reason)
    /\ behind' = (behind /\ monoAge' # 0)
    /\ first' = (first /\ config.ack)
    /\ pendingFirst' = (pendingFirst \/ first')

LocationPass(raised) ==
    LET req == requested \/ raised
        reason == Reason(req)
    IN
    /\ fresh' = TRUE
    /\ Waits(req, reason) \/ HeldBack(req, reason) \/ Publishes(reason)
    /\ UNCHANGED <<config, gnss, connected>>

-----------------------------------------------------------------------------
WaitsForFirst == FirstDue /\ gnss = "SEARCHING"

(* After a pass that could send, the last publish is not older than the        *)
(* maximum interval and the time a lock is waited for, whatever connection,    *)
(* lock, triggers and acknowledges did before ("Always publish location, when  *)
(* possible, this often", config-schema.json:895), if there is a maximum; with  *)
(* a trigger pending, not older than the minimum interval and that time,       *)
(* unless the wait for the maximum interval is on.  The first publish may      *)
(* wait forever.                                                           *)
PublishedInTime ==
    fresh /\ CanSend /\ ~WaitsForFirst =>
        /\ IntervalMax # 0 => lastAge < IntervalMax + LockTimeout \/ lastAge = 0
        /\ requested => lastAge < IntervalMin + LockTimeout \/ MaxDue

(* Without an outage that holds publishes back, two publishes for the maximum   *)
(* interval, or one after another publish, are that interval apart, less the    *)
(* time that the earlier one may have waited for a lock.                      *)
SpacedApart ==
    [][Reason(requested) = "TIME" /\ Publishes("TIME") /\ ~behind
         => lastAge + LockTimeout >= IntervalMax]_locationVars
=============================================================================
