------------------------------ MODULE EdgeSleep ------------------------------
(***************************************************************************)
(* The sleep state machine of EdgeSleep (lib/edge/src/edge_sleep.cpp),     *)
(* composed with everything that drives it: the location loop that asks    *)
(* for the network and announces publishes (edge_location.cpp), the low    *)
(* battery and OTA handlers (edge.cpp), and the commands and configuration *)
(* writes delivered between two passes of the application loop, or while   *)
(* stopModem() waits.                                                      *)
(*                                                                         *)
(* One pass of Edge::loop() is one step of EdgeSleep::loop() (pc = "idle") *)
(* followed by one of EdgeLocation::loop() (pc = "location"); at most one  *)
(* second passes between two passes.  Ages count seconds and saturate at   *)
(* MaxWindow, beyond every delay they are compared with.  interval_min is  *)
(* 0: any pending trigger needs the network.                               *)
(***************************************************************************)
EXTENDS Naturals

CONSTANTS
    Modes,            \* the values the `mode' setting takes: subset of {"Disable", "Enable"}
    Inputs,           \* the outside events of this instance
    Stores,           \* what EdgeLocationPublish::isStoreEnabled() may be
    NetworkWake,      \* _onNetwork: the modem stays on while asleep
    ExeMin,           \* sleep.exe_min
    ConnMax,          \* sleep.conn_max
    EarlySleep,       \* EarlySleepSec
    Interval,         \* the publish interval used when sleep is spoiled
    KeepAwake,        \* failedOtaKeepAwake
    ShutdownTimeout,  \* EdgeSleepShutdownTimeout
    ResetTimeout,     \* EdgeSleepResetTimeout
    MaxWindow         \* bound of every age and of the execution window

ASSUME SleepAssumption ==
    /\ Modes \subseteq {"Disable", "Enable"} /\ Modes # {}
    /\ Stores \subseteq BOOLEAN /\ NetworkWake \in BOOLEAN
    /\ {ExeMin, ConnMax, EarlySleep, Interval, KeepAwake,
        ShutdownTimeout, ResetTimeout, MaxWindow} \subseteq Nat \ {0}
    /\ ExeMin + ConnMax <= MaxWindow /\ ExeMin + Interval <= MaxWindow
    /\ KeepAwake <= MaxWindow /\ EarlySleep <= MaxWindow
    /\ ShutdownTimeout <= MaxWindow /\ ResetTimeout <= MaxWindow

VARIABLES
    pc,         \* where Edge::loop() is: idle, location, suspending or off
    exec,       \* _executionState
    full,       \* _inFullWakeup
    override,   \* _fullWakeupOverride
    hold,       \* _holdSleep
    vitals,     \* _pendingPublishVitals
    shutdown,   \* _pendingShutdown of EdgeSleep
    reset,      \* _pendingReset
    published,  \* _publishFlag
    mode,       \* _config_state.mode
    stateAge,   \* seconds since _lastConnectingSec, _lastShutdownMs or _lastResetMs
    window,     \* [age |-> seconds since _lastExecuteSec, dur |-> _executeDurationSec]
    ticked,     \* a second has passed since the last pass of the location loop
    modem,      \* the modem is powered
    connected,  \* Particle.connected()
    pending,    \* _pending_triggers is not empty
    immediate,  \* _pending_immediate
    announced,  \* _pendingShutdown of EdgeLocation
    ota,        \* an OTA is under way
    quiet       \* seconds awake since the last announced publish, up to ExeMin

requests == <<hold, vitals, shutdown, reset>>
triggers == <<pending, immediate>>
link     == <<modem, connected>>
vars == <<pc, exec, full, override, requests, published, mode, stateAge,
          window, ticked, link, triggers, announced, ota, quiet>>

Windows == [age : 0..MaxWindow, dur : 0..MaxWindow]
States == {"BOOT", "CONNECTING", "EXECUTION", "SLEEP", "SHUTDOWN", "RESET"}

Flags ==
    /\ full \in BOOLEAN /\ override \in BOOLEAN /\ hold \in BOOLEAN
    /\ vitals \in BOOLEAN /\ shutdown \in BOOLEAN /\ reset \in BOOLEAN
    /\ published \in BOOLEAN /\ ticked \in BOOLEAN /\ modem \in BOOLEAN
    /\ connected \in BOOLEAN /\ pending \in BOOLEAN /\ immediate \in BOOLEAN
    /\ announced \in BOOLEAN /\ ota \in BOOLEAN
Ranges ==
    /\ pc \in {"idle", "location", "suspending", "off"} /\ exec \in States
    /\ mode \in Modes /\ stateAge \in 0..MaxWindow /\ quiet \in 0..ExeMin
    /\ window \in Windows
TypeOK == Flags /\ Ranges

Init ==
    /\ pc = "idle" /\ exec = "BOOT" /\ mode \in Modes
    /\ full = TRUE /\ override = FALSE
    /\ hold = FALSE /\ vitals = FALSE /\ shutdown = FALSE /\ reset = FALSE
    /\ published = FALSE /\ announced = FALSE /\ ota = FALSE
    /\ stateAge = 0 /\ window = [age |-> 0, dur |-> 0] /\ ticked = TRUE
    /\ modem = FALSE /\ connected = FALSE
    /\ pending = TRUE /\ immediate = FALSE       \* _first_publish
    /\ quiet = ExeMin

-----------------------------------------------------------------------------
(* What the handlers share. *)

Later(age, bound) == IF age < bound THEN age + 1 ELSE age
Restarted(w) == [w EXCEPT !.age = 0]

(* extendExecutionFromNow() without `force'. *)
Extended_keepStart(w, seconds) ==
    IF w.dur < w.age + seconds THEN [w EXCEPT !.dur = seconds] ELSE w
Extended_accumulates(w, seconds) == [w EXCEPT !.dur = w.dur + seconds]
Extended(w, seconds) ==
    IF w.dur < w.age + seconds THEN [age |-> 0, dur |-> seconds] ELSE w

SleepDisabled == mode = "Disable"
IsFullWakeCycle == SleepDisabled \/ full

(* evaluatePublish().networkNeeded with interval_min = 0. *)
NetworkNeeded == immediate \/ pending

Expired == ~hold /\ window.age >= window.dur

(* Particle.publishVitals() as soon as there is a connection. *)
PublishVitals == vitals' = (vitals /\ ~connected)

StateToExecute(w) == exec' = "EXECUTION" /\ window' = Restarted(w)

StateToConnecting_modemOff ==
    /\ exec' = "CONNECTING" /\ stateAge' = 0
    /\ override' = FALSE /\ published' = FALSE
    /\ full' = TRUE /\ UNCHANGED modem
StateToConnecting ==
    /\ exec' = "CONNECTING" /\ stateAge' = 0
    /\ override' = FALSE /\ published' = FALSE
    /\ full' = TRUE /\ modem' = TRUE

-----------------------------------------------------------------------------
(* EdgeSleep::loop(), one action per branch of its state machine. *)

Boot ==
    /\ pc = "idle" /\ exec = "BOOT"
    /\ pc' = "location"
    /\ StateToConnecting
    /\ window' = [window EXCEPT !.dur = ExeMin]
    /\ UNCHANGED <<requests, mode, ticked, connected, triggers, announced, ota, quiet>>

(* A publish was announced and the cloud is there. *)
ConnectingDone ==
    /\ pc = "idle" /\ exec = "CONNECTING"
    /\ published /\ connected
    /\ pc' = "location" /\ published' = FALSE
    /\ PublishVitals /\ StateToExecute(window)
    /\ UNCHANGED <<full, override, hold, shutdown, reset, mode, stateAge, ticked,
                   link, triggers, announced, ota, quiet>>

(* Poor reception: ask for a publish anyway and go on. *)
ConnectTimedOut_never == FALSE
ConnectTimedOut == stateAge >= ConnMax

ConnectingGivesUp ==
    /\ pc = "idle" /\ exec = "CONNECTING"
    /\ ~ (published /\ connected) /\ ConnectTimedOut
    /\ pc' = "location" /\ pending' = TRUE /\ immediate' = TRUE
    /\ PublishVitals /\ StateToExecute(window)
    /\ UNCHANGED <<full, override, hold, shutdown, reset, published, mode, stateAge,
                   ticked, link, announced, ota, quiet>>

ConnectingWaits ==
    /\ pc = "idle" /\ exec = "CONNECTING"
    /\ ~ (published /\ connected) /\ ~ConnectTimedOut
    /\ pc' = "location"
    /\ PublishVitals
    /\ UNCHANGED <<exec, full, override, hold, shutdown, reset, published, mode,
                   stateAge, window, ticked, link, triggers, announced, ota, quiet>>

(* In a short cycle pending vitals or a shutdown ask for the network too. *)
ConnectRequested == ~full /\ (override \/ vitals \/ shutdown)

ExecuteConnect ==
    /\ pc = "idle" /\ exec = "EXECUTION" /\ ~SleepDisabled
    /\ ConnectRequested
    /\ pc' = "location"
    /\ StateToConnecting
    /\ UNCHANGED <<requests, mode, window, ticked, connected, triggers, announced,
                   ota, quiet>>

(* SHUTDOWN and RESET are entered first, and left at once for SLEEP when   *)
(* the execution time is over: the test at line 583 follows without else.  *)
ExecuteShutdown ==
    /\ pc = "idle" /\ exec = "EXECUTION"
    /\ shutdown /\ (SleepDisabled \/ ~ConnectRequested)
    /\ pc' = "location" /\ announced' = TRUE /\ stateAge' = 0
    /\ IF SleepDisabled
       THEN PublishVitals /\ window' = Restarted(window) /\ exec' = "SHUTDOWN"
       ELSE /\ UNCHANGED <<vitals, window>>
            /\ exec' = IF Expired THEN "SLEEP" ELSE "SHUTDOWN"
    /\ UNCHANGED <<full, override, hold, shutdown, reset, published, mode, ticked,
                   link, triggers, ota, quiet>>

ExecuteReset ==
    /\ pc = "idle" /\ exec = "EXECUTION"
    /\ reset /\ ~shutdown /\ (SleepDisabled \/ ~ConnectRequested)
    /\ pc' = "location" /\ stateAge' = 0
    /\ IF SleepDisabled
       THEN PublishVitals /\ window' = Restarted(window) /\ exec' = "RESET"
       ELSE /\ UNCHANGED <<vitals, window>>
            /\ exec' = IF Expired THEN "SLEEP" ELSE "RESET"
    /\ UNCHANGED <<full, override, hold, shutdown, reset, published, mode, ticked,
                   link, triggers, announced, ota, quiet>>

ExecuteOn ==
    /\ pc = "idle" /\ exec = "EXECUTION" /\ ~SleepDisabled
    /\ ~ConnectRequested /\ ~shutdown /\ ~reset
    /\ pc' = "location"
    /\ exec' = IF Expired THEN "SLEEP" ELSE "EXECUTION"
    /\ UNCHANGED <<full, override, requests, published, mode, stateAge, window,
                   ticked, link, triggers, announced, ota, quiet>>

ExecuteDisabled ==
    /\ pc = "idle" /\ exec = "EXECUTION" /\ SleepDisabled
    /\ ~shutdown /\ ~reset
    /\ pc' = "location" /\ window' = Restarted(window)
    /\ PublishVitals
    /\ UNCHANGED <<exec, full, override, hold, shutdown, reset, published, mode,
                   stateAge, ticked, link, triggers, announced, ota, quiet>>

-----------------------------------------------------------------------------
(* sleep(): the prepare callbacks, the suspension and the wake callbacks. *)

(* EdgeLocation::onSleepPrepare() found its next wake in the past. *)
Spoiled(w) == Extended(w, Interval + ExeMin)

(* That callback cancels the sleep, and sleep() gives up. *)
SleepCancel ==
    /\ pc = "idle" /\ exec = "SLEEP"
    /\ pc' = "location" /\ override' = FALSE
    /\ StateToExecute(Spoiled(window))
    /\ UNCHANGED <<full, requests, published, mode, stateAge, ticked, link, triggers,
                   announced, ota, quiet>>

(* Every wake request is in the future: the modem is stopped unless the    *)
(* network is a wake source, and the system suspends.                      *)
Suspend ==
    /\ pc = "idle" /\ exec = "SLEEP"
    /\ pc' = "suspending" /\ override' = FALSE
    /\ modem' = (modem /\ NetworkWake) /\ connected' = (connected /\ NetworkWake)
    /\ UNCHANGED <<exec, full, requests, published, mode, stateAge, window, ticked,
                   triggers, announced, ota, quiet>>

(* EdgeLocation::onWake() without a need for the network: it leaves time    *)
(* for the geofences, or votes for an early return to sleep.               *)
WakeWindows == {ExeMin + ConnMax, EarlySleep}

(* System.sleep() has returned, into a short cycle unless the wake callback *)
(* asks for the network.                                                    *)
Wake ==
    /\ pc = "suspending"
    /\ pc' = "location" /\ ticked' = TRUE /\ quiet' = ExeMin
    /\ IF NetworkNeeded
       THEN /\ StateToConnecting
            /\ \E age \in 0..MaxWindow :
                 age >= window.age /\ window' = [age |-> age, dur |-> ExeMin]
       ELSE /\ full' = FALSE
            /\ \E seconds \in WakeWindows :
                 StateToExecute([age |-> 0, dur |-> seconds])
            /\ UNCHANGED <<override, published, stateAge, modem>>
    /\ UNCHANGED <<requests, mode, connected, triggers, announced, ota>>

-----------------------------------------------------------------------------
(* The two states a device does not come back from. *)

ShutdownOver_published == published /\ connected
ShutdownOver == (published /\ connected) \/ stateAge >= ShutdownTimeout
ResetOver == (published /\ connected) \/ stateAge >= ResetTimeout

ShutdownEnds ==
    /\ pc = "idle" /\ exec = "SHUTDOWN" /\ ShutdownOver
    /\ pc' = "off" /\ modem' = FALSE /\ connected' = FALSE /\ full' = FALSE
    /\ PublishVitals
    /\ UNCHANGED <<exec, override, hold, shutdown, reset, published, mode, stateAge,
                   window, ticked, triggers, announced, ota, quiet>>

(* enterReset() arms a one-shot timer that resets the system, and spins. *)
ResetEnds ==
    /\ pc = "idle" /\ exec = "RESET" /\ ResetOver
    /\ pc' = "off"
    /\ PublishVitals
    /\ UNCHANGED <<exec, full, override, hold, shutdown, reset, published, mode,
                   stateAge, window, ticked, link, triggers, announced, ota, quiet>>

LastWordsWait ==
    /\ pc = "idle" /\ exec \in {"SHUTDOWN", "RESET"}
    /\ ~ (IF exec = "SHUTDOWN" THEN ShutdownOver ELSE ResetOver)
    /\ pc' = "location"
    /\ PublishVitals
    /\ UNCHANGED <<exec, full, override, hold, shutdown, reset, published, mode,
                   stateAge, window, ticked, link, triggers, announced, ota, quiet>>

-----------------------------------------------------------------------------
(* EdgeLocation::loop(), sampled once a second, deaf after a shutdown was  *)
(* announced.                                                              *)

LocationSkips ==
    /\ pc = "location" /\ (announced \/ ~ticked)
    /\ pc' = "idle" /\ ticked' = FALSE
    /\ UNCHANGED <<exec, full, override, requests, published, mode, stateAge, window,
                   link, triggers, announced, ota, quiet>>

(* forceFullWakeCycle() when the evaluation needs the network. *)
AskForNetwork_never == UNCHANGED override
AskForNetwork == override' = (override \/ (~IsFullWakeCycle /\ NetworkNeeded))

(* Nothing to publish, or waiting for a lock, or no connection and no      *)
(* store.  An immediate request is consumed all the same: what remains of  *)
(* it is its trigger.                                                      *)
LocationWaits ==
    /\ pc = "location" /\ ~announced /\ ticked
    /\ immediate => ~connected /\ FALSE \in Stores
    /\ pc' = "idle" /\ ticked' = FALSE
    /\ AskForNetwork /\ immediate' = FALSE
    /\ UNCHANGED <<exec, full, requests, published, mode, stateAge, window, link,
                   pending, announced, ota, quiet>>

AnnouncePublish == published' = TRUE /\ window' = Extended(window, ExeMin)

(* buildPublish() calls annoucePublish() and consumes the triggers. *)
LocationPublishes ==
    /\ pc = "location" /\ ~announced /\ ticked
    /\ NetworkNeeded /\ (connected \/ TRUE \in Stores)
    /\ pc' = "idle" /\ ticked' = FALSE
    /\ AskForNetwork /\ immediate' = FALSE /\ pending' = FALSE
    /\ AnnouncePublish /\ quiet' = 0
    /\ UNCHANGED <<exec, full, requests, mode, stateAge, link, announced, ota>>

-----------------------------------------------------------------------------
(* Outside events: between two passes, and those that arrive as system     *)
(* events or commands also while stopModem() waits.                        *)

Between == pc = "idle"
Dispatched == pc \in {"idle", "suspending"}

Tick ==
    /\ Between /\ ~ticked
    /\ ticked' = TRUE
    /\ stateAge' = Later(stateAge, MaxWindow) /\ quiet' = Later(quiet, ExeMin)
    /\ window' = [window EXCEPT !.age = Later(window.age, MaxWindow)]
    /\ UNCHANGED <<pc, exec, full, override, requests, published, mode, link,
                   triggers, announced, ota>>

LinkChange ==
    /\ "link" \in Inputs /\ Between /\ modem
    /\ connected' = ~connected
    /\ UNCHANGED <<pc, exec, full, override, requests, published, mode, stateAge,
                   window, ticked, modem, triggers, announced, ota, quiet>>

(* startLowBatteryShippingMode(), run just before EdgeSleep::loop(). *)
LowBattery ==
    /\ "battery" \in Inputs /\ Between /\ ~shutdown
    /\ shutdown' = TRUE /\ override' = TRUE /\ vitals' = TRUE
    /\ pending' = TRUE /\ immediate' = TRUE
    /\ UNCHANGED <<pc, exec, full, hold, reset, published, mode, stateAge, window,
                   ticked, link, announced, ota, quiet>>

(* The `reset' command of the cloud. *)
HandleReset ==
    /\ "reset" \in Inputs /\ Dispatched
    /\ reset' = TRUE
    /\ UNCHANGED <<pc, exec, full, override, hold, vitals, shutdown, published, mode,
                   stateAge, window, ticked, link, triggers, announced, ota, quiet>>

(* triggerLocPub(), by a command, the motion sensor, a geofence. *)
TriggerLocPub ==
    /\ "trigger" \in Inputs /\ Dispatched
    /\ pending' = TRUE /\ immediate' \in {immediate, TRUE}
    /\ UNCHANGED <<pc, exec, full, override, requests, published, mode, stateAge,
                   window, ticked, link, announced, ota, quiet>>

(* The `sleep.mode' setting is written, over the air or by USB. *)
SetMode ==
    /\ "config" \in Inputs /\ Dispatched
    /\ mode' \in Modes \ {mode}
    /\ UNCHANGED <<pc, exec, full, override, requests, published, stateAge, window,
                   ticked, link, triggers, announced, ota, quiet>>

(* handleOta() runs for every OTA event, before Edge::otaHandler(). *)
OtaBegins ==
    /\ "ota" \in Inputs /\ Dispatched /\ ~ota
    /\ ota' = TRUE /\ hold' = TRUE
    /\ UNCHANGED <<pc, exec, full, override, vitals, shutdown, reset, published, mode,
                   stateAge, window, ticked, link, triggers, announced, quiet>>

OtaFails ==
    /\ "ota" \in Inputs /\ Dispatched /\ ota
    /\ ota' = FALSE /\ hold' = SleepDisabled
    /\ window' = IF SleepDisabled THEN window ELSE Extended(window, KeepAwake)
    /\ UNCHANGED <<pc, exec, full, override, vitals, shutdown, reset, published,
                   mode, stateAge, ticked, link, triggers, announced, quiet>>

-----------------------------------------------------------------------------
SleepLoop ==
    \/ Boot \/ ConnectingDone \/ ConnectingGivesUp \/ ConnectingWaits
    \/ ExecuteConnect \/ ExecuteShutdown \/ ExecuteReset \/ ExecuteOn
    \/ ExecuteDisabled \/ SleepCancel \/ Suspend \/ Wake
    \/ ShutdownEnds \/ ResetEnds \/ LastWordsWait

LocationLoop == LocationSkips \/ LocationWaits \/ LocationPublishes

Outside ==
    \/ LinkChange \/ LowBattery \/ HandleReset \/ TriggerLocPub \/ SetMode
    \/ OtaBegins \/ OtaFails

Next == SleepLoop \/ LocationLoop \/ Tick \/ Outside

Spec == Init /\ [][Next]_vars

(* The application loop is called again and again, and the clock does not *)
(* stop while it is.                                                      *)
FairSpec == Spec /\ WF_vars(SleepLoop \/ LocationLoop) /\ SF_vars(Tick)

-----------------------------------------------------------------------------
(* While the loop runs after boot, _inFullWakeup says exactly whether the  *)
(* modem is on, so that every reader of it (GNSS power, the wake           *)
(* computation, the shutdown) decides on the truth.                        *)
FullMeansModem ==
    (pc \in {"idle", "location"} /\ exec # "BOOT") => (full <=> modem)

(* With sleep enabled, sleep is held only while an OTA is under way: a     *)
(* failed update always lets the device sleep again.                       *)
HeldByOtaOnly == hold => ota

(* annoucePublish() keeps the device awake: the execution state is not     *)
(* left for sleep within exe_min seconds of a publish made since the       *)
(* device woke.                                                            *)
AwakeAfterPublish ==
    [][(exec # "SLEEP" /\ exec' = "SLEEP") => quiet >= ExeMin]_vars

(* No state outlasts its limit, to the second: connecting ends after         *)
(* conn_max, the last words of a shutdown or a reset after their timeouts,   *)
(* and execution with its window, unless sleep is held; a hold that ends     *)
(* leaves the window open.                                                 *)
LeftInTime ==
    /\ exec = "CONNECTING" => stateAge <= ConnMax
    /\ exec = "SHUTDOWN" => stateAge <= ShutdownTimeout
    /\ exec = "RESET" => stateAge <= ResetTimeout
    /\ exec = "EXECUTION" /\ ~hold => window.age <= window.dur

(* Nothing stops the device, or its location service, that was not asked   *)
(* for: neither a stale announcement nor the state machine's detours.       *)
StopsOnlyWhenAsked ==
    /\ announced \/ exec = "SHUTDOWN" => shutdown
    /\ exec = "RESET" => reset
    /\ pc = "off" => exec \in {"SHUTDOWN", "RESET"}

(* Poor reception never keeps the device connecting (edge_sleep.cpp:525).  *)
ConnectingEnds == exec = "CONNECTING" ~> exec # "CONNECTING"

(* A shutdown or a reset that was asked for happens, whatever the state of *)
(* the network, sleep, publishes and an OTA.                               *)
StopHappens == (shutdown \/ reset) ~> pc = "off"

(* Both: the device gets out of what it is in.                             *)
StatesEnd == ConnectingEnds /\ StopHappens

(* With sleep enabled, a trigger that needs the network in a short cycle    *)
(* gets it, or is stored, although sleep() forgets the request: the wake    *)
(* callback makes it again.                                                *)
NetworkServed ==
    NetworkNeeded ~> (full \/ ~NetworkNeeded \/ SleepDisabled \/ pc = "off")

(* edge_sleep.cpp:639: the shutdown state is final. *)
ShutdownIsFinal == announced => exec = "SHUTDOWN"
=============================================================================
