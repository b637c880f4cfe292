# Monitor Edge: specifications, checks and proofs

This directory models the hand-written core of the Monitor Edge firmware in TLA+,
model-checks it with TLC on small instances, and proves its most important
invariants with TLAPS for every value of the constants. File names below are
relative to `src/lib/` unless they start with `src/`.

## The system

The firmware runs one application thread. `Edge::loop()` (`edge/src/edge.cpp:756-814`) calls,
in this order: the fuel gauge, `evaluateBatteryCharge()`, `EdgeSleep::loop()`,
`EdgeMotion::loop()`, the temperature tick with its triggers, `CloudService::tick()`,
`ConfigService::tick()`, `EdgeLocation::loop()` and `user_loop()`. The OTA handler is a system
event. Device OS adds a system thread, whose cloud functions and events it dispatches on the
application thread, and `BackgroundPublish` adds a worker thread that publishes.

| Component | State | Operations | Interacts with |
|---|---|---|---|
| BackgroundPublish (`background-publish`) | one queue per priority, `running`, rate history | `publish`, worker pass, `start`, `stop`, `cleanup` | callers' completion callbacks; Particle.publish |
| CloudService (`fw-config-service`) | `ack_handlers`, `deferred_acks`, `_req_id`, JSON buffer, command table | `send` (two forms), `tick`, `dispatchCommand`, `sendAck` | BackgroundPublish below; configuration, location and sleep above |
| DiskQueue (`disk-queue`) | files, `_fileList`, `_diskCurrent`, `_diskLimit`, `_policy`, `_running` | `start`, `stop`, `pushBack`, `peekFront(Size)`, `popFront`, `unlinkFiles` | the file system; power loss |
| EdgeLocationPublish (`edge`) | the store, its configuration | `init`, `tick`, `disk_queue_cb`, `factoryReset` | DiskQueue, CloudService, callback lists of EdgeLocation |
| EdgeLocation | triggers, GNSS state, publish times, callback lists | `loop`, `triggerLocPub`, sleep callbacks, `location_publish_cb` | EdgeSleep, CloudService, geofence |
| EdgeSleep | execution state, full-wake flag and override, window, holds, pending shutdown and reset | `loop`, `sleep`, `forceFullWakeCycle`, `annoucePublish`, `pauseSleep`, `handleReset` | modem, PMIC, every registered callback |
| Edge | battery level, charge state, pending report, OTA state | `loop`, `otaHandler`, `evaluateBatteryCharge`, `chargeCallback`, `forceDisableCharging` | EdgeSleep, EdgeLocation, EdgeShipping, Device OS's battery events |
| Temperature (`edge_temperature.cpp`) | state of the charge limits, user triggers | evaluation every 30 seconds or every second | Edge's `chargeCallback`, EdgeLocation's triggers |
| ConfigService | per-module hashes, pending flags, files | `tick`, `flush`, `set_cfg`, `get_cfg`, `reset_to_factory` | CloudService, the file system |
| Geofence | per zone: pending and last event, time of the change | `loop` | EdgeLocation, which takes its events for triggers |
| EdgeShipping, EdgeMotion | timers, a queue of events | ticks and callbacks | Edge, EdgeLocation |
| Fuel gauge, cellular, GNSS and IMU abstractions, platform, drivers | registers and readings | reads | values for the above |
| User application (`src/src`) | Modbus and I/O readings | setup, loop, location callback | EdgeLocation |

What makes each correct, and what is hard:

* *BackgroundPublish*: every event is completed once and the limits hold while callers,
  worker and `stop()` interleave, and while `millis()` wraps.
* *CloudService*: every callback runs once though answers come from four sources, and
  success means what it says. Hard: the order of acknowledgement and completion, reboots,
  a clock that wraps.
* *DiskQueue*: the list is the directory, the quota holds, order is kept. Hard: a power loss
  at any point of a push, numbers that are used again, accounting spread over functions.
* *Store and forward*: no location is lost between RAM, disk and cloud. Hard: several
  publishes under way at once.
* *EdgeSleep*: the device never sleeps on a fresh publish or an OTA, always reaches a
  requested shutdown or reset, and gets the network when something needs it. Hard: six
  states, a window moved by four functions, handlers that run between the passes of the
  loop and, while `stopModem()` waits, inside them.
* *ConfigService*: a configuration ends up with the cloud and in its file, and a recorded hash
  says what the cloud has. Hard: answers that come after the configuration has changed again,
  refusals that are both returned and answered, power losses around `rename()`.
* *Edge and temperature*: charging is off outside the limits and while it is forced off, comes
  back, and a low battery stops the device. Hard: two reasons to switch one feature, failed
  readings and writes, events between two critical sections.
* *Geofence and EdgeLocation*: an event means that the position was held for the verification
  time; a location is published in time and not too often. Hard: reasons to publish that hide one
  another, each with its own wait for a lock; outages; configurations changed in place.
* *Shipping*: a sequence of delays that must not be entered twice.

`PROJECT.json` lists every component with its status, and the hazards with their lines.

## The modules

| Module | Models | Abstract view |
|---|---|---|
| `BackgroundPublish` | the publisher with its callers, worker and controller | `PublishQueue` (refined) |
| `CloudService` | requests, answers, timeouts and acknowledgements | `Answering` (refined); publisher seen through its promise |
| `DiskQueue` | the file-backed queue with power losses | `DurableFifo` (refined) |
| `StoreForward` | location publishes, callback lists, the store | CloudService and DiskQueue through their promises |
| `EdgeSleep` | the sleep state machine with the loops and handlers that drive it | |
| `ConfigService` | configurations, their synchronisation and their files | CloudService through its promise |
| `ChargeControl` | the charge temperature machine, `chargeCallback`, `forceDisableCharging` | |
| `BatteryMonitor` | the debounced battery state, warning and shutdown | |
| `EdgePower` | composes `ChargeControl` and `BatteryMonitor` around one battery | |
| `Geofence` | the zones' state machine | |
| `LocationPublish` | `evaluatePublish()` and the decision of `EdgeLocation::loop()` | |
| `EdgeLocation` | composes `Geofence` and `LocationPublish`: events are triggers of the same pass | |

Each `MC...` module gives the constants small values; the `.cfg` files name the
properties. The theorems about a module are in its `...Proofs` module. An operator whose name
has the form `Name_variant` is a wrong version of `Name`, put beside it to test that the
properties notice it; no action uses it.

### BackgroundPublish

`publish()` reads `running` before it takes `_mutex`, so that a call is two steps
(`Offer`, then `Enqueue` or `RefuseBusy`). The worker's pass is cut where it releases the
lock. Events are identities that are offered again once completed, so that behaviours
never end; `millis()` counts modulo `ClockMod`. `cleanup()` keeps the lock from one
callback to the next: each callback is a step, and no queue changes meanwhile. A refusal
calls the callback without a test; with none the firmware aborts (`fault`), and the model
stops there (`Aborted`). Fairness: threads that can run do run, and the future of
`Particle.publish()` resolves, as Device OS guarantees. The worker polls every 2 ms and its
rate limit is open for most of a round of the counter, hence strong fairness for its poll.

### EdgeSleep

One pass of `Edge::loop()` is a step of `SleepLoop` (`pc = "idle"`) and then one of
`LocationLoop` (`pc = "location"`). Outside events (configuration writes, commands, OTA
events, link changes, a low battery, triggers) happen between two passes; those that
Device OS dispatches while the application waits also happen in `pc = "suspending"`, the time
`stopModem()` waits inside `sleep()`. Ages count seconds and stop at `MaxWindow`, which no
delay exceeds. `interval_min` is 0: any trigger needs the network. The wake time computed
by `updateNextWake()` is reduced to its two outcomes, sleep or cancel. `_onNetwork` is
`FALSE`, as in this firmware; were it used, `FullMeansModem` would fail.

At most one second passes between two passes. A location pass that blocks for
`EarlySleep` seconds or more could otherwise postpone a reset each time. Fairness: the
application loop is called again and again (`WF`), and time passes while it is (`SF` on
`Tick`, because a tick is enabled only between two passes). The device powers off
in the end (`pc = "off"`), hence no deadlock check.

### DiskQueue

Each operation holds one mutex and is one action; only the power interrupts it. `_running` and
`_diskLimit` are tested before the mutex is taken (`DiskQueue.cpp:27`, `95`, `157`, `229`, `249`);
this firmware calls the queue from the application thread only, so that nothing comes between.
`Crash` ends a boot between operations, `CrashInReset` during `unlinkFiles()`, `CrashTearsPush`
leaves a torn file, `CrashAfterPush` leaves the whole file with some of the evictions done. Files
are numbers with a size, an item and whether they are whole. `PushFaults` is the eviction loop that
runs out of files and reads an empty vector; the model stops there, which is why deadlock is not
checked. The sort of the directory is modelled by its result.

`DurableFifo` says: messages come out in the order they went in, none twice; overflow
takes messages from one end. The mapping is the sequence of whole files in the order of
their numbers.

### CloudService

A context (message, request number, deadline) is in `flight` (with the publisher), in `handlers`
(waiting for the application's ack) or in `deferred` (answered, callback to run in the next tick).
The publisher's completion may come at any time and on its own thread; the cloud application may
acknowledge late, early (before the completion, when input `early` is present), or never. `Reboot`
clears what is volatile; acks on their way and the messages their senders stored remain. The lists
are sets, since no property depends on their order. The unit of the clock is the second between two
runs of `tick_sec()`, and `tick()` runs in every one of them: loop passes are shorter than a second,
but for those that wait for a scan (see EdgeLocation). A publish that the publisher cancels would
get no answer at all (`cloud_service.cpp:352`); it cancels in `stop()` only, which nothing in this
firmware calls. `Answering` is the service as its senders see it: a message waits, is answered once,
and only a reset takes the answer away. Fairness: the publisher completes, ticks happen, time
passes; nothing is assumed of the cloud application.

### StoreForward

`pending` is the number of `disk_queue_cb` in `pendingLocPubCallbacks`, the one list that all
publishes share. `Publish` replaces it, `Tick` (EdgeLocationPublish::tick) appends to it, an
answer runs and clears it. The history variable `overlapped` tells whether a send was ever begun
while another waited; `OnePlaceAlone` speaks of the behaviours where none was, which a run
explores together with all others. `doubt` counts the sends that may still fail because the link
was not good all along; it serves only to say what a good link is. `excused` are messages given
up on purpose: by the quota, by switching the store off, or in RAM at a reboot. `noticed` is the
configuration the last `tick()` saw. It is set at boot, in the code by the first `tick()`
(`edge_location_publish.cpp:60`); no configuration can arrive in between, because the device
connects only when the loop runs (`SEMI_AUTOMATIC`, `src/src/main.cpp:25`). Fairness:
`tick()` is called each second and CloudService answers each send, which `AnswerComes` shows
under end-to-end acks for sends with a timeout.

### ConfigService

A configuration is a value and its own hash; `NoHash` is a hash that matches none. A pass of the
loop is `CloudTick` (the deferred answers) and then `ConfigTick` (`tick_sec()` with its saves).
CloudService is seen through its promise: a message is accepted (`flight`), or refused and also
answered with a failure at the next tick (`Refusals`). `Reboot` and `FactoryReset` keep the files,
of which any may be unreadable afterwards; a file is whole, because `rename()` puts it there. It may
also be refused when it is read (`refused` in `Boot`): `_process_load()` has then taken the file's
hash (`config_service.cpp:441`) and, where there is no shadow, set the fields before the first that
it refuses (454), and `registerModule()` ignores the error. A configuration is a value that the text
of the file keeps: numbers are saved with ten decimals (817) and loaded as saved. `Stored` is what a
command makes of one module: with a shadow copy all or nothing, without one whatever was written
before the first refused field. History variables say what reached the cloud (`delivered`,
`latest`), and two exclusions: `crossed`, that a message was accepted after a refusal in the same
pass (a defect, see below), and `unheard`, that a message arrived and its answer was lost (which no
protocol without a further request can mend). Fairness: both ticks are called, the publisher
completes what it accepted, a lost connection returns.

### ChargeControl, BatteryMonitor, EdgePower

`Evaluated` is the state machine of `evaluate_charge_temperature()` as a function of state and
reading: outside the two outer limits the reading decides, between them each limit has its
hysteresis. A reading may fail and is then zero degrees; a write of the power configuration may
fail. `Written` is that write. The evaluation may come at any time, which covers its intervals of
30 seconds and of one. `BatteryMonitor` cuts a pass of `evaluateBatteryCharge()` between its
critical sections, so that the event `BatteryReport` may fall between: at the end of the delay after
power on the handlers are registered and the battery is looked at (`DelayEnds`), what was found is
stored (`StoreFound`), the pending report is copied (`TakeCopy`), and the pass ends with `Settle`,
`NotDue` or `Evaluate`. The lock of the report shows that the code expects events on another thread;
Device OS runs such handlers on the application thread, so that here the model is the more cautious of
the two. That `onWake()` lets the evaluation start at once (`edge.cpp:547`) is left out, because
the device of `EdgePower` is awake. `EdgePower` puts both around one battery: a battery is reported
as charging while it is plugged in and charging is not disabled. The history variables
`measured`, `missed`, `reported` and `lost` say what the properties are about. Fairness
(`FairSpec`): the loop makes its passes and evaluates the temperature, time passes, and
Device OS reports a state that lasts.

### Geofence, LocationPublish, EdgeLocation

Geometry is left out: for each zone the device is on one of two sides. `Restarts` and
`Triggered` are `IsEventTriggered()`, with all four events of each zone configured; `seen`
remembers when an evaluation last saw each side. `LocationPublish` is `evaluatePublish()` with
the table of `loop()`, sleep being disabled: `Reason` is the first reason in the code's order,
`LockWait` the wait of that reason, and a pass waits, is held back (no connection and no store)
or publishes. `lastAge` and `monoAge` are the ages of `_last_location_publish_sec` and
`_monotonic_publish_sec`. A pass of `EdgeLocation` evaluates the zones when there is a stable
lock, takes their events for triggers, and decides. A maximum of 0 stands for none (`MaxDue`): the
theorems cover it, the run has a maximum of two seconds.

At least one pass is made in every second (`fresh`). In the device a pass follows the last by
`LoopSampleRate` (one second) or a little more, and one that publishes may wait for the scan of
towers (`edge_location.cpp:688`, one second) and of WiFi (756-758, four seconds and the scan
itself); a time that the properties speak of may be exceeded by as much, and so may two publishes
come that much closer. The same holds of the other components' seconds (`EdgeSleep`, `BatteryMonitor`,
`CloudService`): one pass of the loop runs them all.

## Runs

| Run | Properties | Shows |
|---|---|---|
| `publish_safety` | `TypeOK`, `ExactlyOneCompletion`, `CapacityBound`, `BurstBound`, `PriorityRespected` | two callers, two levels, burst 2: completions, capacity, rate, priority |
| `publish_live` | `UrgentServed`, `ImplementsPublishQueue` | queues of two: an urgent event of a running publisher completes, over a clock that wraps; `PublishQueue` is implemented |
| `sleep_safety` | `TypeOK`, `FullMeansModem`, `LeftInTime`, `AwakeAfterPublish`, `StatesEnd`, `NetworkServed` | all inputs and modes: flag and modem agree, every state is left in its seconds, a publish keeps the device awake, CONNECTING ends and a requested stop happens, a trigger gets the network |
| `disk_safety` | `TypeOK`, `StateMatchesDisk`, `QuotaRespected`, `ImplementsDurableFifo` | power losses, stops and factory resets: list, accounting, quota; `DurableFifo` is implemented |
| `cloud_safety` | `TypeOK`, `OneAnswer`, `SuccessMeansAcked`, `AnswerComes`, `KeepsPromise` | each callback runs once; success means acknowledged while numbers are distinct; a timeout in range comes; `Answering` is implemented |
| `store_safety` | `TypeOK`, `OnePlaceAlone`, `StoreDrains` | one publish at a time loses and doubles nothing; a good link empties the store |
| `config_safety` | `TypeOK`, `RecordedAlone`, `InStep`, `WholeOnly`, `FilesTrue`, `CloudFollows` | commands, lost answers, failed saves, refusals and power losses: hashes say what the cloud has, a shadowed module is never half written, a file left alone is right, the cloud follows in the end |
| `power_safety` | `TypeOK`, `ChargesOnlyWhenAllowed`, `StatusFollows`, `ChargeResumes`, `LowBatteryStops` | temperatures, faults, forced periods, plugging and resets: charging is off where it must be and comes back, the debounced state follows, a low battery stops the device |
| `location_safety` | `TypeOK`, `DwellSpent`, `PublishedInTime`, `SpacedApart` | crossings, poor positions, locks, outages, triggers and reconfigurations: dwell times are spent, publishes are in time and apart |
| `sleep_final` | `ShutdownIsFinal` | violated |
| `store_lost` | `Kept` | violated |
| `config_crossed` | `RecordedWasDelivered` | violated |

### Disagreements of code and comments

The three violated runs each check what a comment says and find that the code does
otherwise; `findings` in `PROJECT.json` quotes both lines:

* `sleep_final`: `loop()` enters SHUTDOWN (`edge_sleep.cpp:576`) and, without a break, tests the
  execution time (583): when it is over, SLEEP replaces SHUTDOWN after the location
  service was told to stop for good. `StatesEnd` still holds: the next wake shuts down.
* `store_lost`: two publishes under way share one callback list, and the second failure finds it
  empty. `OnePlaceAlone` names the condition under which nothing is lost.
* `config_crossed`: a refused configuration message both returns an error, after which the loop
  over the modules goes on, and answers a failure. When a later module is accepted in the same
  pass, that failure clears its pending flag, a second message is sent, and the answer to the
  first records the hash of the second. `RecordedAlone` is the condition under which it cannot be.

Others were met while modelling. The models contain the behaviour, but no run is kept for them:

* A `publish()` that read `running` before `stop()` ran to its end enters the queue of a
  stopped publisher (`BackgroundPublish.h:333`, `345`) and completes only after a later `start()`.
* A refused `publish()` calls `cb` without a test (lines 335, 341, 349), although `nullptr` is
  its default (93) and `CloudService::send` passes none (`cloud_service.cpp:325`).
* An OTA that begins between the decision to sleep and `sleep()` does not stop it:
  `_holdSleep` is tested only at `edge_sleep.cpp:583` ("Prevent the system from going to
  sleep", `edge_sleep.h:295`).
* Disabling sleep in a short cycle makes `isFullWakeCycle()` true with the modem off
  (`edge_sleep.h:383-391`). `FullMeansModem` is about the flag beneath it.
* An OTA that fails while sleep is disabled leaves sleep held after it is enabled
  (`edge.cpp:577`); hence the theorem `HeldByOta` speaks of the enabled mode only.
* "Publish then shutdown" (`edge.cpp:324`), but in a full cycle the shutdown is announced before
  the location loop runs, which then returns at once (327).
* `pushBack()` returns true for a message that its own eviction loop deleted
  (`DiskQueue.cpp:300-307`), and `start()` of a running queue ignores a new policy (27) after
  taking the new limit.
* Neither `stop()` nor a factory reset takes the listed bytes out of `_diskCurrent`
  (`DiskQueue.cpp:403`), and a later `start()` adds those it finds: the figure grows, and
  messages are evicted too early. `UsageCovers`, one half of `StateMatchesDisk`, is what remains.
* The default timeout (`cloud_service.h:50`, 108) saturates at a value the clock never exceeds:
  with end-to-end acks a location (`edge_location.cpp:408`) that is not acknowledged is never
  answered, stored or sent again.
* After a reboot request numbers start at 1 again, and the ack of an old message answers a
  new one (`cloud_service.cpp:53`, `235`): hence `DistinctNumbers` in `SuccessMeansAcked`.
* An ack dispatched before the publisher's completion finds no handler and is dropped
  (`cloud_service.cpp:346`): the message times out though it was answered.
* A timeout that falls on the end of the clock's round never comes (`cloud_service.cpp:89`,
  `334`): hence `InTime` in `AnswerComes`.

* A location taken from the disk to be sent is in RAM only until its publish is answered
  (`edge_location_publish.cpp:86`): a restart in between loses it; hence `excused`, which also
  covers what was in RAM for any other reason.
* A file that is refused when it is read leaves its module with the fields before the refusal, and
  nothing tells (`config_service.cpp:454`, `registerModule`).
* The worker of the publisher starts each scan at the most urgent queue
  (`BackgroundPublish.h:306`): traffic there that never ceases starves the others.

Location and geofence:

* A publish for the maximum interval moves its clock on by one interval
  (`edge_location.cpp:1105`). After an outage with no store several publishes follow each other
  without a pause, against "Never publish location information more often than this setting"
  (`config-schema.json:884`); hence `behind` in `SpacedApart`. Two publishes are also
  closer than the minimum when the wait for a lock is longer than the two intervals differ.
* With sleep disabled the first publish never stops waiting for a lock: `enableGnss()` sets
  `_gnssStartedSec` anew in every pass (comment at 451); hence `WaitsForFirst`.
* The table of `loop()` says that with the GNSS off a location is published at once
  (`edge_location.cpp:1003`); the code waits as it does without a lock (1027, 1058).
  `PublishedInTime` holds of either.
* A request for an immediate publish is consumed before the connection is tested (1078), and
  becomes an ordinary trigger.
* A configuration with a minimum above the maximum interval is refused, so that a maximum of
  zero ("off") needs a minimum of zero.
* A verification time that replaces zero finds a pending event that was not followed, and may
  raise an event at once (`Geofence.cpp:146`); hence `stale` in `DwellSpent`. A poor
  position leaves the loop before the zone's index is counted on; nobody reads the index.
* `Geofence::SetZoneInfo()` fills a copy of the zone (`Geofence.h:136`); the firmware configures
  the zones through `GetZoneInfo()`.

Power:

* In the diagram above `evaluate_charge_temperature()` (`edge_temperature.cpp:298-302`) 39 degrees
  on the way down is OVER_CHARGE_REDUCTION. When no reading fell between 40 and 52 degrees the
  code stays in OVER_TEMPERATURE there (373), with charging off.
* The comment of `initBatteryMonitor()` ("at low current state from boot", `edge.cpp:382`)
  speaks of a low current; the call sets the high one.
* Charging that the configuration disables at boot sets the flag and not the feature
  (`edge.cpp:380`), hence `DisableAtBoot` in `ChargesOnlyWhenAllowed`.
* A write of the power configuration that failed is not repeated (`edge.cpp:880`); hence
  `missed`. A failed read of the sensor is a reading of zero degrees, which stops charging until
  the next one.
* The pending report is copied and cleared in two critical sections (`edge.cpp:457`): one that
  falls between is lost until the next, and so would be one that falls between the look at the
  battery at the start and its store (450); hence `lost`. Reports that oscillate faster than the
  evaluation interval restart it each time.
* `onWake` of the temperature (`edge_temperature.cpp:136`) is declared and never registered.
  A user's trigger that is disabled while it is latched goes on publishing.

Shipping: the PMIC's interrupt is attached after the delays (`edge_shipping.cpp:93`), so that
what happens during them is not seen; a second `enter()` overwrites `_checkPower`.

### Bounds

* Publisher: one entry per queue in `publish_safety` makes every queue full; three events are
  one more than the levels hold. Ages up to `Interval`. `publish_live` has one caller and
  two events, one with and one without a callback, and queues of two, so that the order within a
  queue is visible.
* Sleep: delays of one to five seconds, all different where their order matters, so that
  each of them can be the one that expires first.
* Disk: sizes 1 and 2, limits 0, 2 and 3, four pushes: a message can evict one or two
  others, itself, or nothing, and numbers start again at 0. Power losses, stops and factory
  resets happen in every order. `MaxItems` bounds the pushes;
  `MaxBytes` bounds how far the accounting may run away over repeated starts.
* Cloud: three messages, two with end-to-end acks, two sends of each, a timeout of one unit
  on a clock of three, two request numbers: deadlines saturate for one send in three, the numbers
  wrap, collide after a reboot and never within a boot, because a message takes a new number
  once. `MaxSends` bounds the sends.
* Configuration: one shadowed and one direct module, a configuration that is proper, one that
  is not and one that is too big; two commands and one fault of any kind (`MaxChanges`,
  `MaxFaults`): a change while a message is under way, its answer lost, then reverted.
* Power: temperatures at the low limit, between the limits, within the hysteresis of the reduced
  current, above its limit and at the high limit; charges below the cut-off, between it and the
  warning, and above it. `MaxMoves` bounds plugging, temperature and
  charge, `MaxFaults` the failed readings, failed writes and resets.
* Location: one zone, verification times of none and two seconds, a minimum of one and a maximum
  of two seconds, a wait of one for a lock; ages stop above their sum, where all guards are
  decided. Nothing else is bounded.
* Store: three messages and room for two; `MaxCopies` bounds the copies of one message.

## Proofs

Every theorem holds for every value of the constants that the named assumptions admit; one that
asks for more says so in its `ASSUME`. Most have the form `Spec => []P`, `Spec => [][A]_vars` or
`Spec => AnAbstractSpecification`. Each safety property of the passing runs is stated by one. The
properties in this section that no run checks were checked by TLC on the runs' instances, restricted
as the theorem's `ASSUME` says, when they were proved; `NoChatter` is about an operator alone.

* `BackgroundPublishProofs`: `TypeCorrect`, `OneCompletion`, `Capacity`, `Priority`, `Rate`,
  `Refinement`. The inductive invariant of the first adds `Phases` (what the worker does
  against whether the publisher runs and the controller cleans up) to the types: without it a
  cancelled event could still be with the worker. `Rate` relates the ages of the last
  publishes to the worker's slots, modulo the width of the counter.
* `EdgeSleepProofs`: `TypeCorrect`, `ModemAgrees`, `PublishKeepsAwake`, `HeldByOta`, `InTime`,
  `StopsWhenAsked`, `FinalWithoutSleep`. The invariant of the third ties the execution window to
  the time since the last publish: the window always reaches at least `exe_min` past it, because
  an extension never shortens it. `InTime` is the bounded form of the liveness properties:
  CONNECTING, SHUTDOWN, RESET and the window end to the second. `LeftInTime` alone is not
  inductive, since a tick may come at any point between two passes; `InTimeInv` adds that a pass
  of `SleepLoop` leaves the limits not yet reached (`NotYet`) and that time moves at most once
  until the next. `FinalWithoutSleep` is the counterpart of the violated run `sleep_final`: with
  sleep disabled for good, SHUTDOWN is final as the comment says.
* `CloudServiceProofs`: `TypeCorrect`, `AnsweredOnce`, `SuccessIsAcked`, `PromiseKept`,
  `PromiseKeptWithoutResets`. `OneAnswer` is inductive with the types: the three places are
  disjoint, hold one context per message, and together hold exactly the messages that wait. Three
  lemmas cover how a step may change them (a send, a completion, answers), and every action is an
  instance of one. `SuccessIsAcked` follows the request number: it is written once, when the
  message leaves "new", and each context and ack of the message bears it from then on
  (`Numbered`), so that an ack with the number of a handler is the ack of its message.
  `PromiseKept` is the refinement of `Answering`, what senders see: waiting are the messages for
  which a callback is bound in one of the three places (`Bound`). With `OneAnswer` that is the
  `status` of the message, so that each step is a send, a reply to several, an arrival or
  a stutter, and only `Reboot` is `Forget`; hence the second form where nothing reboots.
* `StoreForwardProofs`: `TypeCorrect`, `StaleFree`, `NothingLostAlone`, `NothingDoubledAlone`, and
  their conjunction `OnePlace`. `NoStaleCallback` is inductive with the types. The others follow
  from `Alone`: while no two sends overlap, at most one message is under way, the list holds
  exactly its callback, the store holds each message once and not that one, and both hold only
  messages that were made. `PutBack` is the lemma for a failure, which re-enters the store at the
  cost of the oldest messages.
* `DiskQueueProofs`: `TypeCorrect`, `ListMatches` and `UsageCorrect` with their conjunction
  `StateMatches`, `QuotaKept`, `Refinement`, `OrderKept`, `GoneForGood`. The invariant adds to the
  types and `ListIsDisk` that every file's number is below the number of messages pushed (numbers
  are used again, and still never run away), that a stopped queue has no list, and that a running
  one accounts for the bytes of its list. Three groups of lemmas carry it. Sums of a list are
  defined by a recursive function, whose existence and whose sums over concatenations are proved
  by an induction stated on sets of naturals (`SetInduction`, from `LeastElement`). The rank of a
  number in a finite set is a bijection, so that the listing of a directory exists and is the only
  ordered list of it (`ListedFacts`, `ListIsListed`). Files that are cut off at a number take a
  prefix or a suffix of the messages with them (`ItemsAbove`, `ItemsBelow`), which makes every
  eviction, pop and interrupted reset a step of `DurableFifo`. The last two theorems need
  nothing more of the detailed model: they are proved of the abstract queue (`FifoRises`: what it
  holds rises and only the newest is added) and carried over by the refinement.
* `EdgeLocationProofs`: `TypeCorrect`, `Dwell`, `InTime`, `Spaced`, `CrossingsReported`. For the
  first property, `DwellInv`: the verification time a zone counts never exceeds the time the point
  has been seen on the other side. For the next two, `TimesInv`: the beat of the maximum interval
  never overtakes the last publish, and lags behind it by at most the wait for a lock (`OnBeat`,
  where there is a maximum). `CrossingsReported` goes through both halves of the composition: a zone
  changes the side it stands by only in a pass that raises its event (`ChangeRaises`), and a trigger
  raised in a pass is published by it or stays (`RaisedStays`).
* `EdgePowerProofs`: `TypeCorrect`, `ChargesSafely`, `Follows`, `NoChatter`, `Restores`,
  `StopsAtEvaluation`, `JustifiedShutdown`. `ChargeInv` says what the state of the machine stands
  for: which temperatures were measured, that "safe" is the state's verdict and, unless a write
  failed, what the configuration is. `BatteryInv` says that a report is pending no longer than the
  debounce time, counted from the monitor's tick, and that the copy the monitor took differs from
  it only by a report that has just come. `NoChatter` is a theorem about the operator `Evaluated`,
  for limits at least a hysteresis apart (`ASSUME`): from no state do two readings closer than the
  hysteresis lead away and back. `Restores` needs `ResumeInv` besides: where charging is
  safe and not forced off it is on, and NORMAL means the high current. It assumes a
  hysteresis that is not zero: with none, a reading at the limit itself would not be comfortable.
* `ConfigServiceProofs`: `TypeCorrect`, `RecordsTrue`, `StaysInStep`, `AlwaysWhole`, `FilesAreTrue`,
  `OneTickSaves`, `RequestsStay`. `OneAtATime`: unless messages crossed, at most one is under way,
  it or its answer, and it speaks of the pending module; a good answer follows a delivery.
  `LatestKnown`: the last configuration to arrive is the one that was confirmed or is about to be.
  `FilesWhole`: what a file holds was a valid configuration. For the files, `FilesKnown`: a
  descriptor that knows the hash of its file knows what is in it, through boots with any subset of
  the files readable or partly applied. `RequestKept` is inductive with the invariant: a module that
  was asked for is not the pending one, so that no answer can record its hash before it is sent.

`ReadingRestores`, `EvaluationStops` and `SavedForGood` are the steps on which the liveness
properties `ChargeResumes`, `LowBatteryStops` and `CloudFollows` turn: the theorems show that one
such step is enough whatever came before, TLC that fairness brings it about.

Only model-checked:

* Liveness, since fairness and `ENABLED` are beyond the prover: `UrgentServed`, `StatesEnd`,
  `NetworkServed`, `AnswerComes`, `StoreDrains`, `CloudFollows`, `ChargeResumes`,
  `LowBatteryStops`.
* The properties of the runs that expect a violation, which do not hold.
* That a composition implements its parts is not stated as a theorem: `ChargeControl` and
  `BatteryMonitor` share with `EdgePower` the budgets `faults` and `MaxMoves`, bounds of
  the check, which a step of one part spends for both.

## Not modelled

Most of the repository's lines are vendored drivers (the IMUs, the GNSS receiver, the CAN
controller, the fuel gauge, memfault) and register access: sequences of reads and writes whose
correctness depends on the chips. They are listed as components and stay out, as do wording and
layout of JSON, logging and the user application, which each product replaces.

* The geometry of the geofence: floating point. The zones' sides are inputs.
* The user's temperature triggers: two comparators with a latch. They only raise triggers.
* `EdgeMotion` and the IMU: a queue that one call drains into triggers (`Requests`).
* `EdgeShipping`: one sequence of delays with one interrupt; what is wrong with it is said above.
* `EdgeCellular`: a thread that copies the modem's answers under a lock.
* `updateNextWake()` and the early wake of `onSleepPrepare()`: arithmetic of seconds whose outcome
  (sleep or cancel) is an input of `EdgeSleep`.
* `quickSortFiles()`: modelled by its result. The vector that holds its stack is too short for one
  file (`DiskQueue.cpp:384`), which is below the level of these models, as is the memory of
  the publisher's callbacks.
* The lengths inside a file: `peekFront()` is given the size of a front that it may itself
  discard (`edge_location_publish.cpp:85`; `DiskQueue.cpp:22` notes it).
* Real clocks: ages count seconds, and the wrap of the uptime after 136 years is left out; where
  counters wrap in practice (`millis()`, CloudService's timeouts) they do in the models.

## Plan

Written: `BackgroundPublish` with `PublishQueue`, `EdgeSleep`, `DiskQueue` with `DurableFifo`,
`CloudService` with `Answering`, `StoreForward`, `ConfigService`, `EdgePower`, `EdgeLocation`.
What could follow, most useful first:

1. The composition of `LocationPublish` with `EdgeSleep`: intervals across sleep, with
   `updateNextWake()` as a function checked against its definition.
2. `Shipping` composed with the low-battery shutdown.
3. `FileSort` (`quickSortFiles` with the bound of its stack) against a definition.
4. The user's temperature triggers and `ThresholdComparator`.
5. Theorems: an abstract specification of `StoreForward` (one place per location) and of
   `ConfigService` (the cloud has some version that was in effect), and their refinements.

The set of runs is kept small, one passing run per module where its properties can share an
instance; where a violated run has served its purpose, it moves to the list of disagreements.
