---------------------------- MODULE ConfigService ----------------------------
(***************************************************************************)
(* The configuration service of lib/fw-config-service: it keeps one         *)
(* configuration per module, publishes those that differ from what the       *)
(* cloud last confirmed, saves those that differ from their file, and        *)
(* carries out the commands set_cfg, get_cfg and reset_to_factory.           *)
(*                                                                         *)
(* The hash of a configuration stands for it (collisions are left out), and  *)
(* NoHash for a hash that matches none: the zeros of a new descriptor, or    *)
(* what get_cfg makes of the last synchronised one.  CloudService is seen    *)
(* through what it promises: a message is accepted, or refused and answered  *)
(* with a failure at once; answers are delivered by CloudService::tick(),    *)
(* which precedes ConfigService::tick() in every pass of Edge::loop().       *)
(* Modules are visited in the order of a list; here in any order.            *)
(***************************************************************************)
EXTENDS Naturals, Sequences

CONSTANTS
    Modules, NoModule,
    Configs, NoHash,
    Default,    \* the configuration compiled into the firmware
    Proper,     \* configurations the exit callback of a module accepts
    Shadowed,   \* modules that are written through a shadow copy
    TooBig,     \* configurations that overflow the buffers, of about a kilobyte
    MaxChanges, \* bound on commands
    MaxFaults   \* bound on refusals, failures, disconnections and restarts

ASSUME ConfigAssumption ==
    /\ NoModule \notin Modules /\ NoHash \notin Configs
    /\ Default \in Proper /\ Proper \subseteq Configs
    /\ Shadowed \subseteq Modules /\ TooBig \subseteq Configs
    /\ MaxChanges \in Nat /\ MaxFaults \in Nat

VARIABLES
    pc,          \* the tick that comes next: "cloud" or "config"
    connected,   \* Particle.connected()
    fsOk,        \* fs_ok
    val,         \* the configuration in effect
    hash, sync, fileHash, fileSync, \* the four hashes of a descriptor
    disk,        \* the files
    syncOk, syncPending, pending, pendingHash,
    syncMsg,     \* the overall synchronisation message and its answer
    flight,      \* configuration messages with the publisher
    answers,     \* their answers, deferred to CloudService::tick()
    \* History variables and bounds.
    delivered,   \* configurations that reached the cloud
    latest,      \* the last of them
    crossed,     \* a message was accepted after a refusal in the same pass
    unheard,     \* a message reached the cloud and its answer was lost
    asked,       \* modules get_cfg asked for and not sent since
    changes, faults

service == <<syncOk, syncPending, pending, pendingHash>>
hashes == <<hash, sync, fileHash, fileSync>>
messages == <<syncMsg, flight, answers>>
history == <<delivered, latest, crossed, unheard, asked>>
bounds == <<changes, faults>>
vars == <<pc, connected, fsOk, val, hashes, disk, service, messages, history, bounds>>

Hashes == Configs \cup {NoHash}
NoFile == [cfg |-> NoHash, sync |-> NoHash]
Files == [cfg : Hashes, sync : Hashes]
Messages == [m : Modules, v : Configs]
Answers == [m : Modules, v : Configs, ok : BOOLEAN]

TypeOK ==
    /\ pc \in {"cloud", "config"}
    /\ connected \in BOOLEAN /\ fsOk \in BOOLEAN
    /\ val \in [Modules -> Configs]
    /\ hash \in [Modules -> Hashes] /\ sync \in [Modules -> Hashes]
    /\ fileHash \in [Modules -> Hashes] /\ fileSync \in [Modules -> Hashes]
    /\ disk \in [Modules -> Files]
    /\ syncOk \in BOOLEAN /\ syncPending \in BOOLEAN
    /\ pending \in Modules \cup {NoModule} /\ pendingHash \in Hashes
    /\ syncMsg \in {"none", "flight", "SUCCESS", "FAILURE"}
    /\ flight \in Seq(Messages) /\ answers \in Seq(Answers)
    /\ delivered \in [Modules -> SUBSET Configs] /\ latest \in [Modules -> Hashes]
    /\ crossed \in BOOLEAN /\ unheard \in BOOLEAN /\ asked \subseteq Modules
    /\ changes \in 0 .. MaxChanges /\ faults \in 0 .. MaxFaults

-----------------------------------------------------------------------------
(* Start: init(), then registerModule() with _load() for every module.     *)

\* A module whose file is there and can be read starts from it.
Loaded_always(files, readable) == readable
Loaded(files, readable) == {m \in readable : files[m] # NoFile}

\* _process_load(): the hash that was synchronised is the one in the file.
LoadedSync_own(file) == file.cfg
LoadedSync(file) == file.sync

\* The file of a module in "refused" can be read and is not accepted, after its
\* hash was taken (config_service.cpp:441).  Unless there is a shadow copy, the
\* fields before the first that is refused are set: to any configuration.
Boot(files, readable, refused) ==
    /\ pc' = "cloud" /\ connected' = FALSE
    /\ disk' = files
    /\ LET loaded == Loaded(files, readable \ refused)
           partial == Loaded(files, refused)
       IN
       /\ \E written \in [partial \ Shadowed -> Configs] :
            val' = [m \in Modules |-> CASE m \in loaded -> files[m].cfg
                                        [] m \in partial \ Shadowed -> written[m]
                                        [] OTHER -> Default]
       /\ fileHash' = [m \in Modules |-> IF m \in loaded THEN files[m].cfg ELSE NoHash]
       /\ fileSync' = [m \in Modules |-> IF m \in loaded \cup partial
                                         THEN LoadedSync(files[m]) ELSE NoHash]
       /\ sync' = [m \in Modules |-> IF m \in loaded THEN LoadedSync(files[m]) ELSE NoHash]
    /\ hash' = fileHash'
    /\ syncOk' = FALSE /\ syncPending' = FALSE
    /\ pending' = NoModule /\ pendingHash' = NoHash
    /\ syncMsg' = "none" /\ flight' = <<>> /\ answers' = <<>>

Init ==
    /\ pc = "cloud" /\ connected = FALSE /\ fsOk \in BOOLEAN
    /\ val = [m \in Modules |-> Default]
    /\ hash = [m \in Modules |-> NoHash] /\ sync = hash
    /\ fileHash = hash /\ fileSync = hash
    /\ disk = [m \in Modules |-> NoFile]
    /\ syncOk = FALSE /\ syncPending = FALSE
    /\ pending = NoModule /\ pendingHash = NoHash
    /\ syncMsg = "none" /\ flight = <<>> /\ answers = <<>>
    /\ delivered = [m \in Modules |-> {}] /\ latest = [m \in Modules |-> NoHash]
    /\ crossed = FALSE /\ unheard = FALSE /\ asked = {}
    /\ changes = 0 /\ faults = 0

Fault(happens) ==
    /\ happens => faults < MaxFaults
    /\ faults' = IF happens THEN faults + 1 ELSE faults

\* A message has reached the cloud and the files do not say so.
Unrecorded(files) ==
    \E m \in Modules : files[m].sync # NoHash /\ latest[m] # files[m].sync

Restart(files) ==
    /\ Fault(TRUE)
    /\ fsOk' \in BOOLEAN
    /\ \E readable \in SUBSET Modules : \E refused \in SUBSET readable :
         /\ fsOk' \/ readable = {}
         /\ Boot(files, readable, refused)
    /\ unheard' = (unheard \/ Unrecorded(files))
    /\ asked' = {}
    /\ UNCHANGED <<delivered, latest, crossed, changes>>

\* A power loss or reset; a save is cut by rename(), so that a file is whole.
Reboot == Restart(disk)

\* resetToFactory(): all files, or those removed before the power was lost.
FactoryReset ==
    \E removed \in SUBSET Modules :
        Restart([m \in Modules |-> IF m \in removed THEN NoFile ELSE disk[m]])

-----------------------------------------------------------------------------
(* Commands *)

\* _config_process_json() of one module.  "written" is what the fields before
\* the end of the object, or before the first that is refused, make of the
\* present configuration: any.  A shadowed module takes it as a whole or not
\* at all; the others keep the fields that were set before an error.
Stored_direct(m, written, refused) == written
Stored(m, written, refused) ==
    IF m \in Shadowed /\ (refused \/ written \notin Proper) THEN val[m] ELSE written

\* set_cfg_cb()
SetCfg(m) ==
    /\ changes < MaxChanges /\ changes' = changes + 1
    /\ \E written \in Configs, refused \in BOOLEAN :
         val' = [val EXCEPT ![m] = Stored(m, written, refused)]
    /\ UNCHANGED <<pc, connected, fsOk, hashes, disk, service, messages, history, faults>>

\* get_cfg_cb(): the last synchronised hash is made wrong.  One that is sent at
\* this moment is confirmed in spite of it.
Marked_named(S) == [m \in Modules |-> IF m \in S /\ S # Modules THEN NoHash ELSE sync[m]]
Marked(S) == [m \in Modules |-> IF m \in S THEN NoHash ELSE sync[m]]
GetCfg(S) ==
    /\ changes < MaxChanges /\ changes' = changes + 1
    /\ sync' = Marked(S)
    /\ asked' = asked \cup (S \ {pending})
    /\ UNCHANGED <<pc, connected, fsOk, val, hash, fileHash, fileSync, disk, service,
                   messages, delivered, latest, crossed, unheard, faults>>

-----------------------------------------------------------------------------
(* The connection and the publisher *)

Connect ==
    /\ ~connected /\ connected' = TRUE
    /\ UNCHANGED <<pc, fsOk, val, hashes, disk, service, messages, history, bounds>>
Disconnect ==
    /\ connected /\ connected' = FALSE
    /\ Fault(TRUE)
    /\ UNCHANGED <<pc, fsOk, val, hashes, disk, service, messages, history, changes>>

\* The overall message is published, or fails.
SyncCompletes ==
    /\ syncMsg = "flight"
    /\ \/ connected /\ syncMsg' = "SUCCESS" /\ UNCHANGED faults
       \/ syncMsg' = "FAILURE" /\ Fault(TRUE)
    /\ UNCHANGED <<pc, connected, fsOk, val, hashes, disk, service, flight, answers,
                   history, changes>>

Arrives(msg) ==
    /\ delivered' = [delivered EXCEPT ![msg.m] = @ \cup {msg.v}]
    /\ latest' = [latest EXCEPT ![msg.m] = msg.v]

Answer(msg, ok) ==
    /\ flight # <<>> /\ msg = Head(flight)
    /\ flight' = Tail(flight)
    /\ answers' = Append(answers, [m |-> msg.m, v |-> msg.v, ok |-> ok])
    /\ UNCHANGED <<pc, connected, fsOk, val, hashes, disk, service, syncMsg, crossed,
                   asked, changes>>

Published ==
    /\ connected
    /\ \E msg \in Messages : Answer(msg, TRUE) /\ Arrives(msg)
    /\ UNCHANGED <<unheard, faults>>

\* The publish fails, or it succeeds and the publisher does not hear of it.
NotPublished ==
    /\ Fault(TRUE)
    /\ \E msg \in Messages :
         /\ Answer(msg, FALSE)
         /\ \/ Arrives(msg) /\ unheard' = TRUE
            \/ UNCHANGED <<delivered, latest, unheard>>

-----------------------------------------------------------------------------
(* CloudService::tick(): the deferred answers, in order *)

\* sync_ack_cb()
SyncAnswered ==
    IF syncMsg \in {"SUCCESS", "FAILURE"}
    THEN /\ syncOk' = (syncOk \/ (syncMsg = "SUCCESS" /\ syncPending))
         /\ syncPending' = FALSE /\ syncMsg' = "none"
    ELSE UNCHANGED <<syncOk, syncPending, syncMsg>>

\* config_sync_ack_cb().  It clears the pending module whatever the answer, so
\* that of several answers only the first one finds it.
Confirmed_current == [sync EXCEPT ![pending] = hash[pending]]
Confirmed == [sync EXCEPT ![pending] = pendingHash]
Cleared_unless(ok) == IF ok THEN NoModule ELSE pending
Cleared(ok) == NoModule
ConfigAnswered ==
    IF answers # <<>>
    THEN /\ sync' = IF Head(answers).ok /\ pending # NoModule THEN Confirmed ELSE sync
         /\ pending' = Cleared(Head(answers).ok) /\ answers' = <<>>
    ELSE UNCHANGED <<sync, pending, answers>>

CloudTick ==
    /\ pc = "cloud" \/ answers # <<>> \/ syncMsg \in {"SUCCESS", "FAILURE"}
    /\ pc' = "config"
    /\ SyncAnswered /\ ConfigAnswered
    /\ UNCHANGED <<connected, fsOk, val, hash, fileHash, fileSync, disk, pendingHash,
                   flight, history, bounds>>

-----------------------------------------------------------------------------
(* tick_sec() *)

\* _save() of every module whose file is out of date.
OutOfDate(h) == {m \in Modules : h[m] # fileHash[m] \/ sync[m] # fileSync[m]}
SaveAll(h, failing) ==
    LET saved == {m \in OutOfDate(h) \ failing : val[m] \notin TooBig} IN
    /\ disk' = [m \in Modules |-> IF m \in saved THEN [cfg |-> val[m], sync |-> sync[m]]
                                  ELSE disk[m]]
    /\ fileHash' = [m \in Modules |-> IF m \in saved THEN h[m] ELSE fileHash[m]]
    /\ fileSync' = [m \in Modules |-> IF m \in saved THEN sync[m] ELSE fileSync[m]]

NoSave == UNCHANGED <<disk, fileHash, fileSync>>
SaveIfOk(h, failing) == IF fsOk THEN SaveAll(h, failing) ELSE failing = {} /\ NoSave

NothingSent == UNCHANGED <<service, messages, history>>

\* The overall message, first after a boot.
SyncSent(refused) ==
    /\ IF refused
       THEN syncMsg' = "FAILURE" /\ UNCHANGED syncPending
       ELSE syncMsg' = "flight" /\ syncPending' = TRUE
    /\ UNCHANGED <<syncOk, pending, pendingHash, flight, answers, history>>

\* Modules that differ from what the cloud confirmed and whose message fits.
Unconfirmed == {m \in Modules : val[m] # sync[m] /\ val[m] \notin TooBig}

\* A refused message is answered with a failure: as far as the callback can
\* tell, one such answer stands for several.
Refusals(refused) ==
    IF refused = {} THEN <<>>
    ELSE LET m == CHOOSE r \in refused : TRUE IN <<[m |-> m, v |-> val[m], ok |-> FALSE]>>

\* The first message that is accepted ends the loop over the modules.
AcceptedAfter(refused, m) ==
    /\ m \in Unconfirmed \ refused
    /\ flight' = Append(flight, [m |-> m, v |-> val[m]])
    /\ pending' = m /\ pendingHash' = val[m]
    /\ crossed' = (crossed \/ refused # {})
    /\ asked' = asked \ {m}
NoneAccepted(refused) ==
    /\ refused = Unconfirmed
    /\ UNCHANGED <<flight, pending, pendingHash, crossed, asked>>
ConfigSent(refused) ==
    /\ (\E m \in Modules : AcceptedAfter(refused, m)) \/ NoneAccepted(refused)
    /\ answers' = answers \o Refusals(refused)
    /\ UNCHANGED <<syncOk, syncPending, syncMsg, delivered, latest, unheard>>

TickFrame == UNCHANGED <<connected, fsOk, val, sync, changes>>

\* Each disjunct saves at its end.
TickOffline ==
    /\ ~connected \/ (~syncOk /\ syncPending) \/ (syncOk /\ pending # NoModule)
    /\ NothingSent
    /\ \E failing \in SUBSET Modules :
         SaveIfOk(val, failing) /\ Fault(failing # {})
TickSync ==
    /\ connected /\ ~syncOk /\ ~syncPending
    /\ \E failing \in SUBSET Modules, refused \in BOOLEAN :
         /\ SyncSent(refused)
         /\ SaveIfOk(val, failing) /\ Fault(refused \/ failing # {})
TickConfig ==
    /\ connected /\ syncOk /\ pending = NoModule
    /\ \E failing \in SUBSET Modules, refused \in SUBSET Unconfirmed :
         /\ ConfigSent(refused)
         /\ SaveIfOk(val, failing) /\ Fault(refused # {} \/ failing # {})

ConfigTick ==
    /\ pc = "config" /\ pc' = "cloud"
    /\ hash' = val
    /\ TickOffline \/ TickSync \/ TickConfig
    /\ TickFrame

\* flush(), before the device sleeps.
Flush ==
    /\ fsOk /\ hash' = val
    /\ \E failing \in SUBSET Modules : SaveAll(val, failing) /\ Fault(failing # {})
    /\ UNCHANGED <<pc, connected, fsOk, val, sync, service, messages, history, changes>>

Next ==
    \/ Reboot \/ FactoryReset
    \/ \E m \in Modules : SetCfg(m)
    \/ \E S \in SUBSET Modules \ {{}} : GetCfg(S)
    \/ Connect \/ Disconnect
    \/ SyncCompletes \/ Published \/ NotPublished
    \/ CloudTick \/ ConfigTick \/ Flush

Spec == Init /\ [][Next]_vars

\* loop() keeps calling both ticks, the publisher completes what it accepted,
\* and a lost connection comes back.
Fairness ==
    /\ WF_vars(CloudTick) /\ WF_vars(ConfigTick)
    /\ WF_vars(SyncCompletes) /\ WF_vars(Published \/ NotPublished)
    /\ WF_vars(Connect)
FairSpec == Spec /\ Fairness

-----------------------------------------------------------------------------
Recorded(m, h) == h = NoHash \/ h \in delivered[m]
AllRecorded ==
    \A m \in Modules :
        Recorded(m, sync[m]) /\ Recorded(m, fileSync[m]) /\ Recorded(m, disk[m].sync)

(* "as most recently synchronized successfully with the cloud"             *)
(* (config_service.h:42): a hash is recorded for a module, in RAM or in its  *)
(* file, only if that configuration reached the cloud.                     *)
RecordedWasDelivered == AllRecorded

(* It is so as long as no message was accepted after a refusal in the same *)
(* pass, whatever changes, fails, restarts or is asked for in between.     *)
RecordedAlone == ~crossed => AllRecorded

(* A module that is taken to be in step with the cloud is: when what is in  *)
(* effect equals what was confirmed and no message of it is under way, the  *)
(* cloud's last copy is the one in effect.  Where an answer was lost it need *)
(* not be: the change it confirmed may be reverted before it is repeated.   *)
InStep ==
    ~crossed /\ ~unheard =>
        \A m \in Modules : pending # m /\ sync[m] = val[m] => latest[m] = val[m]

(* A configuration that is written as a whole is never in effect, in a file  *)
(* or sent in a form its module does not accept.                           *)
WholeOnly ==
    \A m \in Shadowed :
        /\ val[m] \in Proper
        /\ disk[m] # NoFile => disk[m].cfg \in Proper
        /\ \A i \in DOMAIN flight : flight[i].m = m => flight[i].v \in Proper

(* A file is left alone only when it is right: where the descriptor of a       *)
(* module says that nothing is to be saved, the file holds the configuration  *)
(* in effect and the hash that was confirmed, whatever saves failed and        *)
(* wherever the power was lost.                                            *)
FileTrue(m) ==
    m \notin OutOfDate(val) => disk[m] = [cfg |-> val[m], sync |-> sync[m]]
FilesTrue == \A m \in Modules : FileTrue(m)

(* One tick, or the flush() before the device sleeps, in which no write fails  *)
(* leaves nothing to lose: every configuration that fits is in its file, with  *)
(* what the cloud has confirmed.                                           *)
SavedForGood ==
    [][(ConfigTick \/ Flush) /\ fsOk /\ faults' = faults =>
          \A m \in Modules : val[m] \in TooBig \/ disk'[m] = [cfg |-> val[m], sync |-> sync[m]]]_vars

(* What get_cfg asked for stays due until it is sent: no answer that is still *)
(* under way takes the request back.                                       *)
RequestKept ==
    \A m \in asked : m # pending /\ sync[m] = NoHash

(* When commands and faults end, every configuration that fits the buffers  *)
(* is both with the cloud and, where the file system works, in its file.   *)
Settled(m) ==
    /\ latest[m] = val[m]
    /\ fsOk => disk[m] = [cfg |-> val[m], sync |-> val[m]]
Converges == <>[](crossed \/ unheard \/ \A m \in Modules : val[m] \in TooBig \/ Settled(m))

(* What get_cfg asks for is sent, unless it was under way already.         *)
RequestServed ==
    \A m \in Modules : m \in asked ~> m \notin asked \/ crossed \/ val[m] \in TooBig

(* Both: the cloud gets what changed and what it asks for.                 *)
CloudFollows == Converges /\ RequestServed
=============================================================================
