-------------------------- MODULE ConfigServiceProofs --------------------------
(***************************************************************************)
(* What ConfigService keeps for every set of modules and configurations and   *)
(* for any number of commands, failures and restarts.                        *)
(***************************************************************************)
EXTENDS ConfigService, TLAPS

-----------------------------------------------------------------------------
(* The inductive invariant.  Unless messages have crossed, there is one        *)
(* configuration message at a time: it is with the publisher, or its answer is  *)
(* waiting, and the answer speaks of the pending module.                     *)

FilesWhole == \A m \in Modules : disk[m] # NoFile => disk[m].cfg \in Configs

AnsweredWith(ok) ==
    flight = <<>> /\ answers = <<[m |-> pending, v |-> pendingHash, ok |-> ok]>>
Idle == flight = <<>> /\ \A i \in DOMAIN answers : ~answers[i].ok
Sent == flight = <<[m |-> pending, v |-> pendingHash]>> /\ answers = <<>>

OneAtATime ==
    /\ pending = NoModule => Idle /\ (pc = "config" => answers = <<>>)
    /\ pending # NoModule =>
         \/ Sent \/ AnsweredWith(FALSE)
         \/ AnsweredWith(TRUE) /\ pendingHash \in delivered[pending]

\* The last configuration to arrive is the one that was confirmed, or the one
\* that is about to be.
LatestKnown ==
    /\ pending # NoModule /\ AnsweredWith(TRUE) => latest[pending] = pendingHash
    /\ \A m \in Modules :
         sync[m] # NoHash =>
            latest[m] = sync[m] \/ (pending = m /\ AnsweredWith(TRUE))

Ordered ==
    ~crossed => OneAtATime /\ AllRecorded /\ (~unheard => LatestKnown)

IInv == TypeOK /\ FilesWhole /\ WholeOnly /\ Ordered

LEMMA Implied == IInv => TypeOK /\ RecordedAlone /\ InStep /\ WholeOnly
<1> SUFFICES ASSUME IInv PROVE TypeOK /\ RecordedAlone /\ InStep /\ WholeOnly
  OBVIOUS
<1>1. RecordedAlone
  BY DEF IInv, Ordered, RecordedAlone
<1>2. InStep
  <2> SUFFICES ASSUME ~crossed, ~unheard, NEW m \in Modules, pending # m,
                      sync[m] = val[m]
               PROVE  latest[m] = val[m]
    BY DEF InStep
  <2>1. sync[m] # NoHash
    BY ConfigAssumption DEF IInv, TypeOK
  <2> QED BY <2>1 DEF IInv, Ordered, LatestKnown
<1> QED BY <1>1, <1>2 DEF IInv

-----------------------------------------------------------------------------
LEMMA FaultType ==
    ASSUME NEW happens \in BOOLEAN, faults \in 0 .. MaxFaults, Fault(happens)
    PROVE  faults' \in 0 .. MaxFaults
BY ConfigAssumption DEF Fault

LEMMA NoFileType == NoFile \in Files /\ NoFile.sync = NoHash /\ NoFile.cfg = NoHash
BY DEF NoFile, Files, Hashes

LEMMA NoMessages == <<>> \in Seq(Messages) /\ <<>> \in Seq(Answers)
OBVIOUS

LEMMA InitOK == Init => IInv
<1> SUFFICES ASSUME Init PROVE IInv
  OBVIOUS
<1>1. Default \in Configs /\ NoHash \in Hashes /\ Configs \subseteq Hashes
  BY ConfigAssumption DEF Hashes
<1>2. changes \in 0 .. MaxChanges /\ faults \in 0 .. MaxFaults
  BY ConfigAssumption DEF Init
<1>3. TypeOK
  <2>1. /\ val \in [Modules -> Configs] /\ disk \in [Modules -> Files]
        /\ hash \in [Modules -> Hashes] /\ sync \in [Modules -> Hashes]
        /\ fileHash \in [Modules -> Hashes] /\ fileSync \in [Modules -> Hashes]
        /\ delivered \in [Modules -> SUBSET Configs] /\ latest \in [Modules -> Hashes]
    BY <1>1, NoFileType DEF Init
  <2>2. flight \in Seq(Messages) /\ answers \in Seq(Answers)
    BY NoMessages DEF Init
  <2> QED BY <1>1, <1>2, <2>1, <2>2 DEF Init, TypeOK
<1>4. FilesWhole
  BY DEF Init, FilesWhole
<1>5. WholeOnly
  <2>1. \A m \in Shadowed : val[m] \in Proper /\ disk[m] = NoFile
    BY ConfigAssumption DEF Init
  <2>2. DOMAIN flight = {}
    BY DEF Init
  <2> QED BY <2>1, <2>2 DEF WholeOnly
<1>6. AllRecorded
  BY NoFileType DEF Init, AllRecorded, Recorded
<1>7. OneAtATime /\ LatestKnown
  BY DEF Init, OneAtATime, LatestKnown, Idle
<1> QED BY <1>3, <1>4, <1>5, <1>6, <1>7 DEF IInv, Ordered

-----------------------------------------------------------------------------
(* Restarts *)

\* What the modules start from: their files, or a part of them, or nothing.
StartsFrom(files, loaded, partial) ==
    /\ \A m \in loaded \cup partial : files[m] # NoFile
    /\ DOMAIN val' = Modules
    /\ \A m \in loaded : val'[m] = files[m].cfg
    /\ \A m \in Modules \ loaded :
         val'[m] = Default \/ (m \notin Shadowed /\ val'[m] \in Configs)
    /\ fileHash' = [m \in Modules |-> IF m \in loaded THEN files[m].cfg ELSE NoHash]
    /\ hash' = fileHash'
    /\ sync' = [m \in Modules |-> IF m \in loaded THEN files[m].sync ELSE NoHash]
    /\ fileSync' = [m \in Modules |-> IF m \in loaded \cup partial
                                      THEN files[m].sync ELSE NoHash]

LEMMA BootFacts ==
    ASSUME NEW files, NEW readable \in SUBSET Modules, NEW refused \in SUBSET readable,
           Boot(files, readable, refused)
    PROVE  \E loaded, partial \in SUBSET Modules : StartsFrom(files, loaded, partial)
<1> DEFINE loaded == Loaded(files, readable \ refused)
           partial == Loaded(files, refused)
<1>1. /\ loaded \in SUBSET Modules /\ partial \in SUBSET Modules
      /\ \A m \in loaded \cup partial : files[m] # NoFile
  BY DEF Loaded
<1>2. PICK written \in [partial \ Shadowed -> Configs] :
        val' = [m \in Modules |-> CASE m \in loaded -> files[m].cfg
                                    [] m \in partial \ Shadowed -> written[m]
                                    [] OTHER -> Default]
  BY DEF Boot
<1>3. /\ fileHash' = [m \in Modules |-> IF m \in loaded THEN files[m].cfg ELSE NoHash]
      /\ hash' = fileHash'
      /\ sync' = [m \in Modules |-> IF m \in loaded THEN files[m].sync ELSE NoHash]
      /\ fileSync' = [m \in Modules |-> IF m \in loaded \cup partial
                                        THEN files[m].sync ELSE NoHash]
  BY DEF Boot, LoadedSync
<1>4. loaded \cap partial = {}
  BY DEF Loaded
<1> HIDE DEF loaded, partial
<1>5. /\ DOMAIN val' = Modules
      /\ \A m \in loaded : val'[m] = files[m].cfg
  BY <1>1, <1>2, <1>4
<1>6. ASSUME NEW m \in Modules \ loaded
      PROVE  val'[m] = Default \/ (m \notin Shadowed /\ val'[m] \in Configs)
  <2>1. CASE m \in partial \ Shadowed
    <3>1. val'[m] = written[m]
      BY <1>2, <2>1
    <3> QED BY <2>1, <3>1
  <2>2. CASE m \notin partial \ Shadowed
    <3>1. val'[m] = Default
      BY <1>2, <2>2
    <3> QED BY <3>1
  <2> QED BY <2>1, <2>2
<1>7. StartsFrom(files, loaded, partial)
  BY <1>1, <1>3, <1>5, <1>6 DEF StartsFrom
<1> QED BY <1>1, <1>7

LEMMA BootOK ==
    ASSUME IInv, NEW files \in [Modules -> Files], NEW readable \in SUBSET Modules,
           NEW refused \in SUBSET readable,
           \A m \in Modules : files[m] = disk[m] \/ files[m] = NoFile,
           Boot(files, readable, refused), Fault(TRUE), fsOk' \in BOOLEAN,
           unheard' = (unheard \/ Unrecorded(files)), asked' = {},
           UNCHANGED <<delivered, latest, crossed, changes>>
    PROVE  IInv'
<1>0. PICK loaded, partial \in SUBSET Modules : StartsFrom(files, loaded, partial)
  BY BootFacts
<1>1. /\ loaded \subseteq Modules
      /\ \A m \in loaded : files[m] # NoFile /\ files[m] = disk[m]
  BY <1>0 DEF StartsFrom
<1>2. /\ disk' = files
      /\ pc' = "cloud" /\ connected' = FALSE
      /\ syncOk' = FALSE /\ syncPending' = FALSE
      /\ pending' = NoModule /\ pendingHash' = NoHash
      /\ syncMsg' = "none" /\ flight' = <<>> /\ answers' = <<>>
  BY DEF Boot
<1>3. \A m \in loaded : files[m].cfg \in Configs
  BY <1>1 DEF IInv, FilesWhole
<1>4. \A m \in Modules : files[m].cfg \in Hashes /\ files[m].sync \in Hashes
  BY DEF Files
<1>5. Default \in Configs /\ NoHash \in Hashes /\ Configs \subseteq Hashes
  BY ConfigAssumption DEF Hashes
<1>6. faults' \in 0 .. MaxFaults
  BY FaultType DEF IInv, TypeOK
<1>7. TypeOK'
  <2>1. val' \in [Modules -> Configs]
    <3>1. \A m \in Modules : val'[m] \in Configs
      BY <1>0, <1>3, <1>5 DEF StartsFrom
    <3>2. val' = [m \in Modules |-> val'[m]]
      BY <1>2 DEF Boot
    <3> QED BY <3>1, <3>2
  <2>2. /\ hash' \in [Modules -> Hashes] /\ sync' \in [Modules -> Hashes]
        /\ fileHash' \in [Modules -> Hashes] /\ fileSync' \in [Modules -> Hashes]
    BY <1>0, <1>4, <1>5 DEF StartsFrom
  <2>3. unheard' \in BOOLEAN
    BY DEF IInv, TypeOK, Unrecorded
  <2>4. flight' \in Seq(Messages) /\ answers' \in Seq(Answers)
    BY <1>2, NoMessages
  <2> QED BY <1>2, <1>5, <1>6, <2>1, <2>2, <2>3, <2>4 DEF IInv, TypeOK
<1>8. FilesWhole'
  BY <1>2 DEF IInv, FilesWhole
<1>9. WholeOnly'
  <2> SUFFICES ASSUME NEW m \in Shadowed
               PROVE  val'[m] \in Proper /\ (disk'[m] # NoFile => disk'[m].cfg \in Proper)
    BY <1>2 DEF WholeOnly
  <2>1. m \in Modules
    BY ConfigAssumption
  <2>2. files[m] # NoFile => files[m].cfg \in Proper
    BY <2>1 DEF IInv, WholeOnly
  <2>3. val'[m] \in Proper
    <3>1. CASE m \in loaded
      BY <1>0, <1>1, <2>2, <3>1 DEF StartsFrom
    <3>2. CASE m \notin loaded
      BY <1>0, <2>1, <3>2, ConfigAssumption DEF StartsFrom
    <3> QED BY <3>1, <3>2
  <2> QED BY <1>2, <2>2, <2>3
<1>10. ASSUME ~crossed PROVE AllRecorded'
  <2> SUFFICES ASSUME NEW m \in Modules
               PROVE  Recorded(m, sync[m])' /\ Recorded(m, fileSync[m])'
                        /\ Recorded(m, disk[m].sync)'
    BY DEF AllRecorded
  <2>1. Recorded(m, disk[m].sync)
    BY <1>10 DEF IInv, Ordered, AllRecorded
  <2>2. files[m].sync = NoHash \/ files[m].sync \in delivered[m]
    BY <2>1, NoFileType DEF Recorded
  <2>3. /\ sync'[m] = files[m].sync \/ sync'[m] = NoHash
        /\ fileSync'[m] = files[m].sync \/ fileSync'[m] = NoHash
    BY <1>0 DEF StartsFrom
  <2> QED BY <1>2, <2>2, <2>3 DEF Recorded
<1>11. OneAtATime'
  BY <1>2 DEF OneAtATime, Idle
<1>12. ASSUME ~unheard' PROVE LatestKnown'
  <2>1. \A m \in Modules : files[m].sync = NoHash \/ latest[m] = files[m].sync
    BY <1>12 DEF Unrecorded
  <2> QED BY <1>0, <1>2, <2>1 DEF StartsFrom, LatestKnown
<1> QED BY <1>7, <1>8, <1>9, <1>10, <1>11, <1>12 DEF IInv, Ordered

LEMMA RestartOK ==
    ASSUME IInv, NEW files \in [Modules -> Files], Restart(files),
           \A m \in Modules : files[m] = disk[m] \/ files[m] = NoFile
    PROVE  IInv'
<1>1. PICK readable \in SUBSET Modules : \E refused \in SUBSET readable :
        Boot(files, readable, refused)
  BY DEF Restart
<1>2. PICK refused \in SUBSET readable : Boot(files, readable, refused)
  BY <1>1
<1> QED BY <1>2, BootOK DEF Restart

LEMMA RebootOK == IInv /\ Reboot => IInv'
BY RestartOK DEF Reboot, IInv, TypeOK

LEMMA FactoryResetOK == IInv /\ FactoryReset => IInv'
<1> SUFFICES ASSUME IInv, FactoryReset PROVE IInv'
  OBVIOUS
<1>1. PICK removed \in SUBSET Modules :
        Restart([m \in Modules |-> IF m \in removed THEN NoFile ELSE disk[m]])
  BY DEF FactoryReset
<1> DEFINE files == [m \in Modules |-> IF m \in removed THEN NoFile ELSE disk[m]]
<1>2. files \in [Modules -> Files]
  BY NoFileType DEF IInv, TypeOK
<1>3. \A m \in Modules : files[m] = disk[m] \/ files[m] = NoFile
  OBVIOUS
<1>4. Restart(files)
  BY <1>1
<1> HIDE DEF files
<1> QED BY <1>2, <1>3, <1>4, RestartOK

-----------------------------------------------------------------------------
(* Commands and the connection *)

\* What leaves these alone leaves the order of the messages alone.
LEMMA OrderedStutters ==
    ASSUME Ordered,
           UNCHANGED <<pc, sync, fileSync, disk, pending, pendingHash, flight, answers,
                       delivered, latest, crossed, unheard>>
    PROVE  Ordered'
BY DEF Ordered, OneAtATime, AllRecorded, Recorded, LatestKnown, Idle, Sent, AnsweredWith

LEMMA SetCfgOK == ASSUME IInv, NEW m \in Modules, SetCfg(m) PROVE IInv'
<1>1. PICK written \in Configs, refused \in BOOLEAN :
        val' = [val EXCEPT ![m] = Stored(m, written, refused)]
  BY DEF SetCfg
<1>2. /\ changes < MaxChanges /\ changes' = changes + 1
      /\ UNCHANGED <<pc, connected, fsOk, hashes, disk, service, messages, history, faults>>
  BY DEF SetCfg
<1>3. Stored(m, written, refused) \in Configs
  BY DEF IInv, TypeOK, Stored
<1>4. changes' \in 0 .. MaxChanges
  BY <1>2, ConfigAssumption DEF IInv, TypeOK
<1>5. val' \in [Modules -> Configs]
  BY <1>1, <1>3 DEF IInv, TypeOK
<1>6. TypeOK'
  BY <1>2, <1>4, <1>5 DEF IInv, TypeOK, hashes, service, messages, history
<1>7. FilesWhole'
  BY <1>2 DEF IInv, FilesWhole
<1>8. \A n \in Shadowed : val'[n] \in Proper
  <2>1. m \in Shadowed => Stored(m, written, refused) \in Proper
    BY DEF Stored, IInv, WholeOnly
  <2> QED BY <1>1, <2>1, ConfigAssumption DEF IInv, TypeOK, WholeOnly
<1>9. WholeOnly'
  BY <1>2, <1>8 DEF IInv, WholeOnly, messages
<1>10. Ordered'
  BY <1>2, OrderedStutters DEF IInv, hashes, service, messages, history
<1> QED BY <1>6, <1>7, <1>9, <1>10 DEF IInv

LEMMA GetCfgOK == ASSUME IInv, NEW S \in SUBSET Modules, GetCfg(S) PROVE IInv'
<1>1. /\ changes < MaxChanges /\ changes' = changes + 1
      /\ sync' = [m \in Modules |-> IF m \in S THEN NoHash ELSE sync[m]]
      /\ asked' = asked \cup (S \ {pending})
      /\ UNCHANGED <<pc, connected, fsOk, val, hash, fileHash, fileSync, disk, service,
                     messages, delivered, latest, crossed, unheard, faults>>
  BY DEF GetCfg, Marked
<1>2. sync' \in [Modules -> Hashes] /\ changes' \in 0 .. MaxChanges
  BY <1>1, ConfigAssumption DEF IInv, TypeOK, Hashes
<1>3. TypeOK'
  BY <1>1, <1>2 DEF IInv, TypeOK, service, messages
<1>4. FilesWhole' /\ WholeOnly'
  BY <1>1 DEF IInv, FilesWhole, WholeOnly, messages
<1>5. \A m \in Modules : sync'[m] = NoHash \/ sync'[m] = sync[m]
  BY <1>1
<1>6. ASSUME ~crossed PROVE OneAtATime' /\ AllRecorded'
  <2>1. OneAtATime'
    BY <1>1, <1>6 DEF IInv, Ordered, OneAtATime, Idle, Sent, AnsweredWith, service,
                      messages
  <2>2. AllRecorded'
    BY <1>1, <1>5, <1>6 DEF IInv, Ordered, AllRecorded, Recorded
  <2> QED BY <2>1, <2>2
<1>7. ASSUME ~crossed, ~unheard PROVE LatestKnown'
  BY <1>1, <1>5, <1>7 DEF IInv, Ordered, LatestKnown, AnsweredWith, service, messages
<1> QED BY <1>1, <1>3, <1>4, <1>6, <1>7 DEF IInv, Ordered

LEMMA ConnectionOK == IInv /\ (Connect \/ Disconnect \/ SyncCompletes) => IInv'
<1> SUFFICES ASSUME IInv, Connect \/ Disconnect \/ SyncCompletes PROVE IInv'
  OBVIOUS
<1>1. UNCHANGED <<pc, fsOk, val, hashes, disk, service, flight, answers, history,
                  changes>>
  BY DEF Connect, Disconnect, SyncCompletes, messages, bounds
<1>2. connected' \in BOOLEAN /\ syncMsg' \in {"none", "flight", "SUCCESS", "FAILURE"}
  BY DEF Connect, Disconnect, SyncCompletes, messages, IInv, TypeOK
<1>3. faults' \in 0 .. MaxFaults
  BY FaultType DEF Connect, Disconnect, SyncCompletes, bounds, IInv, TypeOK
<1>4. TypeOK'
  BY <1>1, <1>2, <1>3 DEF IInv, TypeOK, hashes, service, history
<1>5. FilesWhole' /\ WholeOnly'
  BY <1>1 DEF IInv, FilesWhole, WholeOnly
<1>6. Ordered'
  BY <1>1, OrderedStutters DEF IInv, hashes, service, history
<1> QED BY <1>4, <1>5, <1>6 DEF IInv
-----------------------------------------------------------------------------
(* The publisher's answers *)

LEMMA AnswerType ==
    ASSUME IInv, NEW msg \in Messages, NEW ok \in BOOLEAN, Answer(msg, ok)
    PROVE  /\ msg.m \in Modules /\ msg.v \in Configs
           /\ flight' \in Seq(Messages) /\ answers' \in Seq(Answers)
           /\ \A i \in DOMAIN flight' : i + 1 \in DOMAIN flight /\ flight'[i] = flight[i + 1]
<1>1. msg.m \in Modules /\ msg.v \in Configs
  BY DEF Messages
<1>2. [m |-> msg.m, v |-> msg.v, ok |-> ok] \in Answers
  BY <1>1 DEF Answers
<1>3. flight \in Seq(Messages) /\ flight # <<>> /\ flight' = Tail(flight)
  BY DEF Answer, IInv, TypeOK
<1>4. answers' \in Seq(Answers)
  BY <1>2 DEF Answer, IInv, TypeOK
<1> QED BY <1>1, <1>3, <1>4

\* Only the message of the pending module can be answered.
LEMMA AnswerOfPending ==
    ASSUME IInv, ~crossed, NEW msg \in Messages, NEW ok \in BOOLEAN, Answer(msg, ok)
    PROVE  /\ pending # NoModule /\ Sent /\ msg = [m |-> pending, v |-> pendingHash]
           /\ AnsweredWith(ok)'
<1>1. flight # <<>> /\ msg = Head(flight)
  BY DEF Answer
<1>2. OneAtATime
  BY DEF IInv, Ordered
<1>3. pending # NoModule /\ Sent
  BY <1>1, <1>2 DEF OneAtATime, Idle, AnsweredWith
<1>4. msg = [m |-> pending, v |-> pendingHash]
  BY <1>1, <1>3 DEF Sent
<1>5. flight' = <<>>
  BY <1>3 DEF Answer, Sent
<1>6. answers' = <<[m |-> pending, v |-> pendingHash, ok |-> ok]>>
  BY <1>3, <1>4 DEF Answer, Sent
<1> QED BY <1>3, <1>4, <1>5, <1>6 DEF AnsweredWith, Answer, service

\* What an answer and an arrival do to everything but the order of messages.
LEMMA AnswerFrame ==
    ASSUME IInv, NEW msg \in Messages, NEW ok \in BOOLEAN, Answer(msg, ok),
           delivered' \in [Modules -> SUBSET Configs], latest' \in [Modules -> Hashes],
           unheard' \in BOOLEAN, faults' \in 0 .. MaxFaults
    PROVE  TypeOK' /\ FilesWhole' /\ WholeOnly'
<1>1. TypeOK'
  BY AnswerType DEF Answer, IInv, TypeOK, hashes, service
<1>2. FilesWhole'
  BY DEF Answer, IInv, FilesWhole
<1>3. WholeOnly'
  <2> SUFFICES ASSUME NEW m \in Shadowed, NEW i \in DOMAIN flight', flight'[i].m = m
               PROVE  flight'[i].v \in Proper
    BY DEF Answer, IInv, WholeOnly
  <2> QED BY AnswerType DEF IInv, WholeOnly
<1> QED BY <1>1, <1>2, <1>3

LEMMA ArrivesType ==
    ASSUME IInv, NEW msg \in Messages, Arrives(msg)
    PROVE  /\ delivered' \in [Modules -> SUBSET Configs]
           /\ latest' \in [Modules -> Hashes]
           /\ \A m \in Modules : delivered[m] \subseteq delivered'[m]
           /\ msg.v \in delivered'[msg.m] /\ latest'[msg.m] = msg.v
           /\ \A m \in Modules : m # msg.m => latest'[m] = latest[m]
<1>1. msg.m \in Modules /\ msg.v \in Configs
  BY DEF Messages
<1> QED BY <1>1 DEF Arrives, IInv, TypeOK, Hashes

LEMMA RecordedGrows ==
    ASSUME AllRecorded, UNCHANGED <<sync, fileSync, disk>>,
           \A m \in Modules : delivered[m] \subseteq delivered'[m]
    PROVE  AllRecorded'
BY DEF AllRecorded, Recorded

LEMMA PublishedOK == IInv /\ Published => IInv'
<1> SUFFICES ASSUME IInv, Published PROVE IInv'
  OBVIOUS
<1>1. PICK msg \in Messages : Answer(msg, TRUE) /\ Arrives(msg)
  BY DEF Published
<1>2. UNCHANGED <<unheard, faults, crossed, pc, sync, fileSync, disk, pending, pendingHash>>
  BY <1>1 DEF Published, Answer, hashes, service
<1>3. TypeOK' /\ FilesWhole' /\ WholeOnly'
  BY <1>1, <1>2, AnswerFrame, ArrivesType DEF IInv, TypeOK
<1>4. ASSUME ~crossed PROVE OneAtATime' /\ AllRecorded'
  <2>1. /\ pending # NoModule /\ msg.m = pending /\ msg.v = pendingHash
        /\ AnsweredWith(TRUE)'
    <3>1. pending # NoModule /\ msg = [m |-> pending, v |-> pendingHash]
          /\ AnsweredWith(TRUE)'
      BY <1>1, <1>4, AnswerOfPending
    <3> QED BY <3>1
  <2>2. pendingHash \in delivered'[pending]
    BY <1>1, <2>1, ArrivesType
  <2>3. OneAtATime'
    BY <1>2, <2>1, <2>2 DEF OneAtATime
  <2> QED BY <1>1, <1>2, <1>4, <2>3, ArrivesType, RecordedGrows DEF IInv, Ordered
<1>5. ASSUME ~crossed, ~unheard PROVE LatestKnown'
  <2>1. /\ pending # NoModule /\ Sent /\ msg.m = pending /\ msg.v = pendingHash
        /\ AnsweredWith(TRUE)'
    <3>1. /\ pending # NoModule /\ Sent /\ msg = [m |-> pending, v |-> pendingHash]
          /\ AnsweredWith(TRUE)'
      BY <1>1, <1>5, AnswerOfPending
    <3> QED BY <3>1
  <2>2. latest'[pending] = pendingHash
    BY <1>1, <2>1, ArrivesType
  <2>3. ASSUME NEW m \in Modules, sync[m] # NoHash, m # pending
        PROVE  latest'[m] = sync[m]
    BY <1>1, <1>5, <2>1, <2>3, ArrivesType DEF IInv, Ordered, LatestKnown
  <2> QED BY <1>2, <2>1, <2>2, <2>3 DEF LatestKnown
<1> QED BY <1>2, <1>3, <1>4, <1>5 DEF IInv, Ordered

LEMMA NotPublishedOK == IInv /\ NotPublished => IInv'
<1> SUFFICES ASSUME IInv, NotPublished PROVE IInv'
  OBVIOUS
<1>1. PICK msg \in Messages :
        /\ Answer(msg, FALSE)
        /\ \/ Arrives(msg) /\ unheard' = TRUE
           \/ UNCHANGED <<delivered, latest, unheard>>
  BY DEF NotPublished
<1>2. UNCHANGED <<crossed, pc, sync, fileSync, disk, pending, pendingHash>>
  BY <1>1 DEF Answer, hashes, service
<1>3. /\ delivered' \in [Modules -> SUBSET Configs] /\ latest' \in [Modules -> Hashes]
      /\ unheard' \in BOOLEAN /\ faults' \in 0 .. MaxFaults
      /\ \A m \in Modules : delivered[m] \subseteq delivered'[m]
  <2>1. faults' \in 0 .. MaxFaults
    BY FaultType DEF NotPublished, IInv, TypeOK
  <2> QED BY <1>1, <2>1, ArrivesType DEF IInv, TypeOK
<1>4. TypeOK' /\ FilesWhole' /\ WholeOnly'
  BY <1>1, <1>3, AnswerFrame
<1>5. ASSUME ~crossed PROVE OneAtATime' /\ AllRecorded'
  <2>1. pending # NoModule /\ AnsweredWith(FALSE)'
    BY <1>1, <1>5, AnswerOfPending
  <2>2. OneAtATime'
    BY <1>2, <2>1 DEF OneAtATime
  <2> QED BY <1>2, <1>3, <1>5, <2>2, RecordedGrows DEF IInv, Ordered
<1>6. ASSUME ~crossed, ~unheard' PROVE LatestKnown'
  <2>1. pending # NoModule /\ Sent /\ AnsweredWith(FALSE)'
    BY <1>1, <1>6, AnswerOfPending
  <2>2. UNCHANGED <<delivered, latest, unheard>>
    BY <1>1, <1>6
  <2>3. \A m \in Modules : sync[m] # NoHash => latest[m] = sync[m]
    BY <1>6, <2>1, <2>2 DEF IInv, Ordered, LatestKnown, Sent, AnsweredWith
  <2>4. ~AnsweredWith(TRUE)'
    BY <2>1 DEF AnsweredWith
  <2> QED BY <1>2, <2>2, <2>3, <2>4 DEF LatestKnown
<1> QED BY <1>2, <1>4, <1>5, <1>6 DEF IInv, Ordered

-----------------------------------------------------------------------------
(* CloudService::tick() *)

LEMMA CloudTickOK == IInv /\ CloudTick => IInv'
<1> SUFFICES ASSUME IInv, CloudTick PROVE IInv'
  OBVIOUS
<1>1. /\ pc' = "config"
      /\ UNCHANGED <<connected, fsOk, val, hash, fileHash, fileSync, disk, pendingHash,
                     flight, history, bounds>>
  BY DEF CloudTick
<1>2. /\ syncOk' \in BOOLEAN /\ syncPending' \in BOOLEAN
      /\ syncMsg' \in {"none", "flight", "SUCCESS", "FAILURE"}
  BY DEF CloudTick, SyncAnswered, IInv, TypeOK
<1>3. CASE answers = <<>>
  <2>1. UNCHANGED <<sync, pending, answers>>
    BY <1>3 DEF CloudTick, ConfigAnswered
  <2>2. TypeOK'
    BY <1>1, <1>2, <2>1 DEF IInv, TypeOK, history, bounds
  <2>3. FilesWhole' /\ WholeOnly'
    BY <1>1 DEF IInv, FilesWhole, WholeOnly
  <2>4. Ordered'
    BY <1>1, <1>3, <2>1 DEF IInv, Ordered, OneAtATime, AllRecorded, Recorded, LatestKnown,
                            Idle, Sent, AnsweredWith, history
  <2> QED BY <2>2, <2>3, <2>4 DEF IInv
<1>4. CASE answers # <<>>
  <2>1. /\ sync' = IF Head(answers).ok /\ pending # NoModule
                   THEN [sync EXCEPT ![pending] = pendingHash] ELSE sync
        /\ pending' = NoModule /\ answers' = <<>>
    BY <1>4 DEF CloudTick, ConfigAnswered, Confirmed, Cleared
  <2>2. sync' \in [Modules -> Hashes]
    BY <2>1 DEF IInv, TypeOK
  <2>3. TypeOK'
    BY <1>1, <1>2, <2>1, <2>2, NoMessages DEF IInv, TypeOK, history, bounds
  <2>4. FilesWhole' /\ WholeOnly'
    BY <1>1 DEF IInv, FilesWhole, WholeOnly
  <2>5. ASSUME ~crossed
        PROVE  /\ flight = <<>>
               /\ \/ sync' = sync /\ ~AnsweredWith(TRUE)
                  \/ /\ pending # NoModule /\ AnsweredWith(TRUE)
                     /\ pendingHash \in delivered[pending]
                     /\ sync' = [sync EXCEPT ![pending] = pendingHash]
    <3>1. OneAtATime
      BY <2>5 DEF IInv, Ordered
    <3>2. CASE pending = NoModule
      <4>1. Idle
        BY <3>1, <3>2 DEF OneAtATime
      <4>2. answers \in Seq(Answers) /\ 1 \in DOMAIN answers
        BY <1>4 DEF IInv, TypeOK
      <4>3. ~answers[1].ok
        BY <4>1, <4>2 DEF Idle
      <4>4. ~AnsweredWith(TRUE)
        BY <4>3 DEF AnsweredWith
      <4> QED BY <2>1, <3>2, <4>1, <4>4 DEF Idle
    <3>3. CASE pending # NoModule
      <4>1. \/ AnsweredWith(FALSE)
            \/ AnsweredWith(TRUE) /\ pendingHash \in delivered[pending]
        BY <1>4, <3>1, <3>3 DEF OneAtATime, Sent
      <4>2. CASE AnsweredWith(FALSE)
        <5>1. Head(answers).ok = FALSE /\ ~AnsweredWith(TRUE) /\ flight = <<>>
          BY <4>2 DEF AnsweredWith
        <5> QED BY <2>1, <5>1
      <4>3. CASE AnsweredWith(TRUE) /\ pendingHash \in delivered[pending]
        <5>1. Head(answers).ok = TRUE /\ flight = <<>>
          BY <4>3 DEF AnsweredWith
        <5> QED BY <2>1, <3>3, <4>3, <5>1
      <4> QED BY <4>1, <4>2, <4>3
    <3> QED BY <3>2, <3>3
  <2>6. ASSUME ~crossed PROVE OneAtATime' /\ AllRecorded'
    <3>1. OneAtATime'
      BY <1>1, <2>1, <2>5, <2>6 DEF OneAtATime, Idle
    <3>2. \A m \in Modules : sync'[m] = sync[m] \/ sync'[m] \in delivered[m]
      BY <2>5, <2>6 DEF IInv, TypeOK
    <3>3. AllRecorded
      BY <2>6 DEF IInv, Ordered
    <3> QED BY <1>1, <3>1, <3>2, <3>3 DEF AllRecorded, Recorded, history
  <2>7. ASSUME ~crossed, ~unheard PROVE LatestKnown'
    <3>1. LatestKnown
      BY <2>7 DEF IInv, Ordered
    <3>2. \A m \in Modules : sync'[m] # NoHash => latest[m] = sync'[m]
      BY <2>5, <2>7, <3>1 DEF LatestKnown, IInv, TypeOK
    <3> QED BY <1>1, <2>1, <3>2 DEF LatestKnown, history
  <2> QED BY <1>1, <2>3, <2>4, <2>6, <2>7 DEF IInv, Ordered, history
<1> QED BY <1>3, <1>4
-----------------------------------------------------------------------------
(* ConfigService::tick() and flush() *)

LEMMA SaveOK ==
    ASSUME IInv, NEW failing, SaveAll(val, failing) \/ NoSave
    PROVE  /\ disk' \in [Modules -> Files]
           /\ fileHash' \in [Modules -> Hashes] /\ fileSync' \in [Modules -> Hashes]
           /\ \A m \in Modules :
                /\ disk'[m] = disk[m] \/ disk'[m] = [cfg |-> val[m], sync |-> sync[m]]
                /\ fileSync'[m] = fileSync[m] \/ fileSync'[m] = sync[m]
<1>1. /\ disk \in [Modules -> Files] /\ val \in [Modules -> Configs]
      /\ sync \in [Modules -> Hashes] /\ fileHash \in [Modules -> Hashes]
      /\ fileSync \in [Modules -> Hashes]
  BY DEF IInv, TypeOK
<1>2. CASE NoSave
  BY <1>1, <1>2 DEF NoSave
<1>3. CASE SaveAll(val, failing)
  <2> DEFINE saved == {m \in OutOfDate(val) \ failing : val[m] \notin TooBig}
  <2>1. /\ disk' = [m \in Modules |-> IF m \in saved THEN [cfg |-> val[m], sync |-> sync[m]]
                                      ELSE disk[m]]
        /\ fileHash' = [m \in Modules |-> IF m \in saved THEN val[m] ELSE fileHash[m]]
        /\ fileSync' = [m \in Modules |-> IF m \in saved THEN sync[m] ELSE fileSync[m]]
    BY <1>3 DEF SaveAll
  <2> HIDE DEF saved
  <2>2. \A m \in Modules : [cfg |-> val[m], sync |-> sync[m]] \in Files
    BY <1>1 DEF Files, Hashes
  <2>3. \A m \in Modules : val[m] \in Hashes
    BY <1>1 DEF Hashes
  <2> QED BY <1>1, <2>1, <2>2, <2>3
<1> QED BY <1>2, <1>3

\* A save leaves the files whole, and what they say of the cloud recorded.
LEMMA SavedWhole ==
    ASSUME IInv, NEW failing, SaveAll(val, failing) \/ NoSave, UNCHANGED <<val, sync, delivered>>
    PROVE  /\ FilesWhole'
           /\ \A m \in Shadowed : /\ val'[m] \in Proper
                                  /\ disk'[m] # NoFile => disk'[m].cfg \in Proper
           /\ AllRecorded => AllRecorded'
<1>1. \A m \in Modules : val[m] \in Configs
  BY DEF IInv, TypeOK
<1>2. \A m \in Modules :
         /\ disk'[m] = disk[m] \/ (disk'[m].cfg = val[m] /\ disk'[m].sync = sync[m])
         /\ fileSync'[m] = fileSync[m] \/ fileSync'[m] = sync[m]
  <2>1. \A m \in Modules :
          /\ disk'[m] = disk[m] \/ disk'[m] = [cfg |-> val[m], sync |-> sync[m]]
          /\ fileSync'[m] = fileSync[m] \/ fileSync'[m] = sync[m]
    BY SaveOK
  <2> SUFFICES ASSUME NEW m \in Modules
               PROVE  /\ disk'[m] = disk[m] \/ (disk'[m].cfg = val[m]
                                                /\ disk'[m].sync = sync[m])
                      /\ fileSync'[m] = fileSync[m] \/ fileSync'[m] = sync[m]
    OBVIOUS
  <2>2. CASE disk'[m] = disk[m]
    BY <2>1, <2>2
  <2>3. CASE disk'[m] = [cfg |-> val[m], sync |-> sync[m]]
    <3>1. disk'[m].cfg = val[m] /\ disk'[m].sync = sync[m]
      BY <2>3
    <3> QED BY <2>1, <3>1
  <2> QED BY <2>1, <2>2, <2>3
<1>3. FilesWhole'
  BY <1>2, <1>1 DEF IInv, FilesWhole
<1>4. ASSUME NEW m \in Shadowed
      PROVE  val'[m] \in Proper /\ (disk'[m] # NoFile => disk'[m].cfg \in Proper)
  <2>1. m \in Modules
    BY ConfigAssumption
  <2> QED BY <1>2, <2>1 DEF IInv, WholeOnly
<1>5. AllRecorded => AllRecorded'
  BY <1>2 DEF AllRecorded, Recorded
<1> QED BY <1>3, <1>4, <1>5

LEMMA FlushOK == IInv /\ Flush => IInv'
<1> SUFFICES ASSUME IInv, Flush PROVE IInv'
  OBVIOUS
<1>1. PICK failing \in SUBSET Modules : SaveAll(val, failing) /\ Fault(failing # {})
  BY DEF Flush
<1>2. /\ hash' = val
      /\ UNCHANGED <<pc, connected, fsOk, val, sync, service, messages, history, changes>>
  BY DEF Flush
<1>3. faults' \in 0 .. MaxFaults
  <2>1. (failing # {}) \in BOOLEAN
    OBVIOUS
  <2> QED BY <1>1, <2>1, FaultType DEF IInv, TypeOK
<1>4. hash' \in [Modules -> Hashes]
  BY <1>2 DEF IInv, TypeOK, Hashes
<1>5. TypeOK'
  BY <1>1, <1>2, <1>3, <1>4, SaveOK DEF IInv, TypeOK, service, messages, history
<1>6. FilesWhole' /\ WholeOnly'
  BY <1>1, <1>2, SavedWhole DEF IInv, WholeOnly, messages, history
<1>7. Ordered'
  <2>1. ~crossed => OneAtATime' /\ AllRecorded'
    BY <1>1, <1>2, SavedWhole DEF IInv, Ordered, OneAtATime, Idle, Sent, AnsweredWith,
                                   service, messages, history
  <2>2. ~crossed /\ ~unheard => LatestKnown'
    BY <1>2 DEF IInv, Ordered, LatestKnown, AnsweredWith, service, messages, history
  <2> QED BY <1>2, <2>1, <2>2 DEF Ordered, history
<1> QED BY <1>5, <1>6, <1>7 DEF IInv

LEMMA RefusalsType ==
    ASSUME IInv, NEW refused \in SUBSET Modules
    PROVE  /\ Refusals(refused) \in Seq(Answers)
           /\ refused = {} => Refusals(refused) = <<>>
           /\ \A i \in DOMAIN Refusals(refused) : ~Refusals(refused)[i].ok
<1>1. CASE refused = {}
  BY <1>1 DEF Refusals
<1>2. CASE refused # {}
  <2>1. PICK m \in refused :
          Refusals(refused) = <<[m |-> m, v |-> val[m], ok |-> FALSE]>>
    BY <1>2 DEF Refusals
  <2>2. [m |-> m, v |-> val[m], ok |-> FALSE] \in Answers
    BY DEF Answers, IInv, TypeOK
  <2> QED BY <1>2, <2>1, <2>2
<1> QED BY <1>1, <1>2

\* What a tick does to the messages: to their types, and to their order.
Kept ==
    /\ flight' \in Seq(Messages) /\ answers' \in Seq(Answers)
    /\ pending' \in Modules \cup {NoModule} /\ pendingHash' \in Hashes
    /\ syncOk' \in BOOLEAN /\ syncPending' \in BOOLEAN
    /\ syncMsg' \in {"none", "flight", "SUCCESS", "FAILURE"}
    /\ crossed' \in BOOLEAN /\ asked' \subseteq Modules
Messaging ==
    /\ Kept
    /\ UNCHANGED <<delivered, latest, unheard>>
    /\ \A i \in DOMAIN flight' :
         \/ i \in DOMAIN flight /\ flight'[i] = flight[i]
         \/ flight'[i].v = val[flight'[i].m]
    /\ ~crossed' =>
         /\ ~crossed
         /\ \/ UNCHANGED <<flight, answers, pending, pendingHash>>
            \/ /\ Sent' /\ pending' # NoModule /\ ~AnsweredWith(TRUE)
            \/ /\ Idle' /\ pending = NoModule /\ pending' = NoModule

LEMMA NothingSentOK == IInv /\ NothingSent => Messaging
<1> SUFFICES ASSUME IInv, NothingSent PROVE Messaging
  OBVIOUS
<1>1. UNCHANGED <<syncOk, syncPending, pending, pendingHash, syncMsg, flight, answers,
                  delivered, latest, crossed, unheard, asked>>
  BY DEF NothingSent, service, messages, history
<1>2. Kept
  BY <1>1 DEF IInv, TypeOK, Kept
<1> QED BY <1>1, <1>2 DEF Messaging

LEMMA SyncSentOK ==
    ASSUME IInv, NEW refused \in BOOLEAN, SyncSent(refused) PROVE Messaging
<1>1. UNCHANGED <<syncOk, pending, pendingHash, flight, answers, delivered, latest,
                  crossed, unheard, asked>>
  BY DEF SyncSent, history
<1>2. syncPending' \in BOOLEAN /\ syncMsg' \in {"none", "flight", "SUCCESS", "FAILURE"}
  BY DEF SyncSent, IInv, TypeOK
<1>3. Kept
  BY <1>1, <1>2 DEF IInv, TypeOK, Kept
<1> QED BY <1>1, <1>3 DEF Messaging

LEMMA ConfigSentOK ==
    ASSUME IInv, NEW refused \in SUBSET Unconfirmed, ConfigSent(refused),
           pending = NoModule, pc = "config"
    PROVE  Messaging
<1>1. /\ answers' = answers \o Refusals(refused)
      /\ UNCHANGED <<syncOk, syncPending, syncMsg, delivered, latest, unheard>>
  BY DEF ConfigSent
<1>2. refused \in SUBSET Modules
  BY DEF Unconfirmed
<1>3. answers' \in Seq(Answers)
  BY <1>1, <1>2, RefusalsType DEF IInv, TypeOK
<1>4. ~crossed => flight = <<>> /\ answers = <<>>
  BY DEF IInv, Ordered, OneAtATime, Idle
<1>5. ~crossed => answers' = Refusals(refused)
  BY <1>1, <1>2, <1>4, RefusalsType
<1>6. CASE NoneAccepted(refused)
  <2>1. UNCHANGED <<flight, pending, pendingHash, crossed, asked>>
    BY <1>6 DEF NoneAccepted
  <2>2. ~crossed' => Idle'
    BY <1>2, <1>4, <1>5, <2>1, RefusalsType DEF Idle
  <2>3. Kept
    BY <1>1, <1>3, <2>1 DEF IInv, TypeOK, Kept
  <2> QED BY <1>1, <1>6, <2>1, <2>2, <2>3 DEF Messaging, NoneAccepted
<1>7. ASSUME NEW m \in Modules, AcceptedAfter(refused, m) PROVE Messaging
  <2>1. /\ flight' = Append(flight, [m |-> m, v |-> val[m]])
        /\ pending' = m /\ pendingHash' = val[m]
        /\ crossed' = (crossed \/ refused # {})
        /\ asked' = asked \ {m}
    BY <1>7 DEF AcceptedAfter
  <2>2. val[m] \in Configs /\ [m |-> m, v |-> val[m]] \in Messages /\ val[m] \in Hashes
    BY DEF IInv, TypeOK, Messages, Hashes
  <2>3. flight \in Seq(Messages) /\ flight' \in Seq(Messages)
    BY <2>1, <2>2 DEF IInv, TypeOK
  <2>4. \A i \in DOMAIN flight' :
          \/ i \in DOMAIN flight /\ flight'[i] = flight[i]
          \/ flight'[i] = [m |-> m, v |-> val[m]]
    BY <2>1, <2>3
  <2>5. ASSUME ~crossed'
        PROVE  ~crossed /\ Sent' /\ pending' # NoModule /\ ~AnsweredWith(TRUE)
    <3>1. ~crossed /\ refused = {}
      BY <2>1, <2>5
    <3>2. answers' = <<>>
      BY <1>2, <1>5, <3>1, RefusalsType
    <3>3. flight' = <<[m |-> m, v |-> val[m]]>>
      BY <1>4, <2>1, <3>1
    <3>4. ~AnsweredWith(TRUE)
      BY <1>4, <3>1 DEF AnsweredWith
    <3> QED BY <2>1, <3>1, <3>2, <3>3, <3>4, ConfigAssumption DEF Sent
  <2>6. crossed' \in BOOLEAN /\ asked' \subseteq Modules
    BY <2>1 DEF IInv, TypeOK
  <2>7. Kept
    BY <1>1, <1>3, <2>1, <2>2, <2>3, <2>6 DEF IInv, TypeOK, Kept
  <2>8. \A i \in DOMAIN flight' :
          \/ i \in DOMAIN flight /\ flight'[i] = flight[i]
          \/ flight'[i].v = val[flight'[i].m]
    BY <2>4
  <2> QED BY <1>1, <2>5, <2>7, <2>8 DEF Messaging
<1> QED BY <1>6, <1>7 DEF ConfigSent

LEMMA ConfigTickOK == IInv /\ ConfigTick => IInv'
<1> SUFFICES ASSUME IInv, ConfigTick PROVE IInv'
  OBVIOUS
<1>1. /\ pc = "config" /\ pc' = "cloud" /\ hash' = val
      /\ UNCHANGED <<connected, fsOk, val, sync, changes>>
  BY DEF ConfigTick, TickFrame
<1>2. /\ Messaging /\ faults' \in 0 .. MaxFaults
      /\ \E failing \in SUBSET Modules : SaveAll(val, failing) \/ NoSave
  <2>1. \A b \in BOOLEAN : Fault(b) => faults' \in 0 .. MaxFaults
    BY FaultType DEF IInv, TypeOK
  <2>2. CASE TickOffline
    BY <2>1, <2>2, NothingSentOK DEF TickOffline, SaveIfOk
  <2>3. CASE TickSync
    BY <2>1, <2>3, SyncSentOK DEF TickSync, SaveIfOk
  <2>4. CASE TickConfig
    BY <1>1, <2>1, <2>4, ConfigSentOK DEF TickConfig, SaveIfOk
  <2> QED BY <2>2, <2>3, <2>4 DEF ConfigTick
<1>3. PICK failing \in SUBSET Modules : SaveAll(val, failing) \/ NoSave
  BY <1>2
<1>4. hash' \in [Modules -> Hashes]
  BY <1>1 DEF IInv, TypeOK, Hashes
<1>5. TypeOK'
  BY <1>1, <1>2, <1>3, <1>4, SaveOK DEF IInv, TypeOK, Messaging, Kept
<1>6. FilesWhole' /\ (AllRecorded => AllRecorded')
  BY <1>1, <1>2, <1>3, SavedWhole DEF Messaging
<1>7. WholeOnly'
  <2>1. ASSUME NEW m \in Shadowed, NEW i \in DOMAIN flight', flight'[i].m = m
        PROVE  flight'[i].v \in Proper
    BY <1>2, <2>1 DEF Messaging, IInv, WholeOnly
  <2> QED BY <1>1, <1>2, <1>3, <2>1, SavedWhole DEF WholeOnly, Messaging
<1>8. ASSUME ~crossed' PROVE OneAtATime'
  <2>1. OneAtATime /\ UNCHANGED delivered
    BY <1>2, <1>8 DEF Messaging, IInv, Ordered
  <2>2. CASE UNCHANGED <<flight, answers, pending, pendingHash>>
    BY <1>1, <2>1, <2>2 DEF OneAtATime, Idle, Sent, AnsweredWith
  <2>3. CASE Sent' /\ pending' # NoModule
    BY <2>3 DEF OneAtATime
  <2>4. CASE Idle' /\ pending' = NoModule
    BY <1>1, <2>4 DEF OneAtATime
  <2> QED BY <1>2, <1>8, <2>2, <2>3, <2>4 DEF Messaging
<1>9. ASSUME ~crossed', ~unheard' PROVE LatestKnown'
  <2>1. LatestKnown /\ UNCHANGED latest
    BY <1>2, <1>9 DEF Messaging, IInv, Ordered
  <2>2. CASE UNCHANGED <<flight, answers, pending, pendingHash>>
    BY <1>1, <2>1, <2>2 DEF LatestKnown, AnsweredWith
  <2>3. CASE Sent' /\ ~AnsweredWith(TRUE)
    <3>1. ~AnsweredWith(TRUE)'
      BY <2>3 DEF Sent, AnsweredWith
    <3> QED BY <1>1, <2>1, <2>3, <3>1 DEF LatestKnown
  <2>4. CASE Idle' /\ pending = NoModule /\ pending' = NoModule
    BY <1>1, <2>1, <2>4, ConfigAssumption DEF LatestKnown
  <2> QED BY <1>2, <1>9, <2>2, <2>3, <2>4 DEF Messaging
<1>10. Ordered'
  BY <1>2, <1>6, <1>8, <1>9 DEF IInv, Ordered, Messaging
<1> QED BY <1>5, <1>6, <1>7, <1>10 DEF IInv

-----------------------------------------------------------------------------
LEMMA Stutters == IInv /\ UNCHANGED vars => IInv'
<1> SUFFICES ASSUME IInv, UNCHANGED vars PROVE IInv'
  OBVIOUS
<1>1. TypeOK' /\ FilesWhole' /\ WholeOnly'
  BY DEF IInv, TypeOK, FilesWhole, WholeOnly, vars, hashes, service, messages, history,
         bounds
<1>2. Ordered'
  BY OrderedStutters DEF IInv, vars, hashes, service, messages, history
<1> QED BY <1>1, <1>2 DEF IInv

LEMMA Inductive == IInv /\ [Next]_vars => IInv'
BY RebootOK, FactoryResetOK, SetCfgOK, GetCfgOK, ConnectionOK, PublishedOK,
   NotPublishedOK, CloudTickOK, ConfigTickOK, FlushOK, Stutters DEF Next

LEMMA Always == Spec => []IInv
BY InitOK, Inductive, PTL DEF Spec

\* The descriptors, the files and the messages keep to their types
\* (config_service.h).
THEOREM TypeCorrect == Spec => []TypeOK
<1>1. IInv => TypeOK
  BY DEF IInv
<1> QED BY <1>1, Always, PTL

\* A hash is recorded as synchronised, in RAM or in a file, only if that
\* configuration reached the cloud, unless a message was accepted after a
\* refusal in the same pass (config_sync_ack_cb(), _save(), _load()).
THEOREM RecordsTrue == Spec => []RecordedAlone
<1>1. IInv => RecordedAlone
  BY Implied
<1> QED BY <1>1, Always, PTL

\* What is taken to be in step with the cloud is, unless messages crossed or
\* the answer of one that arrived was lost (tick_sec(), config_sync_ack_cb()).
THEOREM StaysInStep == Spec => []InStep
<1>1. IInv => InStep
  BY Implied
<1> QED BY <1>1, Always, PTL

\* A module written through a shadow copy is never in effect, saved or sent
\* in a form its exit callback refuses (_config_process_json()).
THEOREM AlwaysWhole == Spec => []WholeOnly
<1>1. IInv => WholeOnly
  BY DEF IInv
<1> QED BY <1>1, Always, PTL

-----------------------------------------------------------------------------
(* The files.  A descriptor that knows the hash of its file knows what is in   *)
(* the file; one that does not saves it at the next opportunity.              *)

FilesKnown ==
    \A m \in Modules :
        fileHash[m] # NoHash => disk[m] = [cfg |-> fileHash[m], sync |-> fileSync[m]]

LEMMA RestartKnows ==
    ASSUME NEW files \in [Modules -> Files], Restart(files)
    PROVE  FilesKnown'
<1>1. PICK readable \in SUBSET Modules : \E refused \in SUBSET readable :
        Boot(files, readable, refused)
  BY DEF Restart
<1>2. PICK refused \in SUBSET readable : Boot(files, readable, refused)
  BY <1>1
<1>3. PICK loaded, partial \in SUBSET Modules : StartsFrom(files, loaded, partial)
  BY <1>2, BootFacts
<1>4. disk' = files
  BY <1>2 DEF Boot
<1>5. \A m \in Modules : files[m] = [cfg |-> files[m].cfg, sync |-> files[m].sync]
  BY DEF Files
<1>6. QED
  BY <1>3, <1>4, <1>5 DEF StartsFrom, FilesKnown

LEMMA SaveKnows ==
    ASSUME FilesKnown, NEW failing, SaveAll(val, failing) \/ NoSave
    PROVE  FilesKnown'
<1>1. CASE NoSave
  BY <1>1 DEF NoSave, FilesKnown
<1>2. CASE SaveAll(val, failing)
  <2> DEFINE saved == {m \in OutOfDate(val) \ failing : val[m] \notin TooBig}
  <2>1. /\ disk' = [m \in Modules |-> IF m \in saved THEN [cfg |-> val[m], sync |-> sync[m]]
                                      ELSE disk[m]]
        /\ fileHash' = [m \in Modules |-> IF m \in saved THEN val[m] ELSE fileHash[m]]
        /\ fileSync' = [m \in Modules |-> IF m \in saved THEN sync[m] ELSE fileSync[m]]
    BY <1>2 DEF SaveAll
  <2> HIDE DEF saved
  <2>2. QED
    BY <2>1 DEF FilesKnown
<1>3. QED
  BY <1>1, <1>2

LEMMA FilesKnownStep == IInv /\ FilesKnown /\ [Next]_vars => FilesKnown'
<1> SUFFICES ASSUME IInv, FilesKnown, [Next]_vars PROVE FilesKnown'
  OBVIOUS
<1>1. disk \in [Modules -> Files]
  BY DEF IInv, TypeOK
<1>2. CASE Reboot
  BY <1>1, <1>2, RestartKnows DEF Reboot
<1>3. CASE FactoryReset
  <2>1. PICK removed \in SUBSET Modules :
          Restart([m \in Modules |-> IF m \in removed THEN NoFile ELSE disk[m]])
    BY <1>3 DEF FactoryReset
  <2> DEFINE files == [m \in Modules |-> IF m \in removed THEN NoFile ELSE disk[m]]
  <2>2. files \in [Modules -> Files]
    BY <1>1, NoFileType
  <2>3. Restart(files)
    BY <2>1
  <2> HIDE DEF files
  <2>4. QED
    BY <2>2, <2>3, RestartKnows
<1>4. CASE ConfigTick
  <2>1. \E failing : SaveAll(val, failing) \/ NoSave
    BY <1>4 DEF ConfigTick, TickOffline, TickSync, TickConfig, SaveIfOk
  <2>2. QED
    BY <2>1, SaveKnows
<1>5. CASE Flush
  <2>1. \E failing : SaveAll(val, failing)
    BY <1>5 DEF Flush
  <2>2. QED
    BY <2>1, SaveKnows
<1>6. CASE UNCHANGED <<fileHash, fileSync, disk>>
  BY <1>6 DEF FilesKnown
<1>7. ASSUME NEW m \in Modules, SetCfg(m) PROVE UNCHANGED <<fileHash, fileSync, disk>>
  BY <1>7 DEF SetCfg, hashes
<1>8. ASSUME NEW S \in SUBSET Modules, GetCfg(S) PROVE UNCHANGED <<fileHash, fileSync, disk>>
  BY <1>8 DEF GetCfg
<1>9. ASSUME Connect \/ Disconnect \/ SyncCompletes PROVE UNCHANGED <<fileHash, fileSync, disk>>
  BY <1>9 DEF Connect, Disconnect, SyncCompletes, hashes
<1>10. ASSUME Published \/ NotPublished PROVE UNCHANGED <<fileHash, fileSync, disk>>
  BY <1>10 DEF Published, NotPublished, Answer, hashes
<1>11. ASSUME CloudTick PROVE UNCHANGED <<fileHash, fileSync, disk>>
  BY <1>11 DEF CloudTick
<1>12. ASSUME UNCHANGED vars PROVE UNCHANGED <<fileHash, fileSync, disk>>
  BY <1>12 DEF vars, hashes
<1>13. QED
  BY <1>2, <1>3, <1>4, <1>5, <1>6, <1>7, <1>8, <1>9, <1>10, <1>11, <1>12 DEF Next

LEMMA KnownAlways == Spec => []FilesKnown
<1>1. Init => FilesKnown
  BY DEF Init, FilesKnown
<1>2. QED
  BY <1>1, FilesKnownStep, Always, PTL DEF Spec

LEMMA KnownIsTrue == IInv /\ FilesKnown => FilesTrue
<1> SUFFICES ASSUME IInv, FilesKnown, NEW m \in Modules, m \notin OutOfDate(val)
             PROVE  disk[m] = [cfg |-> val[m], sync |-> sync[m]]
  BY DEF FilesTrue, FileTrue
<1>1. val[m] = fileHash[m] /\ sync[m] = fileSync[m]
  BY DEF OutOfDate
<1>2. fileHash[m] # NoHash
  BY <1>1, ConfigAssumption DEF IInv, TypeOK
<1>3. QED
  BY <1>1, <1>2 DEF FilesKnown

\* What the descriptors say of the files is so: a file that is not about to be
\* saved holds what is in effect and what was confirmed, whatever saves
\* failed, and after any restart or factory reset (_load(), _save()).
THEOREM FilesAreTrue == Spec => []FilesTrue
  BY Always, KnownAlways, KnownIsTrue, PTL

\* A save in which nothing fails leaves every file that fits as it should be.
LEMMA SaveSettles ==
    ASSUME IInv, FilesKnown, SaveAll(val, {}), NEW m \in Modules, val[m] \notin TooBig
    PROVE  disk'[m] = [cfg |-> val[m], sync |-> sync[m]]
<1>1. CASE m \in OutOfDate(val)
  BY <1>1 DEF SaveAll
<1>2. CASE m \notin OutOfDate(val)
  <2>1. disk'[m] = disk[m]
    BY <1>2 DEF SaveAll
  <2>2. FileTrue(m)
    BY KnownIsTrue DEF FilesTrue
  <2>3. QED
    BY <1>2, <2>1, <2>2 DEF FileTrue
<1>3. QED
  BY <1>1, <1>2

\* After one tick, or one flush(), in which no write failed, no configuration
\* that fits its buffer is lost to a power loss (tick_sec(), flush(), save_all()).
THEOREM OneTickSaves == Spec => SavedForGood
<1>1. ASSUME IInv, FilesKnown, ConfigTick \/ Flush, fsOk, faults' = faults,
             NEW m \in Modules, val[m] \notin TooBig
      PROVE  disk'[m] = [cfg |-> val[m], sync |-> sync[m]]
  <2>1. faults \in Nat
    BY <1>1, ConfigAssumption DEF IInv, TypeOK
  <2>2. \A b \in BOOLEAN : Fault(b) => ~b
    BY <1>1, <2>1 DEF Fault
  <2>3. SaveAll(val, {})
    <3>1. CASE Flush
      BY <2>2, <3>1 DEF Flush
    <3>2. CASE TickOffline
      BY <1>1, <2>2, <3>2 DEF TickOffline, SaveIfOk
    <3>3. CASE TickSync
      <4>1. PICK failing \in SUBSET Modules, refused \in BOOLEAN :
              SaveIfOk(val, failing) /\ Fault(refused \/ failing # {})
        BY <3>3 DEF TickSync
      <4>2. failing = {}
        BY <2>2, <4>1
      <4>3. QED
        BY <1>1, <4>1, <4>2 DEF SaveIfOk
    <3>4. CASE TickConfig
      <4>1. PICK failing \in SUBSET Modules, refused \in SUBSET Unconfirmed :
              SaveIfOk(val, failing) /\ Fault(refused # {} \/ failing # {})
        BY <3>4 DEF TickConfig
      <4>2. failing = {}
        BY <2>2, <4>1
      <4>3. QED
        BY <1>1, <4>1, <4>2 DEF SaveIfOk
    <3>5. QED
      BY <1>1, <3>1, <3>2, <3>3, <3>4 DEF ConfigTick
  <2>4. QED
    BY <1>1, <2>3, SaveSettles
<1>2. IInv /\ FilesKnown =>
        [(ConfigTick \/ Flush) /\ fsOk /\ faults' = faults =>
          \A m \in Modules : val[m] \in TooBig \/ disk'[m] = [cfg |-> val[m], sync |-> sync[m]]]_vars
  BY <1>1
<1>3. QED
  BY <1>2, Always, KnownAlways, PTL DEF SavedForGood

-----------------------------------------------------------------------------
(* Requests of the cloud.                                                    *)

LEMMA RequestStep == IInv /\ RequestKept /\ [Next]_vars => RequestKept'
<1> SUFFICES ASSUME IInv, RequestKept, [Next]_vars PROVE RequestKept'
  OBVIOUS
<1>1. asked \subseteq Modules /\ sync \in [Modules -> Hashes] /\ NoModule \notin Modules
  BY ConfigAssumption DEF IInv, TypeOK
<1>2. CASE Reboot \/ FactoryReset
  BY <1>2 DEF Reboot, FactoryReset, Restart, RequestKept
<1>3. ASSUME NEW S \in SUBSET Modules, GetCfg(S) PROVE RequestKept'
  BY <1>1, <1>3 DEF GetCfg, Marked, RequestKept, service
<1>4. CASE CloudTick
  <2>1. /\ asked' = asked /\ pending' \in {pending, NoModule}
        /\ \A m \in Modules : m # pending => sync'[m] = sync[m]
    BY <1>1, <1>4 DEF CloudTick, ConfigAnswered, Confirmed, Cleared, history
  <2>2. QED
    BY <1>1, <2>1 DEF RequestKept
<1>5. CASE ConfigTick
  <2>1. sync' = sync
    BY <1>5 DEF ConfigTick, TickFrame
  <2>2. \/ asked' = asked /\ pending' = pending
        \/ \E m \in Modules : asked' = asked \ {m} /\ pending' = m
    BY <1>5 DEF ConfigTick, TickOffline, TickSync, TickConfig, NothingSent, SyncSent,
                ConfigSent, AcceptedAfter, NoneAccepted, service, history
  <2>3. QED
    BY <2>1, <2>2 DEF RequestKept
<1>6. CASE UNCHANGED <<asked, sync, pending>>
  BY <1>6 DEF RequestKept
<1>7. ASSUME NEW m \in Modules, SetCfg(m) PROVE UNCHANGED <<asked, sync, pending>>
  BY <1>7 DEF SetCfg, hashes, service, history
<1>8. ASSUME Connect \/ Disconnect \/ SyncCompletes PROVE UNCHANGED <<asked, sync, pending>>
  BY <1>8 DEF Connect, Disconnect, SyncCompletes, hashes, service, history
<1>9. ASSUME Published \/ NotPublished PROVE UNCHANGED <<asked, sync, pending>>
  BY <1>9 DEF Published, NotPublished, Answer, hashes, service
<1>10. ASSUME Flush PROVE UNCHANGED <<asked, sync, pending>>
  BY <1>10 DEF Flush, service, history
<1>11. ASSUME UNCHANGED vars PROVE UNCHANGED <<asked, sync, pending>>
  BY <1>11 DEF vars, hashes, service, history
<1>12. QED
  BY <1>2, <1>3, <1>4, <1>5, <1>6, <1>7, <1>8, <1>9, <1>10, <1>11 DEF Next

\* A request of the cloud stays due until its message is sent: no answer that is
\* under way takes it back (get_cfg_cb(), config_sync_ack_cb()).
THEOREM RequestsStay == Spec => []RequestKept
<1>1. Init => RequestKept
  BY DEF Init, RequestKept
<1>2. QED
  BY <1>1, RequestStep, Always, PTL DEF Spec
=============================================================================
