----------------------------- MODULE StoreForward -----------------------------
(***************************************************************************)
(* Store and forward of location messages: EdgeLocationPublish and the part  *)
(* of EdgeLocation that publishes (edge_location_publish.cpp, and loop(),    *)
(* location_publish_cb() of edge_location.cpp).  A message that is not       *)
(* published is written to the store by a callback that waits in one list,   *)
(* shared by all publishes; tick() takes stored messages out, once a second, *)
(* and publishes them again.                                                *)
(*                                                                         *)
(* CloudService is seen through what it promises, one answer to each send;   *)
(* the store is the durable FIFO of DiskQueue with the quota counted in      *)
(* messages and the policy drop_old.                                        *)
(***************************************************************************)
EXTENDS Naturals, Sequences

CONSTANTS
    Messages,   \* location messages
    Quota,      \* messages the store has room for
    Inputs,     \* which of "config" and "reboot" may happen
    MaxCopies   \* bound on the copies of one message, stored and sent

ASSUME StoreAssumption == Quota \in Nat \ {0} /\ MaxCopies \in Nat

Links == {"down", "poor", "good"}

VARIABLES
    store,      \* the messages on the disk, oldest first
    running,    \* store_msg_queue is started
    enabled,    \* store_config.enable
    noticed,    \* current_config of tick(); nothing configures before the first
    link,       \* what Particle.connected() tells, and more
    pending,    \* how many times disk_queue_cb is in pendingLocPubCallbacks
    sent,       \* how many sends of a message wait for an answer
    \* History variables.
    made,       \* messages generated
    received,   \* those the cloud has received
    excused,    \* given up on purpose: quota, storing off, reboot
    overlapped, \* a send was begun while another waited
    doubt       \* how many of its waiting sends may fail: the link was not good throughout

vars == <<store, running, enabled, noticed, link, pending, sent, made, received,
          excused, overlapped, doubt>>

Stored(m) == {i \in DOMAIN store : store[i] = m}
InStore(s) == {s[i] : i \in DOMAIN s}

TypeOK ==
    /\ store \in Seq(Messages) /\ Len(store) <= Quota
    /\ running \in BOOLEAN /\ enabled \in BOOLEAN /\ noticed \in BOOLEAN
    /\ link \in Links
    /\ pending \in Nat
    /\ sent \in [Messages -> 0 .. MaxCopies]
    /\ made \subseteq Messages /\ received \subseteq Messages
    /\ excused \subseteq Messages /\ overlapped \in BOOLEAN
    /\ doubt \in [Messages -> 0 .. MaxCopies] /\ \A m \in Messages : doubt[m] <= sent[m]

Init ==
    /\ store = <<>> /\ link = "down" /\ pending = 0
    /\ enabled \in BOOLEAN /\ noticed = enabled /\ running = enabled
    /\ sent = [m \in Messages |-> 0]
    /\ made = {} /\ received = {} /\ excused = {}
    /\ overlapped = FALSE /\ doubt = sent

Connected == link # "down"
Idle == \A m \in Messages : sent[m] = 0

-----------------------------------------------------------------------------
(* Publishing *)

\* CloudService::send()
SubmitTo(m) ==
    /\ overlapped' = (overlapped \/ ~Idle)
    /\ sent[m] < MaxCopies
    /\ sent' = [sent EXCEPT ![m] = @ + 1]
    /\ doubt' = IF link = "good" THEN doubt ELSE [doubt EXCEPT ![m] = @ + 1]

\* The callbacks of a new message: buildPublish() has registered one.
NewCallbacks == 1

\* EdgeLocation::loop(): the list of the new message replaces the pending one.
Publish(m) ==
    /\ m \notin made
    /\ Connected \/ enabled
    /\ made' = made \cup {m}
    /\ pending' = NewCallbacks
    /\ SubmitTo(m)
    /\ UNCHANGED <<store, running, enabled, noticed, link, received, excused>>

\* tick(): regPendLocPubCallback() for a message taken from the store.
Resend_noCallback == pending
ResendCallbacks == pending + 1

\* tick() acts on a change of the configuration, then sends one stored message.
Applied ==
    IF enabled = noticed THEN [running |-> running, store |-> store]
    ELSE IF enabled THEN [running |-> TRUE, store |-> store]
    ELSE [running |-> FALSE, store |-> IF running THEN <<>> ELSE store]

\* popFront() follows peekFront(): the message is now only in RAM.
Rest_kept(s) == s
Rest(s) == Tail(s)

Tick ==
    /\ noticed' = enabled /\ running' = Applied.running
    /\ IF running' /\ Applied.store # <<>> /\ enabled /\ Connected
       THEN /\ SubmitTo(Head(Applied.store))
            /\ store' = Rest(Applied.store)
            /\ pending' = ResendCallbacks
       ELSE store' = Applied.store /\ UNCHANGED <<pending, sent, overlapped, doubt>>
    /\ excused' = excused \cup (InStore(store) \ InStore(Applied.store))
    /\ UNCHANGED <<enabled, link, made, received>>

-----------------------------------------------------------------------------
(* Answers: location_publish_cb() *)

\* pushBack() of m, n times, with the oldest messages making room.
Copies(m, n) == [i \in 1 .. n |-> m]
Overfull(m, n) == store \o Copies(m, n)
Newest_all(s) == s
Newest(s) == IF Len(s) <= Quota THEN s ELSE SubSeq(s, Len(s) - Quota + 1, Len(s))

\* issue_location_publish_callbacks() runs all callbacks and clears the list.
PendingAfter_kept == pending
PendingAfter == 0

Answered(m) ==
    /\ sent[m] > 0
    /\ sent' = [sent EXCEPT ![m] = @ - 1]
    /\ pending' = PendingAfter
    /\ UNCHANGED <<running, enabled, noticed, link, made, overlapped>>

\* SUCCESS: the callbacks have nothing to do and are used up.
AnsweredSuccess(m) ==
    /\ Answered(m)
    /\ Connected /\ received' = received \cup {m}
    /\ doubt' = IF doubt[m] = sent[m] THEN [doubt EXCEPT ![m] = @ - 1] ELSE doubt
    /\ UNCHANGED <<store, excused>>

\* FAILURE or TIMEOUT; the cloud may have received the message all the same.
AnsweredFailure(m) ==
    /\ Answered(m)
    /\ doubt[m] > 0 /\ doubt' = [doubt EXCEPT ![m] = @ - 1]
    /\ received' \in {received, received \cup {m}}
    /\ store' = IF enabled /\ running THEN Newest(Overfull(m, pending)) ELSE store
    /\ excused' = excused \cup (InStore(Overfull(m, pending)) \ InStore(store'))
                    \cup (IF enabled /\ running THEN {} ELSE {m})

-----------------------------------------------------------------------------
(* The surroundings *)

LinkChange ==
    /\ link' \in Links \ {link} /\ doubt' = sent
    /\ UNCHANGED <<store, running, enabled, noticed, pending, sent, made, received, excused,
                   overlapped>>

\* A configuration write.
SetEnabled ==
    /\ "config" \in Inputs
    /\ enabled' = ~enabled
    /\ UNCHANGED <<store, running, noticed, link, pending, sent, made, received, excused,
                   overlapped, doubt>>

\* The configuration and the files survive, what is in RAM does not.
Reboot ==
    /\ "reboot" \in Inputs
    /\ noticed' = enabled /\ running' = enabled
    /\ pending' = 0 /\ sent' = [m \in Messages |-> 0] /\ doubt' = sent'
    /\ excused' = excused \cup {m \in Messages : sent[m] > 0}
    /\ link' = "down"
    /\ UNCHANGED <<store, enabled, made, received, overlapped>>

Next ==
    \/ \E m \in Messages : Publish(m) \/ AnsweredSuccess(m) \/ AnsweredFailure(m)
    \/ Tick \/ LinkChange \/ SetEnabled \/ Reboot

Spec == Init /\ [][Next]_vars

\* tick() is called once a second; CloudService answers each send.
Fairness ==
    /\ WF_vars(Tick)
    /\ \A m \in Messages : WF_vars(AnsweredSuccess(m) \/ AnsweredFailure(m))

FairSpec == Spec /\ Fairness

-----------------------------------------------------------------------------
(* edge_location_publish.cpp:86, "ok to pop, disk_queue_cb will throw it     *)
(* back on if it fails again": a message that was not received, and that    *)
(* neither the quota, nor switching off, nor a reboot cost, is on its way or *)
(* in the store.                                                           *)
Kept ==
    \A m \in made \ (received \cup excused) : sent[m] > 0 \/ m \in InStore(store)

(* As long as no send was begun while another waited, no message is lost.   *)
KeptAlone == ~overlapped => Kept

(* Nor is one stored or under way more than once. *)
NoCopiesAlone ==
    ~overlapped =>
    \A m \in Messages : sent[m] <= 1 /\ (sent[m] = 1 => Stored(m) = {})
                        /\ \A i, j \in Stored(m) : i = j

(* So each location is in one place, RAM, disk or cloud, until it is given up. *)
OnePlaceAlone == KeptAlone /\ NoCopiesAlone

(* When no send waits for an answer no callback is left over, to be run by   *)
(* the answer to a later message.                                          *)
NoStaleCallback == Idle => pending = 0

(* edge_location_publish.h:67, "Called once a second to consume the            *)
(* store_msg_queue": with storing on and a link that stays good the store     *)
(* empties.                                                                *)
Settled == link = "good" /\ enabled
StoreDrains == <>[]Settled => []<>(store = <<>>)
=============================================================================
