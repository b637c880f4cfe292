----------------------------- MODULE CloudService -----------------------------
(***************************************************************************)
(* The request and answer layer, CloudService in lib/fw-config-service.     *)
(* A message sent with a callback gets one answer: from the publisher        *)
(* (SUCCESS or FAILURE, deferred to the next tick), or, when its sender      *)
(* asked for a FULL_ACK, from the cloud application's "ack" command or from  *)
(* the timeout.  The publisher (BackgroundPublish) is seen through what it   *)
(* promises: it refuses, or accepts and completes later on its own thread.   *)
(* Every function of the service runs under its mutex.  The lists of         *)
(* contexts are sets here: no property depends on their order.               *)
(*                                                                         *)
(* One unit of the clock is the second between two runs of tick_sec().       *)
(***************************************************************************)
EXTENDS Naturals

CONSTANTS
    Messages,   \* messages with a callback
    EndToEnd,   \* those sent with FULL_ACK
    Forever,    \* those sent with the default timeout
    Timeout,    \* timeout_ms of the others, in units of the clock
    ClockMod,   \* millis() counts modulo this (2^32 in the code)
    MaxReq,     \* the largest request number (2^32 - 1 in the code)
    MaxSends,   \* bound on the sends of one message
    Inputs      \* which of "reboot", "stored" and "early" may happen

ASSUME CloudAssumption ==
    /\ EndToEnd \subseteq Messages /\ Forever \subseteq Messages
    /\ Timeout \in Nat /\ ClockMod \in Nat \ {0}
    /\ MaxReq \in Nat \ {0} /\ MaxSends \in Nat

VARIABLES
    nextReq,    \* _req_id
    clock,      \* millis()
    ticked,     \* tick_sec() has run since the clock last moved
    flight,     \* contexts with the publisher
    handlers,   \* ack_handlers
    deferred,   \* deferred_acks
    reqOf,      \* the req_id written in a message, 0 when none
    acks,       \* acks of the cloud application on their way: [m, req]
    \* History variables.
    status,     \* the last answer of a message
    sends,      \* how often a message was sent
    acked       \* messages the cloud application acknowledged

vars == <<nextReq, clock, ticked, flight, handlers, deferred, reqOf, acks,
          status, sends, acked>>

Answers == {"SUCCESS", "FAILURE", "TIMEOUT"}
Times == 0 .. ClockMod - 1
Reqs == 0 .. MaxReq
Contexts == [m : Messages, req : Reqs, timeout : Times]

TypeOK ==
    /\ nextReq \in 1 .. MaxReq
    /\ clock \in Times /\ ticked \in BOOLEAN
    /\ flight \subseteq Contexts /\ handlers \subseteq Contexts
    /\ deferred \subseteq [m : Messages, answer : Answers]
    /\ reqOf \in [Messages -> Reqs]
    /\ acks \subseteq [m : Messages, req : Reqs]
    /\ status \in [Messages -> Answers \cup {"new", "waiting", "refused", "lost"}]
    /\ sends \in [Messages -> 0 .. MaxSends]
    /\ acked \subseteq Messages

Of(contexts) == {c.m : c \in contexts}

Init ==
    /\ nextReq = 1 /\ clock = 0 /\ ticked = FALSE
    /\ flight = {} /\ handlers = {} /\ deferred = {} /\ acks = {}
    /\ reqOf = [m \in Messages |-> 0]
    /\ status = [m \in Messages |-> "new"]
    /\ sends = [m \in Messages |-> 0]
    /\ acked = {}

-----------------------------------------------------------------------------
(* send() *)

\* get_next_req_id(): zero means "none", so that it is skipped.
NextReq_zero(req) == (req + 1) % (MaxReq + 1)
NextReq(req) == IF req = MaxReq THEN 1 ELSE req + 1

\* The absolute timeout; it saturates where the sum overflows, which it always
\* does with the default, the largest number there is.
Deadline(m) ==
    IF m \in Forever \/ clock + Timeout >= ClockMod THEN ClockMod - 1 ELSE clock + Timeout

\* Common part of both forms of send(), from the point where the callback is
\* bound.  The publisher accepts, or refuses and gives the callback an error.
Submit(m, req) ==
    /\ status' = [status EXCEPT ![m] = "waiting"]
    /\ sends' = [sends EXCEPT ![m] = @ + 1]
    /\ \/ /\ flight' = flight \cup {[m |-> m, req |-> req, timeout |-> Deadline(m)]}
          /\ UNCHANGED deferred
       \/ /\ deferred' = deferred \cup {[m |-> m, answer |-> "FAILURE"]}
          /\ UNCHANGED flight

\* send() of the message built with the writer.
Send(m) ==
    /\ status[m] = "new" /\ sends[m] < MaxSends
    /\ IF m \in EndToEnd
       THEN nextReq' = NextReq(nextReq) /\ reqOf' = [reqOf EXCEPT ![m] = nextReq]
       ELSE UNCHANGED <<nextReq, reqOf>>
    /\ Submit(m, reqOf'[m])
    /\ UNCHANGED <<clock, ticked, handlers, acks, acked>>

\* The output overflows its buffer: the number is used up, the callback is not.
SendOverflows(m) ==
    /\ status[m] = "new" /\ sends[m] < MaxSends
    /\ nextReq' = IF m \in EndToEnd THEN NextReq(nextReq) ELSE nextReq
    /\ status' = [status EXCEPT ![m] = "refused"]
    /\ sends' = [sends EXCEPT ![m] = @ + 1]
    /\ UNCHANGED <<clock, ticked, flight, handlers, deferred, reqOf, acks, acked>>

\* send(data) of a message its sender stored after a failure, perhaps before
\* a reboot: with FULL_ACK the request number is the one in the data.
SendStored(m) ==
    /\ "stored" \in Inputs
    /\ status[m] \in {"FAILURE", "TIMEOUT"} /\ sends[m] < MaxSends
    /\ Submit(m, reqOf[m])
    /\ UNCHANGED <<nextReq, clock, ticked, handlers, reqOf, acks, acked>>

-----------------------------------------------------------------------------
(* The cloud *)

\* The event arrives and the cloud application acknowledges it.
CloudAcks(c) ==
    /\ c.m \in EndToEnd
    /\ acks' = acks \cup {[m |-> c.m, req |-> c.req]}
    /\ acked' = acked \cup {c.m}
    /\ UNCHANGED <<nextReq, clock, ticked, flight, handlers, deferred, reqOf, status,
                   sends>>

\* It does so after publish_cb() ran, or before.
CloudAcksLate == \E c \in handlers : CloudAcks(c)
CloudAcksEarly == "early" \in Inputs /\ \E c \in flight : CloudAcks(c)

-----------------------------------------------------------------------------
(* publish_cb(), on the publisher's thread *)

\* A message sent with FULL_ACK now waits for the application's ack.
WaitsForAck_never(c) == FALSE
WaitsForAck(c) == c.m \in EndToEnd

\* The publish succeeded.
Published(c) ==
    /\ c \in flight /\ flight' = flight \ {c}
    /\ IF WaitsForAck(c)
       THEN handlers' = handlers \cup {c} /\ UNCHANGED deferred
       ELSE deferred' = deferred \cup {[m |-> c.m, answer |-> "SUCCESS"]}
            /\ UNCHANGED handlers
    /\ UNCHANGED <<nextReq, clock, ticked, reqOf, acks, status, sends, acked>>

\* The publish failed, or the publisher did not hear that it succeeded.
NotPublished(c) ==
    /\ c \in flight /\ flight' = flight \ {c}
    /\ deferred' = deferred \cup {[m |-> c.m, answer |-> "FAILURE"]}
    /\ UNCHANGED <<nextReq, clock, ticked, handlers, reqOf, acks, status, sends, acked>>

-----------------------------------------------------------------------------
(* dispatchCommand(): the "ack" command *)

\* Every handler with the number of the ack is answered and removed.
Matching_all(req) == handlers
Matching(req) == {c \in handlers : c.req = req}
Kept_all(req) == handlers
Kept(req) == handlers \ Matching(req)

DispatchAck(a) ==
    /\ a \in acks
    /\ acks' = acks \ {a}
    /\ handlers' = Kept(a.req)
    /\ status' = [m \in Messages |-> IF m \in Of(Matching(a.req)) THEN "SUCCESS" ELSE status[m]]
    /\ UNCHANGED <<nextReq, clock, ticked, flight, deferred, reqOf, sends, acked>>

-----------------------------------------------------------------------------
(* tick() *)

\* tick_sec()
Overdue_never == {}
Overdue == {c \in handlers : clock > c.timeout}

Expired == IF ticked THEN {} ELSE Overdue

\* The timeouts, once a second, then every deferred answer.
Tick ==
    /\ ~ticked \/ deferred # {}
    /\ ticked' = TRUE
    /\ handlers' = handlers \ Expired
    /\ deferred' = {}
    /\ status' = [m \in Messages |->
         IF m \in Of(deferred) THEN (CHOOSE d \in deferred : d.m = m).answer
         ELSE IF m \in Of(Expired) THEN "TIMEOUT" ELSE status[m]]
    /\ UNCHANGED <<nextReq, clock, flight, reqOf, acks, sends, acked>>

-----------------------------------------------------------------------------
(* The clock does not move before tick() has run.                          *)
Second ==
    /\ ticked
    /\ clock' = (clock + 1) % ClockMod /\ ticked' = FALSE
    /\ UNCHANGED <<nextReq, flight, handlers, deferred, reqOf, acks, status, sends, acked>>

\* What survives is with the senders (stored messages) and with the cloud.
Reboot ==
    /\ "reboot" \in Inputs
    /\ nextReq' = 1 /\ clock' = 0 /\ ticked' = FALSE
    /\ flight' = {} /\ handlers' = {} /\ deferred' = {}
    /\ status' = [m \in Messages |-> IF status[m] = "waiting" THEN "lost" ELSE status[m]]
    /\ UNCHANGED <<reqOf, acks, sends, acked>>

Complete(c) == Published(c) \/ NotPublished(c)

Next ==
    \/ \E m \in Messages : Send(m) \/ SendOverflows(m) \/ SendStored(m)
    \/ CloudAcksLate \/ CloudAcksEarly
    \/ \E c \in flight : Complete(c)
    \/ \E a \in acks : DispatchAck(a)
    \/ Tick \/ Second \/ Reboot

Spec == Init /\ [][Next]_vars

\* The publisher completes what it accepted, loop() keeps calling tick() and
\* time passes.  Nothing is assumed of the cloud application.
Fairness ==
    /\ WF_vars(\E c \in flight : Complete(c))
    /\ WF_vars(Tick) /\ WF_vars(Second)

FairSpec == Spec /\ Fairness

-----------------------------------------------------------------------------
(* A message that waits for its answer is in exactly one of the three      *)
(* places an answer can come from, once, and no other message is: no       *)
(* callback is lost or runs twice, however completions on the publisher's  *)
(* thread, acks, timeouts, resends and reboots interleave.                 *)
OnePlace ==
    /\ Of(flight) \cap Of(handlers) = {}
    /\ Of(flight) \cap Of(deferred) = {}
    /\ Of(handlers) \cap Of(deferred) = {}
OneContext ==
    /\ \A c, d \in flight : c.m = d.m => c = d
    /\ \A c, d \in handlers : c.m = d.m => c = d
    /\ \A c, d \in deferred : c.m = d.m => c = d
WaitingAreHeld ==
    {m \in Messages : status[m] = "waiting"} = Of(flight) \cup Of(handlers) \cup Of(deferred)
OneAnswer == OnePlace /\ OneContext /\ WaitingAreHeld

(* "full end-to-end acknowledgement" (cloud_service.h:56): as long as no two *)
(* messages bear the same number, which a reboot or 2^32 sends bring about,  *)
(* SUCCESS means that the cloud application acknowledged that very message.  *)
DistinctNumbers ==
    \A m, n \in EndToEnd : reqOf[m] = reqOf[n] /\ reqOf[m] # 0 => m = n
SuccessMeansAcked ==
    DistinctNumbers => \A m \in EndToEnd : status[m] = "SUCCESS" => m \in acked

(* An end-to-end message sent early enough on the clock's round, so that its *)
(* deadline does not fall on the round's end, is answered, whatever the cloud *)
(* application does.                                                       *)
InTime(m) == status[m] = "waiting" /\ \A c \in flight : c.m = m => c.timeout + 1 < ClockMod
Answered(m) == status[m] # "waiting"
AnswerComes == \A m \in EndToEnd : InTime(m) /\ m \in Of(flight) ~> Answered(m)

(* The promise that StoreForward and ConfigService rely on: whatever the      *)
(* order of completions, acks, timeouts, resends and resets, a message waits   *)
(* as long as a callback is bound for it, no longer and no shorter.           *)
Bound == Of(flight) \cup Of(handlers) \cup Of(deferred)
Told == [m \in Messages |-> IF status[m] \in Answers THEN status[m] ELSE "none"]

Promise == INSTANCE Answering
    WITH waiting <- Bound, answer <- Told, arrived <- acked, distinct <- DistinctNumbers

KeepsPromise == Promise!Spec
=============================================================================
