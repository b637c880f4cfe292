-------------------------- MODULE CloudServiceProofs --------------------------
(***************************************************************************)
(* Proofs about CloudService for every set of messages, timeout, counter    *)
(* width and number of request ids.                                         *)
(***************************************************************************)
EXTENDS CloudService, TLAPS

LEMMA ModFacts ==
    ASSUME NEW n \in Nat \ {0}, NEW x \in Nat
    PROVE  x % n \in 0 .. n - 1
  BY SMT

LEMMA DeadlineType ==
    ASSUME CloudAssumption, clock \in Times, NEW m
    PROVE  Deadline(m) \in Times
  BY SMT DEF CloudAssumption, Times, Deadline

LEMMA NextReqType ==
    ASSUME CloudAssumption, nextReq \in 1 .. MaxReq
    PROVE  NextReq(nextReq) \in 1 .. MaxReq /\ nextReq \in Reqs
  BY SMT DEF CloudAssumption, NextReq, Reqs

\* What both forms of send() leave of the types.
LEMMA SubmitTypes ==
    ASSUME CloudAssumption, TypeOK, NEW m \in Messages, NEW req \in Reqs,
           sends[m] < MaxSends, Submit(m, req)
    PROVE  /\ flight' \subseteq Contexts
           /\ deferred' \subseteq [m : Messages, answer : Answers]
           /\ status' \in [Messages -> Answers \cup {"new", "waiting", "refused", "lost"}]
           /\ sends' \in [Messages -> 0 .. MaxSends]
<1> USE DEF TypeOK, Submit
<1>1. Deadline(m) \in Times
  BY DeadlineType
<1>2. [m |-> m, req |-> req, timeout |-> Deadline(m)] \in Contexts
  BY <1>1 DEF Contexts
<1>3. [m |-> m, answer |-> "FAILURE"] \in [m : Messages, answer : Answers]
  BY DEF Answers
<1>4. sends[m] + 1 \in 0 .. MaxSends
  BY DEF CloudAssumption
<1>5. QED
  BY <1>2, <1>3, <1>4

-----------------------------------------------------------------------------
(* Types *)

LEMMA TypeInit == ASSUME CloudAssumption PROVE Init => TypeOK
<1> SUFFICES ASSUME Init PROVE TypeOK
  OBVIOUS
<1>1. 1 \in 1 .. MaxReq /\ 0 \in Times /\ 0 \in Reqs /\ 0 \in 0 .. MaxSends
  BY DEF CloudAssumption, Times, Reqs
<1>2. status \in [Messages -> Answers \cup {"new", "waiting", "refused", "lost"}]
  BY DEF Init
<1>3. QED
  BY <1>1, <1>2 DEF Init, TypeOK

LEMMA TypeStep ==
    ASSUME CloudAssumption, TypeOK, [Next]_vars
    PROVE  TypeOK'
<1> USE DEF TypeOK
<1>1. ASSUME NEW m \in Messages, Send(m)
      PROVE  TypeOK'
  <2>1. nextReq' \in 1 .. MaxReq /\ reqOf' \in [Messages -> Reqs] /\ reqOf'[m] \in Reqs
    BY <1>1, NextReqType DEF Send
  <2>2. Submit(m, reqOf'[m]) /\ sends[m] < MaxSends
    BY <1>1 DEF Send
  <2>3. QED
    BY <1>1, <2>1, <2>2, SubmitTypes DEF Send
<1>2. ASSUME NEW m \in Messages, SendOverflows(m)
      PROVE  TypeOK'
  <2>1. nextReq' \in 1 .. MaxReq
    BY <1>2, NextReqType DEF SendOverflows
  <2>2. sends[m] + 1 \in 0 .. MaxSends
    BY <1>2 DEF SendOverflows, CloudAssumption
  <2>3. QED
    BY <1>2, <2>1, <2>2 DEF SendOverflows
<1>3. ASSUME NEW m \in Messages, SendStored(m)
      PROVE  TypeOK'
  <2>1. reqOf[m] \in Reqs /\ Submit(m, reqOf[m]) /\ sends[m] < MaxSends
    BY <1>3 DEF SendStored
  <2>2. QED
    BY <1>3, <2>1, SubmitTypes DEF SendStored
<1>4. ASSUME NEW c \in Contexts, CloudAcks(c)
      PROVE  TypeOK'
  BY <1>4 DEF CloudAcks, Contexts
<1>5. ASSUME NEW c \in flight, Published(c)
      PROVE  TypeOK'
  <2>1. [m |-> c.m, answer |-> "SUCCESS"] \in [m : Messages, answer : Answers]
    BY DEF Answers, Contexts
  <2>2. QED
    BY <1>5, <2>1 DEF Published, WaitsForAck
<1>6. ASSUME NEW c \in flight, NotPublished(c)
      PROVE  TypeOK'
  <2>1. [m |-> c.m, answer |-> "FAILURE"] \in [m : Messages, answer : Answers]
    BY DEF Answers, Contexts
  <2>2. QED
    BY <1>6, <2>1 DEF NotPublished
<1>7. ASSUME NEW a \in acks, DispatchAck(a)
      PROVE  TypeOK'
  BY <1>7 DEF DispatchAck, Kept, Matching, Answers
<1>8. CASE Tick
  <2>1. \A m \in Of(deferred) : (CHOOSE d \in deferred : d.m = m).answer \in Answers
    BY DEF Of
  <2>2. status' \in [Messages -> Answers \cup {"new", "waiting", "refused", "lost"}]
    BY <1>8, <2>1 DEF Tick, Answers
  <2>3. QED
    BY <1>8, <2>2 DEF Tick
<1>9. CASE Second
  <2>1. (clock + 1) % ClockMod \in Times
    BY ModFacts DEF CloudAssumption, Times
  <2>2. QED
    BY <1>9, <2>1 DEF Second
<1>10. CASE Reboot
  <2>1. 1 \in 1 .. MaxReq /\ 0 \in Times
    BY DEF CloudAssumption, Times
  <2>2. status' \in [Messages -> Answers \cup {"new", "waiting", "refused", "lost"}]
    BY <1>10 DEF Reboot
  <2>3. QED
    BY <1>10, <2>1, <2>2 DEF Reboot
<1>11. CASE UNCHANGED vars
  BY <1>11 DEF vars
<1>12. CASE CloudAcksLate \/ CloudAcksEarly
  BY <1>4, <1>12 DEF CloudAcksLate, CloudAcksEarly
<1>13. ASSUME NEW c \in flight, Complete(c)
       PROVE  TypeOK'
  BY <1>5, <1>6, <1>13 DEF Complete
<1>14. ASSUME NEW m \in Messages, Send(m) \/ SendOverflows(m) \/ SendStored(m)
       PROVE  TypeOK'
  BY <1>1, <1>2, <1>3, <1>14
<1> HIDE DEF TypeOK
<1>15. CASE Next
  BY <1>7, <1>8, <1>9, <1>10, <1>12, <1>13, <1>14, <1>15 DEF Next
<1>16. QED
  BY <1>11, <1>15

(* Type invariant of the message layer, for every choice of the constants. *)
THEOREM TypeCorrect == Spec => []TypeOK
<1>1. Init => TypeOK
  BY CloudAssumption, TypeInit
<1>2. TypeOK /\ [Next]_vars => TypeOK'
  BY CloudAssumption, TypeStep
<1>3. QED
  BY <1>1, <1>2, PTL DEF Spec

-----------------------------------------------------------------------------
(* One answer for each message.  The invariant is inductive with the types  *)
(* alone: a context moves between the three places in single steps under    *)
(* the mutex, and a message is sent only when it is in none.                *)

LEMMA OfUnion ==
    ASSUME NEW S, NEW T, NEW x, T = S \cup {x}
    PROVE  Of(T) = Of(S) \cup {x.m}
  BY DEF Of

\* A message is sent: it is in none of the places, and then in one.
LEMMA SubmitOnce ==
    ASSUME TypeOK, OneAnswer, NEW m \in Messages, NEW req,
           status[m] # "waiting", Submit(m, req), UNCHANGED handlers
    PROVE  OneAnswer'
<1>1. m \notin Of(flight) /\ m \notin Of(handlers) /\ m \notin Of(deferred)
  BY DEF OneAnswer, WaitingAreHeld
<1>2. {n \in Messages : status'[n] = "waiting"}
        = {n \in Messages : status[n] = "waiting"} \cup {m}
  BY DEF Submit, TypeOK
<1>3. \/ Of(flight') = Of(flight) \cup {m} /\ Of(deferred') = Of(deferred)
      \/ Of(flight') = Of(flight) /\ Of(deferred') = Of(deferred) \cup {m}
  <2> DEFINE c == [m |-> m, req |-> req, timeout |-> Deadline(m)]
             d == [m |-> m, answer |-> "FAILURE"]
  <2>1. c.m = m /\ d.m = m
    OBVIOUS
  <2>2. \/ flight' = flight \cup {c} /\ deferred' = deferred
        \/ flight' = flight /\ deferred' = deferred \cup {d}
    BY DEF Submit
  <2> HIDE DEF c, d
  <2>3. QED
    BY <2>1, <2>2, OfUnion
<1>4. Of(handlers') = Of(handlers)
  BY DEF Of
<1>5. OnePlace'
  BY <1>1, <1>3, <1>4 DEF OneAnswer, OnePlace
<1>6. OneContext'
  BY <1>1 DEF OneAnswer, OneContext, Submit, Of
<1>7. WaitingAreHeld'
  BY <1>2, <1>3, <1>4 DEF OneAnswer, WaitingAreHeld
<1>8. QED
  BY <1>5, <1>6, <1>7 DEF OneAnswer

\* A publish completes: its context becomes a handler or a deferred answer.
LEMMA CompleteOnce ==
    ASSUME OneAnswer, NEW c \in flight, Complete(c)
    PROVE  OneAnswer'
<1>1. /\ flight' = flight \ {c} /\ status' = status
      /\ \/ handlers' = handlers \cup {c} /\ deferred' = deferred
         \/ /\ handlers' = handlers
            /\ \E a : deferred' = deferred \cup {[m |-> c.m, answer |-> a]}
  BY DEF Complete, Published, WaitsForAck, NotPublished
<1>2. c.m \notin Of(handlers) /\ c.m \notin Of(deferred)
  BY DEF OneAnswer, OnePlace, Of
<1>3. Of(flight') = Of(flight) \ {c.m}
  BY <1>1 DEF OneAnswer, OneContext, Of
<1>4. \/ Of(handlers') = Of(handlers) \cup {c.m} /\ Of(deferred') = Of(deferred)
      \/ Of(handlers') = Of(handlers) /\ Of(deferred') = Of(deferred) \cup {c.m}
  <2>1. CASE handlers' = handlers \cup {c} /\ deferred' = deferred
    BY <2>1, OfUnion
  <2>2. ASSUME NEW a, handlers' = handlers, deferred' = deferred \cup {[m |-> c.m, answer |-> a]}
        PROVE  Of(handlers') = Of(handlers) /\ Of(deferred') = Of(deferred) \cup {c.m}
    <3> DEFINE d == [m |-> c.m, answer |-> a]
    <3>1. d.m = c.m
      OBVIOUS
    <3> HIDE DEF d
    <3>2. deferred' = deferred \cup {d}
      BY <2>2 DEF d
    <3>3. QED
      BY <2>2, <3>1, <3>2, OfUnion
  <2>3. QED
    BY <1>1, <2>1, <2>2
<1>5. OnePlace'
  BY <1>2, <1>3, <1>4 DEF OneAnswer, OnePlace
<1>6. OneContext'
  BY <1>1, <1>2 DEF OneAnswer, OneContext, Of
<1>7. c.m \in Of(flight)
  BY DEF Of
<1>8. WaitingAreHeld'
  BY <1>1, <1>3, <1>4, <1>7 DEF OneAnswer, WaitingAreHeld
<1>9. QED
  BY <1>5, <1>6, <1>8 DEF OneAnswer

\* Handlers are answered and removed, and perhaps all deferred answers given.
LEMMA AnswerOnce ==
    ASSUME OneAnswer, NEW gone \in SUBSET handlers,
           flight' = flight, handlers' = handlers \ gone,
           deferred' = deferred \/ deferred' = {},
           \A n \in Messages : status'[n] = "waiting" <=>
             /\ status[n] = "waiting" /\ n \notin Of(gone)
             /\ n \in Of(deferred) => deferred' = deferred
    PROVE  OneAnswer'
<1>1. Of(flight') = Of(flight)
  BY DEF Of
<1>2. Of(handlers') = Of(handlers) \ Of(gone)
  BY DEF OneAnswer, OneContext, Of
<1>3. Of(gone) \subseteq Of(handlers)
  BY DEF Of
<1>4. \/ deferred' = deferred /\ Of(deferred') = Of(deferred)
      \/ deferred' = {} /\ Of(deferred') = {}
  BY DEF Of
<1>5. OnePlace'
  BY <1>1, <1>2, <1>4 DEF OneAnswer, OnePlace
<1>6. OneContext'
  BY DEF OneAnswer, OneContext
<1>7. WaitingAreHeld'
  BY <1>1, <1>2, <1>3, <1>4 DEF OneAnswer, OnePlace, WaitingAreHeld, Of
<1>8. QED
  BY <1>5, <1>6, <1>7 DEF OneAnswer

LEMMA OnceInit == Init => OneAnswer
  BY DEF Init, OneAnswer, OnePlace, OneContext, WaitingAreHeld, Of

LEMMA OnceStep ==
    ASSUME TypeOK, OneAnswer, [Next]_vars
    PROVE  OneAnswer'
<1>1. ASSUME NEW m \in Messages, Send(m) \/ SendStored(m)
      PROVE  OneAnswer'
  <2>1. status[m] # "waiting" /\ UNCHANGED handlers
    BY <1>1 DEF Send, SendStored
  <2>2. \E req : Submit(m, req)
    BY <1>1 DEF Send, SendStored
  <2>3. QED
    BY <2>1, <2>2, SubmitOnce
<1>2. ASSUME UNCHANGED <<flight, handlers, deferred>>,
             \A n \in Messages : status'[n] = "waiting" <=> status[n] = "waiting"
      PROVE  OneAnswer'
  BY <1>2 DEF OneAnswer, OnePlace, OneContext, WaitingAreHeld, Of
<1>3. ASSUME NEW m \in Messages, SendOverflows(m)
      PROVE  OneAnswer'
  <2>1. \A n \in Messages : status'[n] = "waiting" <=> status[n] = "waiting"
    BY <1>3 DEF SendOverflows, TypeOK
  <2>2. QED
    BY <1>2, <1>3, <2>1 DEF SendOverflows
<1>4. CASE CloudAcksLate \/ CloudAcksEarly
  BY <1>2, <1>4 DEF CloudAcksLate, CloudAcksEarly, CloudAcks
<1>5. ASSUME NEW a \in acks, DispatchAck(a)
      PROVE  OneAnswer'
  <2> DEFINE gone == Matching(a.req)
  <2>1. gone \in SUBSET handlers /\ handlers' = handlers \ gone
    BY <1>5 DEF DispatchAck, Kept, Matching
  <2>2. \A n \in Messages : status'[n] = "waiting" <=> status[n] = "waiting" /\ n \notin Of(gone)
    BY <1>5 DEF DispatchAck
  <2>3. flight' = flight /\ deferred' = deferred
    BY <1>5 DEF DispatchAck
  <2> HIDE DEF gone
  <2>4. QED
    BY <2>1, <2>2, <2>3, AnswerOnce
<1>6. CASE Tick
  <2>1. Expired \in SUBSET handlers /\ handlers' = handlers \ Expired
    BY <1>6 DEF Tick, Expired, Overdue
  <2>2. \A m \in Of(deferred) : (CHOOSE d \in deferred : d.m = m).answer # "waiting"
    BY DEF Of, TypeOK, Answers
  <2>3. \A n \in Messages : status'[n] = "waiting" <=>
          status[n] = "waiting" /\ n \notin Of(Expired) /\ n \notin Of(deferred)
    BY <1>6, <2>2 DEF Tick
  <2>4. flight' = flight /\ deferred' = {}
    BY <1>6 DEF Tick
  <2>5. \A n \in Of(deferred) : deferred # {}
    BY DEF Of
  <2>6. QED
    BY <2>1, <2>3, <2>4, <2>5, AnswerOnce
<1>7. CASE Second
  BY <1>2, <1>7 DEF Second
<1>8. CASE Reboot
  <2>1. \A n \in Messages : status'[n] # "waiting"
    BY <1>8 DEF Reboot
  <2>2. flight' = {} /\ handlers' = {} /\ deferred' = {}
    BY <1>8 DEF Reboot
  <2>3. QED
    BY <2>1, <2>2 DEF OneAnswer, OnePlace, OneContext, WaitingAreHeld, Of
<1>9. CASE UNCHANGED vars
  BY <1>2, <1>9 DEF vars
<1>10. CASE Next
  BY <1>1, <1>3, <1>4, <1>5, <1>6, <1>7, <1>8, <1>10, CompleteOnce DEF Next
<1>11. QED
  BY <1>9, <1>10

(* Every message that waits is in exactly one place, once: each callback runs *)
(* exactly once, for every set of messages and every interleaving.            *)
THEOREM AnsweredOnce == Spec => []OneAnswer
<1>1. TypeOK /\ OneAnswer /\ [Next]_vars => OneAnswer'
  BY OnceStep
<1>2. QED
  BY OnceInit, TypeCorrect, <1>1, PTL DEF Spec

-----------------------------------------------------------------------------
(* Success means acknowledged.  The invariant follows the request number:   *)
(* it is written once, when a message leaves "new", and every context and   *)
(* every ack of the message bears it from then on.                          *)

NumberedOnceSent ==
    /\ \A m \in Messages : status[m] = "new" => reqOf[m] = 0
    /\ \A m \in EndToEnd : status[m] \in {"waiting", "lost"} \cup Answers => reqOf[m] # 0
ContextsNumbered ==
    /\ \A c \in flight : c.m \in EndToEnd => c.req = reqOf[c.m]
    /\ \A c \in handlers : c.m \in EndToEnd /\ c.req = reqOf[c.m]
AcksNumbered ==
    \A a \in acks : a.m \in EndToEnd /\ a.m \in acked /\ a.req = reqOf[a.m] /\ a.req # 0
\* The publisher's success is no answer to an end-to-end message.
NoEarlySuccess == \A d \in deferred : d.answer = "SUCCESS" => d.m \notin EndToEnd

Numbered ==
    NumberedOnceSent /\ ContextsNumbered /\ AcksNumbered /\ NoEarlySuccess /\ SuccessMeansAcked

\* Contexts and acks belong to messages that have been sent.
LEMMA HeldWasSent ==
    ASSUME CloudAssumption, TypeOK, OneAnswer, Numbered
    PROVE  /\ \A c \in flight \cup handlers : status[c.m] = "waiting"
           /\ \A a \in acks : status[a.m] # "new"
<1>1. \A c \in flight \cup handlers : c.m \in Of(flight) \cup Of(handlers)
  BY DEF Of
<1>2. \A a \in acks : a.m \in Messages /\ reqOf[a.m] # 0
  BY DEF TypeOK, Numbered, AcksNumbered
<1>3. QED
  BY <1>1, <1>2 DEF OneAnswer, WaitingAreHeld, Numbered, NumberedOnceSent

LEMMA NumberedInit == ASSUME CloudAssumption PROVE Init => Numbered
  BY DEF Init, Numbered, NumberedOnceSent, ContextsNumbered, AcksNumbered, NoEarlySuccess,
         SuccessMeansAcked, Answers, CloudAssumption

\* A message whose number is written, or was, is submitted.
LEMMA SubmitNumbered ==
    ASSUME CloudAssumption, TypeOK, OneAnswer, Numbered, NEW m \in Messages,
           status[m] # "waiting",
           reqOf' \in [Messages -> Reqs],
           \A n \in Messages : n # m => reqOf'[n] = reqOf[n],
           reqOf'[m] = reqOf[m] \/ status[m] = "new",
           m \in EndToEnd => reqOf'[m] # 0,
           Submit(m, reqOf'[m]), UNCHANGED <<handlers, acks, acked>>
    PROVE  Numbered'
<1> USE DEF Numbered, CloudAssumption
<1>1. \A c \in flight \cup handlers : c.m \in Messages /\ c.m # m /\ reqOf'[c.m] = reqOf[c.m]
  BY HeldWasSent DEF TypeOK, Contexts
<1>2. status' = [status EXCEPT ![m] = "waiting"]
  BY DEF Submit
<1>3. NumberedOnceSent'
  BY <1>2 DEF NumberedOnceSent, TypeOK
<1>4. ContextsNumbered'
  <2>1. flight' \subseteq flight \cup {[m |-> m, req |-> reqOf'[m], timeout |-> Deadline(m)]}
    BY DEF Submit
  <2>2. QED
    BY <1>1, <2>1 DEF ContextsNumbered
<1>5. AcksNumbered'
  <2>1. \A a \in acks : a.m \in Messages /\ reqOf'[a.m] = reqOf[a.m]
    BY HeldWasSent DEF TypeOK
  <2>2. QED
    BY <2>1 DEF AcksNumbered
<1>6. NoEarlySuccess'
  BY DEF NoEarlySuccess, Submit
<1>7. SuccessMeansAcked'
  <2> SUFFICES ASSUME DistinctNumbers', NEW n \in EndToEnd, status'[n] = "SUCCESS"
               PROVE  n \in acked
    BY DEF SuccessMeansAcked
  <2>1. n # m /\ status[n] = "SUCCESS"
    BY <1>2 DEF TypeOK
  <2>2. reqOf'[m] = reqOf[m] \/ reqOf[m] = 0
    BY DEF NumberedOnceSent
  <2>3. DistinctNumbers
    BY <2>2 DEF DistinctNumbers
  <2>4. QED
    BY <2>1, <2>3 DEF SuccessMeansAcked
<1>8. QED
  BY <1>3, <1>4, <1>5, <1>6, <1>7

LEMMA NumberedStep ==
    ASSUME CloudAssumption, TypeOK, OneAnswer, Numbered, [Next]_vars
    PROVE  Numbered'
<1> USE DEF Numbered
<1>1. ASSUME NEW m \in Messages, Send(m)
      PROVE  Numbered'
  <2>1. nextReq \in Reqs /\ nextReq # 0 /\ status[m] = "new"
    BY <1>1, NextReqType DEF TypeOK, Send
  <2>2. reqOf' \in [Messages -> Reqs] /\ \A n \in Messages : n # m => reqOf'[n] = reqOf[n]
    BY <1>1, <2>1 DEF TypeOK, Send
  <2>3. m \in EndToEnd => reqOf'[m] # 0
    BY <1>1, <2>1 DEF TypeOK, Send
  <2>4. Submit(m, reqOf'[m]) /\ UNCHANGED <<handlers, acks, acked>>
    BY <1>1 DEF Send
  <2>5. QED
    BY <2>1, <2>2, <2>3, <2>4, SubmitNumbered
<1>2. ASSUME NEW m \in Messages, SendStored(m)
      PROVE  Numbered'
  <2>1. status[m] \in {"FAILURE", "TIMEOUT"} /\ reqOf' = reqOf /\ reqOf' \in [Messages -> Reqs]
    BY <1>2 DEF TypeOK, SendStored
  <2>2. m \in EndToEnd => reqOf'[m] # 0
    BY <2>1 DEF NumberedOnceSent, Answers
  <2>3. Submit(m, reqOf'[m]) /\ UNCHANGED <<handlers, acks, acked>>
    BY <1>2 DEF SendStored
  <2>4. QED
    BY <2>1, <2>2, <2>3, SubmitNumbered
<1>3. ASSUME NEW m \in Messages, SendOverflows(m)
      PROVE  Numbered'
  <2>1. /\ status' = [status EXCEPT ![m] = "refused"] /\ "refused" \notin Answers
        /\ UNCHANGED <<flight, handlers, deferred, reqOf, acks, acked>>
    BY <1>3 DEF SendOverflows, Answers
  <2>2. NumberedOnceSent'
    BY <2>1 DEF NumberedOnceSent, TypeOK, CloudAssumption
  <2>3. SuccessMeansAcked'
    BY <2>1 DEF SuccessMeansAcked, DistinctNumbers, TypeOK, CloudAssumption
  <2>4. QED
    BY <2>1, <2>2, <2>3 DEF ContextsNumbered, AcksNumbered, NoEarlySuccess
<1>4. ASSUME NEW c \in flight \cup handlers, CloudAcks(c)
      PROVE  Numbered'
  <2>1. /\ acks' = acks \cup {[m |-> c.m, req |-> c.req]} /\ acked' = acked \cup {c.m}
        /\ UNCHANGED <<flight, handlers, deferred, reqOf, status>> /\ c.m \in EndToEnd
    BY <1>4 DEF CloudAcks
  <2>2. c.req = reqOf[c.m] /\ reqOf[c.m] # 0
    BY <2>1, HeldWasSent DEF ContextsNumbered, NumberedOnceSent
  <2>3. AcksNumbered'
    BY <2>1, <2>2 DEF AcksNumbered
  <2>4. SuccessMeansAcked'
    BY <2>1 DEF SuccessMeansAcked, DistinctNumbers
  <2>5. QED
    BY <2>1, <2>3, <2>4 DEF NumberedOnceSent, ContextsNumbered, NoEarlySuccess
<1>5. ASSUME NEW c \in flight, Complete(c)
      PROVE  Numbered'
  <2>1. flight' = flight \ {c} /\ UNCHANGED <<reqOf, acks, status, acked>>
    BY <1>5 DEF Complete, Published, WaitsForAck, NotPublished
  <2>2. handlers' = handlers \/ (c.m \in EndToEnd /\ handlers' = handlers \cup {c})
    BY <1>5 DEF Complete, Published, WaitsForAck, NotPublished
  <2>3. NoEarlySuccess'
    BY <1>5 DEF Complete, Published, WaitsForAck, NotPublished, NoEarlySuccess
  <2>4. ContextsNumbered'
    BY <2>1, <2>2 DEF ContextsNumbered
  <2>5. QED
    BY <2>1, <2>3, <2>4
       DEF NumberedOnceSent, AcksNumbered, SuccessMeansAcked, DistinctNumbers
<1>6. ASSUME NEW a \in acks, DispatchAck(a)
      PROVE  Numbered'
  <2>1. /\ acks' = acks \ {a} /\ handlers' \subseteq handlers
        /\ UNCHANGED <<flight, deferred, reqOf, acked>>
        /\ status' = [n \in Messages |->
                        IF n \in Of(Matching(a.req)) THEN "SUCCESS" ELSE status[n]]
    BY <1>6 DEF DispatchAck, Kept
  <2>2. \A n \in Of(Matching(a.req)) : n \in EndToEnd /\ reqOf[n] = a.req /\ reqOf[n] # 0
    BY DEF Of, Matching, ContextsNumbered, AcksNumbered
  <2>3. NumberedOnceSent'
    BY <2>1, <2>2 DEF NumberedOnceSent, CloudAssumption
  <2>4. SuccessMeansAcked'
    <3>1. a.m \in EndToEnd /\ a.m \in acked /\ a.req = reqOf[a.m]
      BY DEF AcksNumbered
    <3>2. DistinctNumbers => \A n \in Of(Matching(a.req)) : n = a.m
      BY <2>2, <3>1 DEF DistinctNumbers
    <3>3. DistinctNumbers' <=> DistinctNumbers
      BY <2>1 DEF DistinctNumbers
    <3>4. QED
      BY <2>1, <3>1, <3>2, <3>3 DEF SuccessMeansAcked, CloudAssumption
  <2>5. QED
    BY <2>1, <2>3, <2>4 DEF ContextsNumbered, AcksNumbered, NoEarlySuccess
<1>7. CASE Tick
  <2> DEFINE Given(n) == (CHOOSE d \in deferred : d.m = n).answer
  <2>1. /\ handlers' \subseteq handlers /\ deferred' = {}
        /\ UNCHANGED <<flight, reqOf, acks, acked>>
        /\ status' = [n \in Messages |-> IF n \in Of(deferred) THEN Given(n)
                        ELSE IF n \in Of(Expired) THEN "TIMEOUT" ELSE status[n]]
    BY <1>7 DEF Tick
  <2>2. \A n \in Of(deferred) : Given(n) \in Answers /\ (n \in EndToEnd => Given(n) # "SUCCESS")
    BY DEF Of, NoEarlySuccess, TypeOK
  <2> HIDE DEF Given
  <2>3. \A n \in Of(deferred) \cup Of(Expired) : n \in Messages /\ status[n] = "waiting"
    BY DEF OneAnswer, WaitingAreHeld, Of, Expired, Overdue
  <2>4. NumberedOnceSent'
    <3>1. \A n \in Messages : \/ status'[n] = status[n]
                              \/ status'[n] \in Answers /\ status[n] = "waiting"
      BY <2>1, <2>2, <2>3 DEF Answers
    <3>2. QED
      BY <2>1, <3>1 DEF NumberedOnceSent, Answers, CloudAssumption
  <2>5. SuccessMeansAcked'
    <3>1. \A n \in EndToEnd : status'[n] = "SUCCESS" => status[n] = "SUCCESS"
      BY <2>1, <2>2 DEF CloudAssumption
    <3>2. QED
      BY <2>1, <3>1 DEF SuccessMeansAcked, DistinctNumbers
  <2>6. QED
    BY <2>1, <2>4, <2>5 DEF ContextsNumbered, AcksNumbered, NoEarlySuccess
<1>8. CASE Reboot
  <2>1. /\ flight' = {} /\ handlers' = {} /\ deferred' = {} /\ UNCHANGED <<reqOf, acks, acked>>
        /\ status' = [m \in Messages |-> IF status[m] = "waiting" THEN "lost" ELSE status[m]]
    BY <1>8 DEF Reboot
  <2>2. NumberedOnceSent'
    BY <2>1 DEF NumberedOnceSent, Answers, CloudAssumption
  <2>3. SuccessMeansAcked'
    BY <2>1 DEF SuccessMeansAcked, DistinctNumbers, CloudAssumption
  <2>4. QED
    BY <2>1, <2>2, <2>3 DEF ContextsNumbered, AcksNumbered, NoEarlySuccess
<1>9. CASE Second \/ UNCHANGED vars
  BY <1>9 DEF Second, vars, NumberedOnceSent, ContextsNumbered, AcksNumbered, NoEarlySuccess,
              SuccessMeansAcked, DistinctNumbers
<1>10. CASE CloudAcksLate \/ CloudAcksEarly
  BY <1>4, <1>10 DEF CloudAcksLate, CloudAcksEarly
<1> HIDE DEF Numbered
<1>11. CASE Next
  BY <1>1, <1>2, <1>3, <1>5, <1>6, <1>7, <1>8, <1>9, <1>10, <1>11 DEF Next
<1>12. QED
  BY <1>9, <1>11

(* As long as no two messages bear the same number, SUCCESS of an end-to-end *)
(* message means that the cloud application acknowledged that message,       *)
(* across resends, early and late acks, timeouts and reboots.                *)
THEOREM SuccessIsAcked == Spec => []SuccessMeansAcked
<1>1. Init => Numbered
  BY CloudAssumption, NumberedInit
<1>2. TypeOK /\ OneAnswer /\ Numbered /\ [Next]_vars => Numbered'
  BY CloudAssumption, NumberedStep
<1>3. Numbered => SuccessMeansAcked
  BY DEF Numbered
<1>4. QED
  BY TypeCorrect, AnsweredOnce, <1>1, <1>2, <1>3, PTL DEF Spec

-----------------------------------------------------------------------------
(* CloudService implements Answering.  A callback is bound exactly for the   *)
(* messages whose status is "waiting", so that every step is mapped through   *)
(* the status alone.                                                        *)

LEMMA BoundIsWaiting ==
    ASSUME OneAnswer
    PROVE  Bound = {m \in Messages : status[m] = "waiting"}
  BY DEF OneAnswer, WaitingAreHeld, Bound

LEMMA PromiseInit == ASSUME CloudAssumption PROVE Init => Promise!Init
<1> SUFFICES ASSUME Init PROVE Promise!Init
  OBVIOUS
<1>1. Bound = {} /\ acked = {}
  BY DEF Init, Bound, Of
<1>2. Told = [m \in Messages |-> "none"]
  BY DEF Init, Told, Answers
<1>3. QED
  BY <1>1, <1>2 DEF Promise!Init, Promise!None

\* A message that is sent again has lost its answer.
LEMMA SendKeepsPromise ==
    ASSUME TypeOK, OneAnswer, OneAnswer', NEW m \in Messages, status[m] # "waiting",
           status' = [status EXCEPT ![m] = "waiting"], UNCHANGED acked
    PROVE  Promise!Send(m)
<1>1. m \notin Bound /\ Bound' = Bound \cup {m}
  BY BoundIsWaiting DEF OneAnswer, WaitingAreHeld, Bound, TypeOK
<1>2. Told' = [Told EXCEPT ![m] = "none"]
  BY DEF Told, TypeOK, Answers
<1>3. QED
  BY <1>1, <1>2 DEF Promise!Send, Promise!None

\* Steps that give nobody an answer, and take none.
LEMMA QuietKeepsPromise ==
    ASSUME OneAnswer, OneAnswer', UNCHANGED acked,
           \A n \in Messages : \/ status'[n] = status[n]
                              \/ /\ {status[n], status'[n]} \cap Answers = {}
                                 /\ status[n] # "waiting" /\ status'[n] # "waiting"
    PROVE  UNCHANGED Promise!vars
<1>1. Bound' = Bound
  BY DEF OneAnswer, WaitingAreHeld, Bound
<1>2. Told' = Told
  BY DEF Told
<1>3. QED
  BY <1>1, <1>2 DEF Promise!vars

\* Steps that answer.
LEMMA ReplyKeepsPromise ==
    ASSUME TypeOK, OneAnswer, OneAnswer', UNCHANGED acked,
           NEW answered \in SUBSET Bound,
           \A n \in Messages : IF n \in answered THEN status'[n] \in Answers
                              ELSE status'[n] = status[n],
           \A n \in answered : DistinctNumbers /\ n \in EndToEnd /\ status'[n] = "SUCCESS"
                              => n \in acked
    PROVE  Promise!Reply(answered)
<1>1. answered \subseteq Messages /\ \A n \in answered : status[n] = "waiting"
  BY BoundIsWaiting
<1>2. Bound' = Bound \ answered
  <2>1. Bound' = {n \in Messages : status'[n] = "waiting"}
    BY DEF OneAnswer, WaitingAreHeld, Bound
  <2>2. QED
    BY <1>1, <2>1, BoundIsWaiting DEF Answers
<1>3. /\ Told' \in [Messages -> Answers \cup {"none"}]
      /\ \A n \in Messages : Told'[n] = IF status'[n] \in Answers THEN status'[n] ELSE "none"
      /\ \A n \in Messages : Told[n] = IF status[n] \in Answers THEN status[n] ELSE "none"
  BY DEF Told
<1>4. \A n \in Messages : IF n \in answered THEN Told'[n] \in Answers /\ Told'[n] = status'[n]
                         ELSE Told'[n] = Told[n]
  BY <1>3
<1>5. \A n \in answered : Promise!Truthful(n)
  BY <1>1, <1>4 DEF Promise!Truthful
<1>6. QED
  BY <1>2, <1>3, <1>4, <1>5 DEF Promise!Reply, Promise!Answers, Promise!None, Answers

\* Every step but a reset.
LEMMA SteadyStep ==
    ASSUME CloudAssumption, TypeOK, OneAnswer, OneAnswer', Numbered, [Next]_vars, ~Reboot
    PROVE  [Promise!Steady]_(Promise!vars)
<1>1. ASSUME NEW m \in Messages, Send(m) \/ SendStored(m)
      PROVE  Promise!Send(m)
  <2>1. status[m] # "waiting" /\ status' = [status EXCEPT ![m] = "waiting"] /\ UNCHANGED acked
    BY <1>1 DEF Send, SendStored, Submit
  <2>2. QED
    BY <2>1, SendKeepsPromise
<1>2. ASSUME NEW m \in Messages, SendOverflows(m)
      PROVE  UNCHANGED Promise!vars
  BY <1>2, QuietKeepsPromise DEF SendOverflows, TypeOK, Answers
<1>3. ASSUME NEW c \in flight \cup handlers, CloudAcks(c)
      PROVE  c.m \in Messages /\ Promise!Arrive(c.m)
  <2>1. c.m \in Bound /\ c.m \in Messages
    BY DEF Bound, Of, TypeOK, Contexts
  <2>2. UNCHANGED <<Bound, Told>> /\ acked' = acked \cup {c.m}
    BY <1>3 DEF CloudAcks, Bound, Told
  <2>3. QED
    BY <2>1, <2>2 DEF Promise!Arrive
<1>4. ASSUME NEW c \in flight, Complete(c)
      PROVE  UNCHANGED Promise!vars
  BY <1>4, QuietKeepsPromise DEF Complete, Published, WaitsForAck, NotPublished
<1>5. ASSUME NEW a \in acks, DispatchAck(a)
      PROVE  \E answered \in SUBSET Bound : Promise!Reply(answered)
  <2> DEFINE answered == Of(Matching(a.req))
  <2>1. answered \in SUBSET Bound
    BY DEF Bound, Of, Matching
  <2>2. \A n \in Messages : IF n \in answered THEN status'[n] \in Answers
                           ELSE status'[n] = status[n]
    BY <1>5 DEF DispatchAck, Answers
  <2>3. a.m \in acked /\ a.m \in EndToEnd /\ a.req = reqOf[a.m] /\ a.req # 0
    BY DEF Numbered, AcksNumbered
  <2>4. \A n \in answered : n \in EndToEnd /\ reqOf[n] = a.req
    BY DEF Of, Matching, Numbered, ContextsNumbered
  <2>5. \A n \in answered : DistinctNumbers => n \in acked
    BY <2>3, <2>4 DEF DistinctNumbers
  <2>6. UNCHANGED acked
    BY <1>5 DEF DispatchAck
  <2> HIDE DEF answered
  <2>7. QED
    BY <2>1, <2>2, <2>5, <2>6, ReplyKeepsPromise
<1>6. ASSUME Tick
      PROVE  \E answered \in SUBSET Bound : Promise!Reply(answered)
  <2> DEFINE answered == Of(deferred) \cup Of(Expired)
             Given(n) == (CHOOSE d \in deferred : d.m = n).answer
  <2>1. answered \in SUBSET Bound
    BY DEF Bound, Of, Expired, Overdue
  <2>2. /\ UNCHANGED acked
        /\ status' = [n \in Messages |-> IF n \in Of(deferred) THEN Given(n)
                        ELSE IF n \in Of(Expired) THEN "TIMEOUT" ELSE status[n]]
    BY <1>6 DEF Tick
  <2>3. \A n \in Of(deferred) : Given(n) \in Answers /\ (n \in EndToEnd => Given(n) # "SUCCESS")
    BY DEF Of, Numbered, NoEarlySuccess, TypeOK
  <2> HIDE DEF Given
  <2>4. \A n \in Messages : IF n \in answered THEN status'[n] \in Answers
                           ELSE status'[n] = status[n]
    BY <2>2, <2>3 DEF Answers
  <2>5. \A n \in answered : n \in EndToEnd => status'[n] # "SUCCESS"
    BY <2>2, <2>3 DEF CloudAssumption
  <2> HIDE DEF answered
  <2>6. QED
    BY <2>1, <2>2, <2>4, <2>5, ReplyKeepsPromise
<1>7. CASE Second \/ UNCHANGED vars
  BY <1>7, QuietKeepsPromise DEF Second, vars
<1>8. CASE CloudAcksLate \/ CloudAcksEarly
  BY <1>3, <1>8 DEF CloudAcksLate, CloudAcksEarly, Promise!Steady
<1>9. QED
  BY <1>1, <1>2, <1>4, <1>5, <1>6, <1>7, <1>8 DEF Next, Promise!Steady

\* A reset takes every bound callback, and no answer.
LEMMA RebootStep ==
    ASSUME Reboot
    PROVE  Promise!Forget
<1>1. Bound' = {} /\ UNCHANGED acked
  BY DEF Reboot, Bound, Of
<1>2. Told' = Told
  BY DEF Reboot, Told, Answers
<1>3. QED
  BY <1>1, <1>2 DEF Promise!Forget

(* CloudService implements its promise, for every set of messages, timeout,  *)
(* clock and request counter: each send is answered once, nobody is answered  *)
(* who does not wait, and end-to-end success is true.                        *)
THEOREM PromiseKept == Spec => KeepsPromise
<1>1. Init => Promise!Init
  BY CloudAssumption, PromiseInit
<1>2. TypeOK /\ OneAnswer /\ OneAnswer' /\ Numbered /\ [Next]_vars
        => [Promise!Next]_(Promise!vars)
  BY CloudAssumption, SteadyStep, RebootStep DEF Promise!Next
<1>3. Init => Numbered
  BY CloudAssumption, NumberedInit
<1>4. TypeOK /\ OneAnswer /\ Numbered /\ [Next]_vars => Numbered'
  BY CloudAssumption, NumberedStep
<1>5. QED
  BY TypeCorrect, AnsweredOnce, <1>1, <1>2, <1>3, <1>4, PTL DEF Spec, KeepsPromise, Promise!Spec

(* Only a reset costs an answer: a device that is not reset keeps the promise *)
(* in its form without one.                                                  *)
THEOREM PromiseKeptWithoutResets ==
    ASSUME "reboot" \notin Inputs
    PROVE  Spec => Promise!SteadySpec
<1>1. Init => Promise!Init
  BY CloudAssumption, PromiseInit
<1>2. TypeOK /\ OneAnswer /\ OneAnswer' /\ Numbered /\ [Next]_vars
        => [Promise!Steady]_(Promise!vars)
  BY CloudAssumption, SteadyStep DEF Reboot
<1>3. Init => Numbered
  BY CloudAssumption, NumberedInit
<1>4. TypeOK /\ OneAnswer /\ Numbered /\ [Next]_vars => Numbered'
  BY CloudAssumption, NumberedStep
<1>5. QED
  BY TypeCorrect, AnsweredOnce, <1>1, <1>2, <1>3, <1>4, PTL DEF Spec, Promise!SteadySpec
=============================================================================
