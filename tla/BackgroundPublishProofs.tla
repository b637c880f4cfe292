------------------------ MODULE BackgroundPublishProofs ------------------------
(***************************************************************************)
(* Proofs about BackgroundPublish for every number of levels, callers and   *)
(* events, every capacity, burst, interval and counter width.               *)
(***************************************************************************)
EXTENDS BackgroundPublish, TLAPS

\* The threads' phases exclude each other: the worker holds an event exactly
\* between taking and completing it, and cleanup() runs only after it ended.
Phases ==
    /\ sending # NoEvent <=> worker \in {"taken", "sending"}
    /\ control # "idle" => ~running
    /\ control = "cleaning" \/ (control = "idle" /\ ~running) => worker = "none"

\* The inductive invariant: a completion is counted once because the places
\* that hold an event exclude each other, which the phases ensure.
Inv == TypeOK /\ Phases /\ ExactlyOneCompletion

USE ConstantsAssumption DEF ConstantsAssumption

\* Appending a value to a sequence that lacks it, position by position.
LEMMA AppendFacts ==
    ASSUME NEW S, NEW s \in Seq(S), NEW e \in S
    PROVE  /\ Append(s, e) \in Seq(S)
           /\ Len(Append(s, e)) = Len(s) + 1
           /\ \A k \in 1 .. Len(s) : Append(s, e)[k] = s[k]
           /\ Append(s, e)[Len(s) + 1] = e
           /\ Elements(Append(s, e)) = Elements(s) \cup {e}
<1>1. /\ Append(s, e) \in Seq(S)
      /\ Len(Append(s, e)) = Len(s) + 1
      /\ \A k \in 1 .. Len(s) : Append(s, e)[k] = s[k]
      /\ Append(s, e)[Len(s) + 1] = e
  OBVIOUS
<1>2. Elements(Append(s, e)) = Elements(s) \cup {e}
  BY <1>1 DEF Elements
<1>3. QED  BY <1>1, <1>2

\* Taking the front of a sequence, position by position.
LEMMA TailFacts ==
    ASSUME NEW S, NEW s \in Seq(S), s # <<>>
    PROVE  /\ Tail(s) \in Seq(S)
           /\ Len(s) \in Nat /\ Len(s) > 0
           /\ Len(Tail(s)) = Len(s) - 1
           /\ \A k \in 1 .. Len(s) - 1 : Tail(s)[k] = s[k + 1]
           /\ Head(s) = s[1] /\ Head(s) \in S /\ Head(s) \in Elements(s)
           /\ Elements(s) = Elements(Tail(s)) \cup {Head(s)}
<1>1. /\ Tail(s) \in Seq(S)
      /\ Len(s) \in Nat /\ Len(s) > 0
      /\ Len(Tail(s)) = Len(s) - 1
      /\ \A k \in 1 .. Len(s) - 1 : Tail(s)[k] = s[k + 1]
      /\ Head(s) = s[1] /\ Head(s) \in S
  OBVIOUS
<1>2. Head(s) \in Elements(s)
  BY <1>1 DEF Elements
<1>3. ASSUME NEW x \in Elements(s), x # Head(s)
      PROVE  x \in Elements(Tail(s))
  <2>1. PICK k \in 1 .. Len(s) : s[k] = x
    BY DEF Elements
  <2>2. k > 1
    BY <1>1, <1>3, <2>1
  <2>3. k - 1 \in 1 .. Len(Tail(s)) /\ Tail(s)[k - 1] = x
    BY <1>1, <2>1, <2>2
  <2>4. QED  BY <2>3 DEF Elements
<1>4. ASSUME NEW x \in Elements(Tail(s))
      PROVE  x \in Elements(s)
  <2>1. PICK k \in 1 .. Len(Tail(s)) : Tail(s)[k] = x
    BY DEF Elements
  <2>2. k + 1 \in 1 .. Len(s) /\ s[k + 1] = x
    BY <1>1, <2>1
  <2>3. QED  BY <2>2 DEF Elements
<1>5. QED  BY <1>1, <1>2, <1>3, <1>4

LEMMA ModFacts ==
    ASSUME NEW n \in Nat \ {0}, NEW x \in Nat
    PROVE  x % n \in 0 .. n - 1
  BY SMT

LEMMA ModSmall ==
    ASSUME NEW n \in Nat \ {0}, NEW x \in Nat, x < n
    PROVE  x % n = x
  BY SMT

LEMMA ModOnce ==
    ASSUME NEW n \in Nat \ {0}, NEW x \in Nat, n <= x, x < n + n
    PROVE  x % n = x - n
  BY SMT

\* A counter modulo n, one step on.
LEMMA ModNext ==
    ASSUME NEW n \in Nat \ {0}, NEW x \in Nat, x < n
    PROVE  (x + 1) % n = IF x + 1 = n THEN 0 ELSE x + 1
<1>1. CASE x + 1 = n
  BY <1>1, ModOnce
<1>2. CASE x + 1 # n
  BY <1>2, ModSmall
<1>3. QED  BY <1>1, <1>2

\* The unsigned difference of two readings of a counter modulo n.
LEMMA ModDifference ==
    ASSUME NEW n \in Nat \ {0}, NEW x \in Nat, x < n, NEW t \in Nat, t < n
    PROVE  (x + n - t) % n = IF x >= t THEN x - t ELSE x + n - t
<1> DEFINE y == x + n - t
<1>1. y \in Nat
  OBVIOUS
<1>2. CASE x >= t
  <2>1. n <= y /\ y < n + n
    BY <1>2
  <2>2. y - n = x - t
    OBVIOUS
  <2>3. y % n = y - n
    <3> HIDE DEF y
    <3>1. QED  BY <1>1, <2>1, ModOnce
  <2>4. QED  BY <1>2, <2>2, <2>3
<1>3. CASE ~(x >= t)
  <2>1. y < n
    BY <1>3
  <2>2. y % n = y
    <3> HIDE DEF y
    <3>1. QED  BY <1>1, <2>1, ModSmall
  <2>3. QED  BY <1>3, <2>2
<1>4. QED  BY <1>2, <1>3

\* The ranges of the constants, and the counters of the worker within them.
LEMMA LevelFacts ==
    /\ 0 \in Levels
    /\ \A q \in Levels : q + 1 < NumQueues => q + 1 \in Levels
    /\ \A q \in 0 .. NumQueues : q < NumQueues => q \in Levels
  BY DEF Levels

LEMMA SlotFacts ==
    /\ 0 \in Slots
    /\ \A s \in Slots : (s + 1) % Burst \in Slots
<1>1. ASSUME NEW s \in Slots PROVE (s + 1) % Burst \in Slots
  <2>1. s + 1 \in Nat
    BY DEF Slots
  <2>2. QED  BY <2>1, ModFacts DEF Slots
<1>2. QED  BY <1>1 DEF Slots

Ticks == 0 .. ClockMod - 1

LEMMA ClockFacts ==
    /\ 0 \in Ticks
    /\ \A t \in Ticks : (t + 1) % ClockMod \in Ticks
<1>1. ClockMod \in Nat \ {0}
  OBVIOUS
<1>2. ASSUME NEW t \in Ticks PROVE (t + 1) % ClockMod \in Ticks
  <2>1. t + 1 \in Nat
    BY DEF Ticks
  <2>2. QED  BY <1>1, <2>1, ModFacts DEF Ticks
<1>3. QED  BY <1>1, <1>2 DEF Ticks

Ages == [0 .. Burst -> 0 .. Interval]

LEMMA AgesFacts ==
    ASSUME ages \in Ages
    PROVE  /\ NoSends \in Ages
           /\ [k \in 0 .. Burst |-> IF k = 0 THEN 0 ELSE ages[k - 1]] \in Ages
           /\ [k \in 0 .. Burst |-> IF ages[k] = Interval THEN Interval
                                    ELSE ages[k] + 1] \in Ages
  BY DEF Ages, NoSends

Calls == [Publishers -> [event : Events \cup {NoEvent}, priority : Levels]]

LEMMA CallFacts ==
    /\ NoCall \in [event : Events \cup {NoEvent}, priority : Levels]
    /\ NoCall.event = NoEvent
  BY LevelFacts DEF NoCall

-----------------------------------------------------------------------------
(* Type correctness and the phases. *)

LEMMA InitInv == Init => Inv
<1> SUFFICES ASSUME Init PROVE Inv
  OBVIOUS
<1>1. TypeOK
  <2>1. queues \in [Levels -> Seq(Events)]
    BY DEF Init
  <2>2. call \in Calls
    BY CallFacts DEF Init, Calls
  <2>3. ages \in Ages
    BY DEF Init, NoSends, Ages
  <2>4. clock \in Ticks /\ now \in Ticks /\ sentAt \in [Slots -> Ticks]
    BY ClockFacts DEF Init
  <2>5. level \in Levels /\ slot \in Slots
    BY LevelFacts, SlotFacts DEF Init
  <2>6. calls \in [Events -> 0 .. 1] /\ late \subseteq Events
    BY DEF Init
  <2>7. running \in BOOLEAN /\ fault \in BOOLEAN
    BY DEF Init
  <2>8. /\ control \in {"idle", "joining", "cleaning"}
        /\ worker \in {"none", "polling", "scanning", "taken", "sending"}
        /\ sending \in Events \cup {NoEvent}
    BY DEF Init
  <2>9. QED  BY <2>1, <2>2, <2>3, <2>4, <2>5, <2>6, <2>7, <2>8
             DEF TypeOK, Calls, Ages, Ticks
<1>2. Phases
  BY DEF Init, Phases
<1>3. ExactlyOneCompletion
  BY CallFacts DEF Init, ExactlyOneCompletion, Held, HeldOnce, Offered, Queued, Elements
<1>4. QED  BY <1>1, <1>2, <1>3 DEF Inv

\* An event whose completion runs was owed one.
LEMMA CompleteType ==
    ASSUME TypeOK, NEW e \in Events, calls[e] = 0, Complete(e)
    PROVE  calls' \in [Events -> 0 .. 1]
  BY DEF TypeOK, Complete

LEMMA TypeStep == Inv /\ [Next]_vars => TypeOK'
<1> SUFFICES ASSUME TypeOK, Phases, ExactlyOneCompletion, [Next]_vars
             PROVE  TypeOK'
  BY DEF Inv
<1> USE DEF TypeOK, workerVars
<1>1. ASSUME NEW p \in Publishers, NEW e \in Events, NEW q \in 0 .. NumQueues,
             Offer(p, e, q)
      PROVE  TypeOK'
  <2>1. CASE running /\ q < NumQueues
    <3>1. [event |-> e, priority |-> q] \in [event : Events \cup {NoEvent}, priority : Levels]
      BY <2>1, LevelFacts
    <3>2. /\ call' = [call EXCEPT ![p] = [event |-> e, priority |-> q]]
          /\ calls' = [calls EXCEPT ![e] = 0]
          /\ UNCHANGED fault
      BY <1>1, <2>1 DEF Offer
    <3>3. call' \in Calls
      BY <3>1, <3>2 DEF Calls
    <3>4. calls' \in [Events -> 0 .. 1]
      BY <3>2
    <3>5. QED  BY <1>1, <3>2, <3>3, <3>4 DEF Offer, Calls
  <2>2. CASE ~(running /\ q < NumQueues)
    <3>1. RefuseOffered(e) /\ UNCHANGED call
      BY <1>1, <2>2 DEF Offer
    <3>2. fault' \in BOOLEAN /\ UNCHANGED calls
      BY <3>1 DEF RefuseOffered
    <3>3. QED  BY <1>1, <3>1, <3>2 DEF Offer
  <2>3. QED  BY <2>1, <2>2
<1>2. ASSUME NEW p \in Publishers, RefuseBusy(p)
      PROVE  TypeOK'
  <2>1. call[p].event \in Events
    BY <1>2 DEF RefuseBusy
  <2>2. calls[call[p].event] = 0
    BY <2>1 DEF ExactlyOneCompletion, Held, Offered
  <2>3. calls' \in [Events -> 0 .. 1]
    BY <1>2, <2>1, <2>2, CompleteType DEF RefuseBusy
  <2>4. QED  BY <1>2, <2>3, CallFacts DEF RefuseBusy
<1>3. ASSUME NEW p \in Publishers, Enqueue(p)
      PROVE  TypeOK'
  <2>1. call[p].event \in Events /\ call[p].priority \in Levels
    BY <1>3 DEF Enqueue
  <2>2. Append(queues[call[p].priority], call[p].event) \in Seq(Events)
    BY <2>1, AppendFacts
  <2>3. queues' \in [Levels -> Seq(Events)]
    BY <1>3, <2>1, <2>2 DEF Enqueue, Entered
  <2>4. QED  BY <1>3, <2>1, <2>3, CallFacts DEF Enqueue
<1>4. CASE Start
  <2>1. slot' \in Slots /\ sentAt' \in [Slots -> 0 .. ClockMod - 1] /\ ages' \in Ages
    BY <1>4, SlotFacts, ClockFacts, AgesFacts DEF Start, Ticks, Ages
  <2>2. QED  BY <1>4, <2>1 DEF Start, Ages
<1>5. CASE Stop
  BY <1>5 DEF Stop
<1>6. CASE Join
  BY <1>6 DEF Join
<1>7. CASE CleanupDone
  BY <1>7 DEF CleanupDone
<1>8. ASSUME NEW q \in Levels, CancelFront(q)
      PROVE  TypeOK'
  <2>1. /\ Tail(queues[q]) \in Seq(Events)
        /\ Head(queues[q]) \in Events
        /\ Head(queues[q]) \in Elements(queues[q])
    BY <1>8, TailFacts DEF CancelFront
  <2>2. calls[Head(queues[q])] = 0
    BY <2>1 DEF ExactlyOneCompletion, Held, Queued
  <2>3. calls' \in [Events -> 0 .. 1]
    BY <1>8, <2>1, <2>2, CompleteType DEF CancelFront
  <2>4. QED  BY <1>8, <2>1, <2>3 DEF CancelFront
<1>9. CASE WorkerExit
  BY <1>9 DEF WorkerExit
<1>10. CASE WorkerPoll
  BY <1>10, LevelFacts DEF WorkerPoll, FirstLevel
<1>11. CASE WorkerSkip
  <2>1. level' \in Levels /\ worker' \in {"scanning", "polling"}
    BY <1>11, LevelFacts DEF WorkerSkip
  <2>2. QED  BY <1>11, <2>1 DEF WorkerSkip
<1>12. CASE WorkerTake
  <2>1. Tail(queues[level]) \in Seq(Events) /\ Head(queues[level]) \in Events
    BY <1>12, TailFacts DEF WorkerTake
  <2>2. slot' \in Slots
    BY <1>12, SlotFacts DEF WorkerTake
  <2>3. QED  BY <1>12, <2>1, <2>2 DEF WorkerTake
<1>13. CASE WorkerSend
  <2>1. ages' \in Ages
    BY <1>13, AgesFacts DEF WorkerSend, Ages
  <2>2. QED  BY <1>13, <2>1 DEF WorkerSend, Ages
<1>14. CASE WorkerDone
  <2>1. sending \in Events /\ calls[sending] = 0
    BY <1>14 DEF WorkerDone, Phases, ExactlyOneCompletion, Held
  <2>2. calls' \in [Events -> 0 .. 1]
    BY <1>14, <2>1, CompleteType DEF WorkerDone
  <2>3. QED  BY <1>14, <2>2 DEF WorkerDone
<1>15. CASE Tick
  <2>1. clock' \in 0 .. ClockMod - 1
    BY <1>15, ClockFacts DEF Tick, Ticks
  <2>2. ages' \in Ages
    BY <1>15, AgesFacts DEF Tick, Ages
  <2>3. QED  BY <1>15, <2>1, <2>2 DEF Tick, Ages
<1>16. CASE Aborted
  BY <1>16 DEF Aborted, vars
<1>17. CASE UNCHANGED vars
  BY <1>17 DEF vars
<1>18. QED
  BY <1>1, <1>2, <1>3, <1>4, <1>5, <1>6, <1>7, <1>8, <1>9, <1>10, <1>11, <1>12,
     <1>13, <1>14, <1>15, <1>16, <1>17 DEF Next

LEMMA PhasesStep == Inv /\ [Next]_vars => Phases'
<1> SUFFICES ASSUME Inv, [Next]_vars PROVE Phases'
  OBVIOUS
<1> USE DEF Inv, Phases, workerVars
<1>1. CASE WorkerTake
  <2>1. Head(queues[level]) \in Events
    BY <1>1, TailFacts DEF WorkerTake, TypeOK
  <2>2. QED  BY <1>1, <2>1 DEF WorkerTake
<1>2. CASE UNCHANGED vars
  BY <1>2 DEF vars
<1>3. QED
  BY <1>1, <1>2 DEF Next, Offer, RefuseBusy, Enqueue, Start, Stop, Join, Joined,
     CleanupDone, CancelFront, WorkerExit, WorkerPoll, WorkerSkip, WorkerSend,
     WorkerDone, Tick, Aborted, vars

-----------------------------------------------------------------------------
(* One completion per event. *)

\* What ExactlyOneCompletion says of one event.
Custody(e) == (calls[e] = 0 <=> Held(e)) /\ HeldOnce(e)

\* A step that leaves the holders of events alone leaves custody alone.
LEMMA CustodyUnchanged ==
    ASSUME NEW e \in Events, Custody(e), UNCHANGED <<queues, call, sending, calls>>
    PROVE  Custody(e)'
  BY DEF Custody, Held, HeldOnce, Offered, Queued, Elements

LEMMA CustodyOffer ==
    ASSUME Inv, NEW p \in Publishers, NEW x \in Events, NEW q \in 0 .. NumQueues,
           Offer(p, x, q), NEW e \in Events
    PROVE  Custody(e)'
<1>1. Custody(e) /\ Custody(x)
  BY DEF Inv, ExactlyOneCompletion, Custody
<1>2. CASE running /\ q < NumQueues
  <2>1. /\ call' = [call EXCEPT ![p] = [event |-> x, priority |-> q]]
        /\ calls' = [calls EXCEPT ![x] = 0]
        /\ UNCHANGED <<queues, sending>>
        /\ call[p].event = NoEvent
        /\ calls[x] = 1
    BY <1>2 DEF Offer, workerVars
  <2>2. ~Held(x)
    BY <1>1, <2>1 DEF Custody
  <2>3. \A r \in Publishers : call'[r].event = IF r = p THEN x ELSE call[r].event
    BY <2>1 DEF Inv, TypeOK
  <2>4. Queued(e)' <=> Queued(e)
    BY <2>1 DEF Queued, Elements
  <2>5. calls'[e] = IF e = x THEN 0 ELSE calls[e]
    BY <2>1 DEF Inv, TypeOK
  <2>6. Offered(e)' <=> (Offered(e) \/ e = x)
    BY <2>1, <2>3 DEF Offered
  <2>7. HeldOnce(e)'
    <3>1. \A r, s \in Publishers : call'[r].event = e /\ call'[s].event = e => r = s
      BY <1>1, <2>2, <2>3 DEF Custody, HeldOnce, Held, Offered
    <3>2. QED  BY <1>1, <2>1, <2>2, <2>4, <2>6, <3>1 DEF Custody, HeldOnce, Held
  <2>8. QED  BY <1>1, <2>1, <2>4, <2>5, <2>6, <2>7 DEF Custody, Held
<1>3. CASE ~(running /\ q < NumQueues)
  <2>1. RefuseOffered(x) /\ UNCHANGED <<queues, call, sending>>
    BY <1>3 DEF Offer, workerVars
  <2>2. QED  BY <1>1, <2>1, CustodyUnchanged DEF RefuseOffered
<1>4. QED  BY <1>2, <1>3

LEMMA CustodyRefuseBusy ==
    ASSUME Inv, NEW p \in Publishers, RefuseBusy(p), NEW e \in Events
    PROVE  Custody(e)'
<1> DEFINE x == call[p].event
<1>1. x \in Events
  BY DEF RefuseBusy, Inv, TypeOK
<1>2. Custody(e) /\ Custody(x)
  BY <1>1 DEF Inv, ExactlyOneCompletion, Custody
<1>3. calls[x] = 0 /\ Offered(x)
  BY <1>2 DEF Custody, Held, Offered
<1>4. /\ call' = [call EXCEPT ![p] = NoCall]
      /\ calls' = [calls EXCEPT ![x] = @ + 1]
      /\ UNCHANGED <<queues, sending>>
  BY DEF RefuseBusy, Complete, workerVars
<1>5. \A r \in Publishers : call'[r].event = IF r = p THEN NoEvent ELSE call[r].event
  BY <1>4, CallFacts DEF Inv, TypeOK
<1>6. calls'[e] = IF e = x THEN 1 ELSE calls[e]
  BY <1>1, <1>3, <1>4 DEF Inv, TypeOK
<1>7. Queued(e)' <=> Queued(e)
  BY <1>4 DEF Queued, Elements
<1>8. Offered(e)' <=> (Offered(e) /\ e # x)
  BY <1>2, <1>5 DEF Offered, Custody, HeldOnce
<1>9. HeldOnce(e)'
  <2>1. \A r, s \in Publishers : call'[r].event = e /\ call'[s].event = e => r = s
    BY <1>2, <1>5 DEF Custody, HeldOnce
  <2>2. QED  BY <1>2, <1>4, <1>7, <1>8, <2>1 DEF Custody, HeldOnce
<1>10. QED  BY <1>2, <1>3, <1>4, <1>6, <1>7, <1>8, <1>9 DEF Custody, Held, HeldOnce

LEMMA CustodyEnqueue ==
    ASSUME Inv, NEW p \in Publishers, Enqueue(p), NEW e \in Events
    PROVE  Custody(e)'
<1> DEFINE x == call[p].event
           l == call[p].priority
<1>1. x \in Events /\ l \in Levels /\ queues[l] \in Seq(Events)
  BY DEF Enqueue, Inv, TypeOK
<1>2. Custody(e) /\ Custody(x)
  BY <1>1 DEF Inv, ExactlyOneCompletion, Custody
<1>3. Offered(x) /\ ~Queued(x) /\ sending # x
  BY <1>2 DEF Custody, Held, HeldOnce, Offered
<1>4. /\ call' = [call EXCEPT ![p] = NoCall]
      /\ queues' = [queues EXCEPT ![l] = Append(@, x)]
      /\ UNCHANGED <<calls, sending>>
  BY DEF Enqueue, Entered, workerVars
<1>5. \A r \in Publishers : call'[r].event = IF r = p THEN NoEvent ELSE call[r].event
  BY <1>4, CallFacts DEF Inv, TypeOK
<1>6. Offered(e)' <=> (Offered(e) /\ e # x)
  BY <1>2, <1>5 DEF Offered, Custody, HeldOnce
<1>7. \A q \in Levels : queues'[q] = IF q = l THEN Append(queues[l], x) ELSE queues[q]
  BY <1>1, <1>4 DEF Inv, TypeOK
<1>8. /\ Len(Append(queues[l], x)) = Len(queues[l]) + 1
      /\ \A k \in 1 .. Len(queues[l]) : Append(queues[l], x)[k] = queues[l][k]
      /\ Append(queues[l], x)[Len(queues[l]) + 1] = x
      /\ Elements(Append(queues[l], x)) = Elements(queues[l]) \cup {x}
      /\ Len(queues[l]) \in Nat
  BY <1>1, AppendFacts
<1>9. Queued(e)' <=> (Queued(e) \/ e = x)
  <2>1. Queued(e)' <=> \E q \in Levels : e \in Elements(queues'[q])
    BY DEF Queued, Elements
  <2>2. QED  BY <1>1, <1>7, <1>8, <2>1 DEF Queued
<1>10. HeldOnce(e)'
  <2> DEFINE Old(q, k) == k \in 1 .. Len(queues[q]) /\ queues[q][k] = e
             New(q, k) == e = x /\ q = l /\ k = Len(queues[l]) + 1
  <2>1. ASSUME NEW q \in Levels, NEW k \in 1 .. Len(queues'[q]), queues'[q][k] = e
        PROVE  Old(q, k) \/ New(q, k)
    <3>1. CASE q = l
      <4>1. k \in 1 .. Len(queues[l]) + 1 /\ Append(queues[l], x)[k] = e
        BY <1>7, <1>8, <2>1, <3>1
      <4>2. CASE k = Len(queues[l]) + 1
        BY <1>8, <3>1, <4>1, <4>2
      <4>3. CASE k # Len(queues[l]) + 1
        <5>1. k \in 1 .. Len(queues[l])
          BY <1>8, <4>1, <4>3
        <5>2. QED  BY <1>8, <3>1, <4>1, <5>1
      <4>4. QED  BY <4>2, <4>3
    <3>2. CASE q # l
      BY <1>7, <2>1, <3>2
    <3>3. QED  BY <3>1, <3>2
  <2>2. ASSUME NEW q \in Levels, NEW r \in Levels,
               NEW k \in 1 .. Len(queues'[q]), NEW m \in 1 .. Len(queues'[r]),
               queues'[q][k] = e, queues'[r][m] = e
        PROVE  q = r /\ k = m
    <3>1. (Old(q, k) \/ New(q, k)) /\ (Old(r, m) \/ New(r, m))
      BY <2>1, <2>2
    <3>2. e = x => ~Old(q, k) /\ ~Old(r, m)
      BY <1>3 DEF Queued, Elements
    <3>3. Old(q, k) /\ Old(r, m) => q = r /\ k = m
      BY <1>2 DEF Custody, HeldOnce
    <3>4. QED  BY <3>1, <3>2, <3>3
  <2>3. \A r, s \in Publishers : call'[r].event = e /\ call'[s].event = e => r = s
    BY <1>2, <1>5 DEF Custody, HeldOnce
  <2>4. /\ Queued(e)' => ~Offered(e)'
        /\ sending' = e => ~Offered(e)' /\ ~Queued(e)'
    BY <1>2, <1>3, <1>4, <1>6, <1>9 DEF Custody, HeldOnce
  <2>5. QED  BY <2>2, <2>3, <2>4 DEF HeldOnce
<1>11. QED  BY <1>2, <1>3, <1>4, <1>6, <1>9, <1>10 DEF Custody, Held

\* Popping the front of a queue.
LEMMA CustodyPop ==
    ASSUME Inv, NEW l \in Levels, queues[l] # <<>>,
           queues' = [queues EXCEPT ![l] = Tail(@)], NEW e \in Events
    PROVE  /\ Head(queues[l]) \in Events /\ Queued(Head(queues[l]))
           /\ Queued(e)' <=> (Queued(e) /\ e # Head(queues[l]))
           /\ \A q, r \in Levels :
                 \A k \in 1 .. Len(queues'[q]), m \in 1 .. Len(queues'[r]) :
                    queues'[q][k] = e /\ queues'[r][m] = e => q = r /\ k = m
<1> DEFINE x == Head(queues[l])
<1>1. queues[l] \in Seq(Events)
  BY DEF Inv, TypeOK
<1>2. /\ x \in Events /\ x = queues[l][1] /\ x \in Elements(queues[l])
      /\ Len(queues[l]) \in Nat /\ Len(queues[l]) > 0
      /\ Len(Tail(queues[l])) = Len(queues[l]) - 1
      /\ \A k \in 1 .. Len(queues[l]) - 1 : Tail(queues[l])[k] = queues[l][k + 1]
      /\ Elements(queues[l]) = Elements(Tail(queues[l])) \cup {x}
  BY <1>1, TailFacts
<1>3. Custody(e) /\ Custody(x)
  BY <1>2 DEF Inv, ExactlyOneCompletion, Custody
<1>4. Queued(x)
  BY <1>2 DEF Queued
<1>5. \A q \in Levels : queues'[q] = IF q = l THEN Tail(queues[l]) ELSE queues[q]
  BY DEF Inv, TypeOK
<1>6. x \notin Elements(Tail(queues[l]))
  <2>1. ASSUME NEW k \in 1 .. Len(Tail(queues[l])), Tail(queues[l])[k] = x
        PROVE  FALSE
    <3>1. k + 1 \in 1 .. Len(queues[l]) /\ queues[l][k + 1] = x /\ 1 \in 1 .. Len(queues[l])
      BY <1>2, <2>1
    <3>2. k + 1 = 1
      BY <1>2, <1>3, <3>1 DEF Custody, HeldOnce
    <3>3. QED  BY <3>2
  <2>2. QED  BY <2>1 DEF Elements
<1>7. \A q \in Levels : q # l => x \notin Elements(queues[q])
  <2>1. ASSUME NEW q \in Levels, q # l, NEW k \in 1 .. Len(queues[q]), queues[q][k] = x
        PROVE  FALSE
    <3>1. 1 \in 1 .. Len(queues[l])
      BY <1>2
    <3>2. QED  BY <1>2, <1>3, <2>1, <3>1 DEF Custody, HeldOnce
  <2>2. QED  BY <2>1 DEF Elements
<1>8. Queued(e)' <=> \E q \in Levels : e \in Elements(queues'[q])
  BY DEF Queued, Elements
<1>9. Queued(e)' <=> (Queued(e) /\ e # x)
  BY <1>2, <1>5, <1>6, <1>7, <1>8 DEF Queued
<1>10. ASSUME NEW q \in Levels, NEW k \in 1 .. Len(queues'[q]), queues'[q][k] = e
       PROVE  LET n == IF q = l THEN k + 1 ELSE k
              IN  n \in 1 .. Len(queues[q]) /\ queues[q][n] = e
  <2>1. CASE q = l
    <3>1. k \in 1 .. Len(queues[l]) - 1 /\ Tail(queues[l])[k] = e
      BY <1>2, <1>5, <1>10, <2>1
    <3>2. k + 1 \in 1 .. Len(queues[l]) /\ queues[l][k + 1] = e
      BY <1>2, <3>1
    <3>3. QED  BY <2>1, <3>2
  <2>2. CASE q # l
    BY <1>5, <1>10, <2>2
  <2>3. QED  BY <2>1, <2>2
<1>11. \A q, r \in Levels :
           \A k \in 1 .. Len(queues'[q]), m \in 1 .. Len(queues'[r]) :
              queues'[q][k] = e /\ queues'[r][m] = e => q = r /\ k = m
  <2>1. TAKE q, r \in Levels
  <2>2. TAKE k \in 1 .. Len(queues'[q]), m \in 1 .. Len(queues'[r])
  <2>3. HAVE queues'[q][k] = e /\ queues'[r][m] = e
  <2>4. q = r /\ (IF q = l THEN k + 1 ELSE k) = (IF r = l THEN m + 1 ELSE m)
    BY <1>3, <1>10, <2>3 DEF Custody, HeldOnce
  <2>5. k \in Nat /\ m \in Nat
    OBVIOUS
  <2>6. QED  BY <2>4, <2>5
<1>12. QED  BY <1>2, <1>4, <1>9, <1>11

LEMMA CustodyCancelFront ==
    ASSUME Inv, NEW q \in Levels, CancelFront(q), NEW e \in Events
    PROVE  Custody(e)'
<1> DEFINE x == Head(queues[q])
<1>1. /\ queues[q] # <<>>
      /\ queues' = [queues EXCEPT ![q] = Tail(@)]
      /\ calls' = [calls EXCEPT ![x] = @ + 1]
      /\ UNCHANGED <<call, sending>>
  BY DEF CancelFront, Complete, workerVars
<1>2. x \in Events /\ Queued(x) /\ (Queued(e)' <=> (Queued(e) /\ e # x))
  BY <1>1, CustodyPop
<1>3. Custody(e) /\ Custody(x)
  BY <1>2 DEF Inv, ExactlyOneCompletion, Custody
<1>4. calls[x] = 0 /\ ~Offered(x) /\ sending # x
  BY <1>2, <1>3 DEF Custody, Held, HeldOnce
<1>5. calls'[e] = IF e = x THEN 1 ELSE calls[e]
  BY <1>1, <1>2, <1>4 DEF Inv, TypeOK
<1>6. Offered(e)' <=> Offered(e)
  BY <1>1 DEF Offered
<1>7. HeldOnce(e)'
  <2>1. \A r, s \in Levels :
           \A k \in 1 .. Len(queues'[r]), m \in 1 .. Len(queues'[s]) :
              queues'[r][k] = e /\ queues'[s][m] = e => r = s /\ k = m
    BY <1>1, CustodyPop, ZenonT(40)
  <2>2. QED  BY <1>1, <1>2, <1>3, <1>6, <2>1 DEF Custody, HeldOnce
<1>8. QED  BY <1>1, <1>2, <1>3, <1>4, <1>5, <1>6, <1>7 DEF Custody, Held

LEMMA CustodyWorkerTake ==
    ASSUME Inv, WorkerTake, NEW e \in Events
    PROVE  Custody(e)'
<1> DEFINE x == Head(queues[level])
<1>1. /\ level \in Levels /\ queues[level] # <<>>
      /\ queues' = [queues EXCEPT ![level] = Tail(@)]
      /\ sending' = x
      /\ sending = NoEvent
      /\ UNCHANGED <<call, calls>>
  BY DEF WorkerTake, Inv, TypeOK, Phases
<1>2. x \in Events /\ Queued(x) /\ (Queued(e)' <=> (Queued(e) /\ e # x))
  BY <1>1, CustodyPop
<1>3. Custody(e) /\ Custody(x)
  BY <1>2 DEF Inv, ExactlyOneCompletion, Custody
<1>4. ~Offered(x) /\ (Offered(e)' <=> Offered(e)) /\ e # NoEvent
  BY <1>1, <1>2, <1>3 DEF Custody, HeldOnce, Offered
<1>5. \A r, s \in Levels :
         \A k \in 1 .. Len(queues'[r]), m \in 1 .. Len(queues'[s]) :
            queues'[r][k] = e /\ queues'[s][m] = e => r = s /\ k = m
  BY <1>1, CustodyPop, ZenonT(40)
<1>6. HeldOnce(e)'
  BY <1>1, <1>2, <1>3, <1>4, <1>5 DEF Custody, HeldOnce
<1>7. QED  BY <1>1, <1>2, <1>3, <1>4, <1>6 DEF Custody, Held

LEMMA CustodyWorkerDone ==
    ASSUME Inv, WorkerDone, NEW e \in Events
    PROVE  Custody(e)'
<1>1. /\ sending \in Events
      /\ sending' = NoEvent
      /\ calls' = [calls EXCEPT ![sending] = @ + 1]
      /\ UNCHANGED <<queues, call>>
  BY DEF WorkerDone, Complete, Inv, TypeOK, Phases
<1>2. Custody(e) /\ Custody(sending)
  BY <1>1 DEF Inv, ExactlyOneCompletion, Custody
<1>3. calls[sending] = 0
  BY <1>2 DEF Custody, Held
<1>4. calls'[e] = IF e = sending THEN 1 ELSE calls[e]
  BY <1>1, <1>3 DEF Inv, TypeOK
<1>5. (Offered(e)' <=> Offered(e)) /\ (Queued(e)' <=> Queued(e)) /\ e # NoEvent
  BY <1>1 DEF Offered, Queued, Elements
<1>6. HeldOnce(e)'
  BY <1>1, <1>2, <1>5 DEF Custody, HeldOnce
<1>7. QED  BY <1>1, <1>2, <1>3, <1>4, <1>5, <1>6 DEF Custody, Held, HeldOnce

LEMMA CustodyStep == Inv /\ [Next]_vars => ExactlyOneCompletion'
<1> SUFFICES ASSUME Inv, [Next]_vars, NEW e \in Events PROVE Custody(e)'
  BY DEF ExactlyOneCompletion, Custody
<1>1. Custody(e)
  BY DEF Inv, ExactlyOneCompletion, Custody
<1>2. CASE Start \/ Stop \/ Join \/ CleanupDone \/ WorkerExit \/ WorkerPoll
           \/ WorkerSkip \/ WorkerSend \/ Tick \/ Aborted \/ UNCHANGED vars
  <2>1. UNCHANGED <<queues, call, sending, calls>>
    BY <1>2 DEF Start, Stop, Join, CleanupDone, WorkerExit, WorkerPoll, WorkerSkip,
                WorkerSend, Tick, Aborted, vars, workerVars
  <2>2. QED  BY <1>1, <2>1, CustodyUnchanged
<1>3. ASSUME NEW p \in Publishers, NEW x \in Events, NEW q \in 0 .. NumQueues,
             Offer(p, x, q)
      PROVE  Custody(e)'
  BY <1>3, CustodyOffer
<1>4. ASSUME NEW p \in Publishers, RefuseBusy(p) \/ Enqueue(p)
      PROVE  Custody(e)'
  BY <1>4, CustodyRefuseBusy, CustodyEnqueue
<1>5. ASSUME NEW q \in Levels, CancelFront(q)
      PROVE  Custody(e)'
  BY <1>5, CustodyCancelFront
<1>6. CASE WorkerTake
  BY <1>6, CustodyWorkerTake
<1>7. CASE WorkerDone
  BY <1>7, CustodyWorkerDone
<1>8. QED  BY <1>2, <1>3, <1>4, <1>5, <1>6, <1>7 DEF Next

-----------------------------------------------------------------------------

\* The inductive invariant holds of every behaviour.
THEOREM Invariance == Spec => []Inv
<1>1. Init => Inv
  BY InitInv
<1>2. Inv /\ [Next]_vars => Inv'
  BY TypeStep, PhasesStep, CustodyStep DEF Inv
<1>3. QED  BY <1>1, <1>2, PTL DEF Spec

\* Every variable keeps its type: in particular no event is completed twice.
THEOREM TypeCorrect == Spec => []TypeOK
<1>1. Inv => TypeOK
  BY DEF Inv
<1>2. QED  BY <1>1, Invariance, PTL

\* Whatever publish(), the worker and stop() do in whatever order, each event
\* is in exactly one place until its one completion and in none after it.
THEOREM OneCompletion == Spec => []ExactlyOneCompletion
<1>1. Inv => ExactlyOneCompletion
  BY DEF Inv
<1>2. QED  BY <1>1, Invariance, PTL

-----------------------------------------------------------------------------
(* Capacity and priority. *)

LEMMA CapacityStep ==
    Inv /\ CapacityBound /\ [Next]_vars => CapacityBound'
<1> SUFFICES ASSUME Inv, CapacityBound, [Next]_vars, NEW q \in Levels
             PROVE  Len(queues'[q]) <= MaxEntries
  BY DEF CapacityBound
<1> USE DEF Inv, TypeOK, CapacityBound
<1>1. ASSUME NEW p \in Publishers, Enqueue(p)
      PROVE  Len(queues'[q]) <= MaxEntries
  <2> DEFINE l == call[p].priority
             x == call[p].event
  <2>1. l \in Levels /\ x \in Events /\ Len(queues[l]) < MaxEntries
    BY <1>1 DEF Enqueue, Full
  <2>2. Len(Append(queues[l], x)) = Len(queues[l]) + 1
    BY <2>1, AppendFacts
  <2>3. queues'[q] = IF q = l THEN Append(queues[l], x) ELSE queues[q]
    BY <1>1, <2>1 DEF Enqueue, Entered
  <2>4. QED  BY <2>1, <2>2, <2>3
<1>2. ASSUME NEW l \in Levels, queues[l] # <<>>,
             queues' = [queues EXCEPT ![l] = Tail(@)]
      PROVE  Len(queues'[q]) <= MaxEntries
  <2>1. Len(Tail(queues[l])) <= Len(queues[l])
    BY <1>2, TailFacts
  <2>2. QED  BY <1>2, <2>1
<1>3. CASE UNCHANGED queues
  BY <1>3
<1>4. QED
  BY <1>1, <1>2, <1>3 DEF Next, Offer, RefuseBusy, Start, Stop, Join, CleanupDone,
     CancelFront, WorkerExit, WorkerPoll, WorkerSkip, WorkerTake, WorkerSend,
     WorkerDone, Tick, Aborted, vars, workerVars

\* However many callers passed the first checks at once, no queue exceeds
\* maxEntries: the size is tested under the lock that covers the enqueue.
THEOREM Capacity == Spec => []CapacityBound
<1>1. Init => CapacityBound
  BY DEF Init, CapacityBound
<1>2. QED  BY <1>1, CapacityStep, Invariance, PTL DEF Spec

\* While the worker looks at one level, the more urgent ones hold only events
\* that were enqueued since its pass began.
ScannedLevels ==
    worker = "scanning" => \A q \in Levels : q < level => Elements(queues[q]) \subseteq late

LEMMA ScanStep == Inv /\ ScannedLevels /\ [Next]_vars => ScannedLevels'
<1> SUFFICES ASSUME Inv, ScannedLevels, [Next]_vars, (worker = "scanning")',
                    NEW q \in Levels, q < level'
             PROVE  Elements(queues'[q]) \subseteq late'
  BY DEF ScannedLevels, Levels, Elements
<1> USE DEF Inv, TypeOK
<1>1. ASSUME NEW p \in Publishers, Enqueue(p)
      PROVE  Elements(queues'[q]) \subseteq late'
  <2> DEFINE l == call[p].priority
             x == call[p].event
  <2>1. l \in Levels /\ x \in Events
    BY <1>1 DEF Enqueue
  <2>2. Elements(Append(queues[l], x)) = Elements(queues[l]) \cup {x}
    BY <2>1, AppendFacts
  <2>3. queues'[q] = IF q = l THEN Append(queues[l], x) ELSE queues[q]
    BY <1>1, <2>1 DEF Enqueue, Entered
  <2>4. Elements(queues[q]) \subseteq late /\ late' = late \cup {x}
    BY <1>1 DEF Enqueue, workerVars, ScannedLevels
  <2>5. QED  BY <2>2, <2>3, <2>4
<1>2. CASE WorkerPoll
  BY <1>2 DEF WorkerPoll, FirstLevel, Levels
<1>3. CASE WorkerSkip
  <2>1. /\ worker = "scanning" /\ queues[level] = <<>>
        /\ level' = level + 1
        /\ UNCHANGED <<queues, late>>
    BY <1>3 DEF WorkerSkip
  <2>2. q < level \/ q = level
    BY <2>1 DEF Levels
  <2>3. CASE q < level
    BY <2>1, <2>3 DEF ScannedLevels
  <2>4. CASE q = level
    BY <2>1, <2>4 DEF Elements
  <2>5. QED  BY <2>2, <2>3, <2>4
<1>4. ASSUME NEW l \in Levels, CancelFront(l)
      PROVE  Elements(queues'[q]) \subseteq late'
  BY <1>4 DEF CancelFront, workerVars, Phases
<1>5. CASE UNCHANGED <<queues, late, worker, level>>
  BY <1>5 DEF ScannedLevels
<1>6. QED
  BY <1>1, <1>2, <1>3, <1>4, <1>5 DEF Next, Offer, RefuseBusy, Start, Stop, Join,
     CleanupDone, WorkerExit, WorkerTake, WorkerSend, WorkerDone, Tick, Aborted,
     vars, workerVars

\* An event overtakes a more urgent one only if that one came after the pass
\* over the queues began.
THEOREM Priority == Spec => PriorityRespected
<1>1. Init => ScannedLevels
  BY DEF Init, ScannedLevels
<1>2. ScannedLevels /\ [Next]_vars
      => [WorkerTake => \A q \in Levels : q < level => Elements(queues[q]) \subseteq late]_vars
  BY DEF ScannedLevels, WorkerTake
<1>3. QED  BY <1>1, <1>2, ScanStep, Invariance, PTL DEF Spec, PriorityRespected

-----------------------------------------------------------------------------
(* The burst bound. *)

\* The slot of the k-th last recorded send (0 is the last).
SlotOf(k) == IF k < slot THEN slot - 1 - k ELSE slot - 1 - k + Burst

\* The k-th last cloud publish started no later than t was read.
StartedBy(k, t) == ages[k] = Interval \/ ages[k] >= Elapsed(t)

\* A time is read only after the send before it has started.  Between taking
\* and sending, the last record belongs to a send that is still to start.
RateInv ==
    /\ worker \in {"scanning", "taken"} => ages[Burst] = Interval
    /\ worker = "scanning" => StartedBy(0, now)
    /\ worker = "taken" =>
          \A k \in 0 .. Burst - 1 : StartedBy(k, sentAt[SlotOf(k)])
    /\ worker # "taken" =>
          \A k \in 0 .. Burst - 1 : StartedBy(k + 1, sentAt[SlotOf(k)])

LEMMA ElapsedFacts ==
    ASSUME clock \in Ticks, NEW t \in Ticks
    PROVE  Elapsed(t) = IF clock >= t THEN clock - t ELSE clock + ClockMod - t
<1>1. /\ clock \in Nat /\ t \in Nat /\ clock < ClockMod /\ t < ClockMod
      /\ ClockMod \in Nat \ {0}
  BY DEF Ticks
<1>2. QED  BY <1>1, ModDifference DEF Elapsed

\* One tick adds at most one to an elapsed time; a wrap only shortens it.
LEMMA ElapsedTick ==
    ASSUME clock \in Ticks, clock' = (clock + 1) % ClockMod, NEW t \in Ticks
    PROVE  Elapsed(t)' <= Elapsed(t) + 1 /\ Elapsed(t) \in Nat /\ Elapsed(t)' \in Nat
<1>1. /\ clock \in Nat /\ t \in Nat /\ clock < ClockMod /\ t < ClockMod
      /\ ClockMod \in Nat \ {0}
  BY DEF Ticks
<1>2. clock' = IF clock + 1 = ClockMod THEN 0 ELSE clock + 1
  BY <1>1, ModNext
<1>3. clock' \in Ticks
  BY <1>1, <1>2 DEF Ticks
<1>4. Elapsed(t)' = IF clock' >= t THEN clock' - t ELSE clock' + ClockMod - t
  <2>1. clock' \in Nat /\ clock' < ClockMod
    BY <1>1, <1>3 DEF Ticks
  <2>2. (clock' + ClockMod - t) % ClockMod
          = IF clock' >= t THEN clock' - t ELSE clock' + ClockMod - t
    BY <1>1, <2>1, ModDifference
  <2>3. QED  BY <2>2 DEF Elapsed
<1>5. Elapsed(t) = IF clock >= t THEN clock - t ELSE clock + ClockMod - t
  BY <1>1, ElapsedFacts DEF Ticks
<1>6. QED  BY <1>1, <1>2, <1>4, <1>5

LEMMA SlotOfFacts ==
    ASSUME slot \in Slots
    PROVE  /\ \A k \in 0 .. Burst - 1 : SlotOf(k) \in Slots
           /\ SlotOf(Burst - 1) = slot
  BY DEF SlotOf, Slots

\* Recording a send shifts the record by one.
LEMMA SlotOfNext ==
    ASSUME slot \in Slots, slot' = (slot + 1) % Burst
    PROVE  /\ SlotOf(0)' = slot
           /\ \A k \in 1 .. Burst - 1 : SlotOf(k)' = SlotOf(k - 1) /\ SlotOf(k - 1) # slot
<1>1. slot \in Nat /\ slot < Burst /\ Burst \in Nat \ {0}
  BY DEF Slots
<1>2. slot' = IF slot + 1 = Burst THEN 0 ELSE slot + 1
  BY <1>1, ModNext
<1>3. QED  BY <1>1, <1>2 DEF SlotOf

LEMMA RateStep == Inv /\ RateInv /\ [Next]_vars => RateInv'
<1> SUFFICES ASSUME TypeOK, RateInv, [Next]_vars PROVE RateInv'
  BY DEF Inv
<1> DEFINE K == 0 .. Burst - 1
<1>1. /\ clock \in Ticks /\ now \in Ticks /\ slot \in Slots
      /\ sentAt \in [Slots -> Ticks] /\ ages \in Ages
      /\ \A k \in K : SlotOf(k) \in Slots /\ sentAt[SlotOf(k)] \in Ticks
  BY SlotOfFacts DEF TypeOK, Ticks, Ages
<1>2. CASE Start
  <2>1. worker' = "polling" /\ \A k \in 0 .. Burst : ages'[k] = Interval
    BY <1>2 DEF Start, NoSends
  <2>2. \A k \in K : k + 1 \in 0 .. Burst
    OBVIOUS
  <2>3. QED  BY <2>1, <2>2 DEF RateInv, StartedBy
<1>3. CASE WorkerPoll
  <2>1. /\ worker = "polling" /\ worker' = "scanning" /\ now' = clock
        /\ Elapsed(sentAt[slot]) >= Interval
        /\ UNCHANGED <<slot, sentAt, ages, clock>>
    BY <1>3 DEF WorkerPoll, MaySend
  <2>2. StartedBy(Burst, sentAt[slot])
    <3>1. Burst - 1 \in K /\ Burst - 1 + 1 = Burst
      OBVIOUS
    <3>2. StartedBy(Burst - 1 + 1, sentAt[SlotOf(Burst - 1)])
      BY <2>1, <3>1 DEF RateInv
    <3>3. QED  BY <1>1, <3>1, <3>2, SlotOfFacts
  <2>3. ages[Burst] = Interval
    <3>1. ages[Burst] \in 0 .. Interval /\ Elapsed(sentAt[slot]) \in Nat
      BY <1>1, ElapsedFacts DEF Ages, Ticks
    <3>2. QED  BY <2>1, <2>2, <3>1 DEF StartedBy
  <2>4. StartedBy(0, now)'
    <3>1. Elapsed(clock) = 0
      BY <1>1, ElapsedFacts DEF Ticks
    <3>2. Elapsed(now)' = Elapsed(clock)
      BY <2>1 DEF Elapsed
    <3>3. ages'[0] \in 0 .. Interval
      BY <1>1, <2>1 DEF Ages
    <3>4. QED  BY <3>1, <3>2, <3>3 DEF StartedBy
  <2>5. QED  BY <2>1, <2>3, <2>4 DEF RateInv, StartedBy, SlotOf, Elapsed
<1>4. CASE WorkerTake
  <2>1. /\ worker = "scanning" /\ worker' = "taken"
        /\ sentAt' = [sentAt EXCEPT ![slot] = now]
        /\ slot' = (slot + 1) % Burst
        /\ UNCHANGED <<now, ages, clock>>
    BY <1>4 DEF WorkerTake
  <2>2. ASSUME NEW k \in K
        PROVE  StartedBy(k, sentAt[SlotOf(k)])'
    <3>1. CASE k = 0
      <4>1. sentAt'[SlotOf(0)'] = now
        BY <1>1, <2>1, SlotOfNext
      <4>2. StartedBy(0, now)
        BY <2>1 DEF RateInv
      <4>3. QED  BY <2>1, <3>1, <4>1, <4>2 DEF StartedBy, Elapsed
    <3>2. CASE k # 0
      <4>1. k - 1 \in K /\ k - 1 + 1 = k /\ k \in 1 .. Burst - 1
        BY <3>2
      <4>2. SlotOf(k)' = SlotOf(k - 1) /\ SlotOf(k - 1) # slot
        BY <1>1, <2>1, <4>1, SlotOfNext
      <4>3. sentAt'[SlotOf(k)'] = sentAt[SlotOf(k - 1)]
        BY <1>1, <2>1, <4>1, <4>2
      <4>4. StartedBy(k - 1 + 1, sentAt[SlotOf(k - 1)])
        BY <2>1, <4>1 DEF RateInv
      <4>5. StartedBy(k, sentAt[SlotOf(k - 1)])
        BY <4>1, <4>4
      <4>6. QED  BY <2>1, <4>3, <4>5 DEF StartedBy, Elapsed
    <3>3. QED  BY <3>1, <3>2
  <2>3. (ages[Burst] = Interval)'
    BY <2>1 DEF RateInv
  <2>4. QED  BY <2>1, <2>2, <2>3 DEF RateInv
<1>5. CASE WorkerSend
  <2>1. /\ worker = "taken" /\ worker' = "sending"
        /\ ages' = [k \in 0 .. Burst |-> IF k = 0 THEN 0 ELSE ages[k - 1]]
        /\ UNCHANGED <<slot, sentAt, clock>>
    BY <1>5 DEF WorkerSend
  <2>2. ASSUME NEW k \in K
        PROVE  StartedBy(k + 1, sentAt[SlotOf(k)])'
    <3>1. StartedBy(k, sentAt[SlotOf(k)])
      BY <2>1 DEF RateInv
    <3>2. ages'[k + 1] = ages[k]
      BY <2>1
    <3>3. QED  BY <2>1, <3>1, <3>2 DEF StartedBy, Elapsed, SlotOf
  <2>3. QED  BY <2>1, <2>2 DEF RateInv
<1>6. CASE Tick
  <2>1. /\ clock' = (clock + 1) % ClockMod
        /\ ages' = [k \in 0 .. Burst |-> IF ages[k] = Interval THEN Interval ELSE ages[k] + 1]
        /\ UNCHANGED <<worker, slot, sentAt, now>>
    BY <1>6 DEF Tick
  <2>2. ASSUME NEW k \in 0 .. Burst, NEW t \in Ticks, StartedBy(k, t)
        PROVE  ages'[k] = Interval \/ ages'[k] >= Elapsed(t)'
    <3>1. Elapsed(t)' <= Elapsed(t) + 1 /\ Elapsed(t) \in Nat /\ Elapsed(t)' \in Nat
      BY <1>1, <2>1, ElapsedTick
    <3>2. ages[k] \in 0 .. Interval
      BY <1>1 DEF Ages
    <3>3. ages'[k] = IF ages[k] = Interval THEN Interval ELSE ages[k] + 1
      BY <2>1
    <3>4. QED  BY <2>2, <3>1, <3>2, <3>3 DEF StartedBy
  <2>3. \A k \in K : k \in 0 .. Burst /\ k + 1 \in 0 .. Burst
    OBVIOUS
  <2>4. 0 \in 0 .. Burst /\ Burst \in 0 .. Burst
    OBVIOUS
  <2>5. worker = "scanning" => StartedBy(0, now)'
    BY <1>1, <2>1, <2>2, <2>4 DEF RateInv, StartedBy, Elapsed
  <2>6. ASSUME NEW k \in K, worker = "taken"
        PROVE  StartedBy(k, sentAt[SlotOf(k)])'
    <3>1. StartedBy(k, sentAt[SlotOf(k)])
      BY <2>6 DEF RateInv
    <3>2. ages'[k] = Interval \/ ages'[k] >= Elapsed(sentAt[SlotOf(k)])'
      BY <1>1, <2>1, <2>2, <2>3, <3>1 DEF Elapsed, SlotOf
    <3>3. QED  BY <3>2 DEF StartedBy
  <2>7. ASSUME NEW k \in K, worker # "taken"
        PROVE  StartedBy(k + 1, sentAt[SlotOf(k)])'
    <3>1. StartedBy(k + 1, sentAt[SlotOf(k)])
      BY <2>7 DEF RateInv
    <3>2. ages'[k + 1] = Interval \/ ages'[k + 1] >= Elapsed(sentAt[SlotOf(k)])'
      BY <1>1, <2>1, <2>2, <2>3, <3>1 DEF Elapsed, SlotOf
    <3>3. QED  BY <3>2 DEF StartedBy
  <2>8. worker \in {"scanning", "taken"} => ages'[Burst] = Interval
    BY <2>1, <2>4 DEF RateInv
  <2>9. QED  BY <2>1, <2>5, <2>6, <2>7, <2>8 DEF RateInv
<1>7. CASE UNCHANGED <<slot, sentAt, now, clock, ages>>
           /\ (worker' \in {"scanning", "taken"} => worker' = worker)
           /\ (worker' # "taken" => worker # "taken")
  BY <1>7 DEF RateInv, StartedBy, Elapsed, SlotOf
<1>8. QED
  BY <1>2, <1>3, <1>4, <1>5, <1>6, <1>7 DEF Next, Offer, RefuseBusy, Enqueue, Stop,
     Join, CleanupDone, CancelFront, WorkerExit, WorkerSkip, WorkerDone, Aborted,
     vars, workerVars

\* Whatever the worker's delays between reading the time and sending, the
\* (Burst + 1)-th last cloud publish is an interval old when another starts.
THEOREM Rate == Spec => BurstBound
<1>1. Init => RateInv
  BY DEF Init, RateInv, StartedBy, NoSends
<1>2. RateInv /\ [Next]_vars => [WorkerSend => ages[Burst] = Interval]_vars
  BY DEF RateInv, WorkerSend
<1>3. QED  BY <1>1, <1>2, RateStep, Invariance, PTL DEF Spec, BurstBound

-----------------------------------------------------------------------------
(* Refinement of the abstract queue. *)

InCalls == {call[p].event : p \in Publishers} \ {NoEvent}

LEMMA OfferedInCalls ==
    ASSUME NEW e \in Events
    PROVE  e \in InCalls <=> Offered(e)
  BY DEF InCalls, Offered

\* A call that ends takes its event out of the offered ones.
LEMMA CallEnds ==
    ASSUME Inv, NEW p \in Publishers, call[p].event # NoEvent,
           call' = [call EXCEPT ![p] = NoCall]
    PROVE  call[p].event \in InCalls /\ InCalls' = InCalls \ {call[p].event}
<1>1. call[p].event \in Events /\ Custody(call[p].event)
  BY DEF Inv, TypeOK, ExactlyOneCompletion, Custody
<1>2. \A r \in Publishers : call'[r].event = IF r = p THEN NoEvent ELSE call[r].event
  BY CallFacts DEF Inv, TypeOK
<1>3. \A r \in Publishers : call[r].event = call[p].event => r = p
  BY <1>1 DEF Custody, HeldOnce
<1>4. InCalls' = {call'[r].event : r \in Publishers} \ {NoEvent}
  BY DEF InCalls
<1>5. ASSUME NEW x
      PROVE  x \in InCalls' <=> x \in InCalls /\ x # call[p].event
  BY <1>2, <1>3, <1>4 DEF InCalls
<1>6. QED  BY <1>5 DEF InCalls

LEMMA RefinementStep == Inv /\ [Next]_vars => [Promise!Next]_(Promise!vars)
<1> SUFFICES ASSUME Inv, [Next]_vars PROVE [Promise!Next]_(Promise!vars)
  OBVIOUS
<1>1. Promise!vars' = Promise!vars <=> UNCHANGED <<InCalls, queues, sending>>
  BY DEF Promise!vars, InCalls
<1>2. ASSUME NEW p \in Publishers, NEW x \in Events, NEW q \in 0 .. NumQueues,
             Offer(p, x, q)
      PROVE  [Promise!Next]_(Promise!vars)
  <2>1. CASE running /\ q < NumQueues
    <3>1. /\ call' = [call EXCEPT ![p] = [event |-> x, priority |-> q]]
          /\ call[p].event = NoEvent
          /\ calls[x] = 1
          /\ UNCHANGED <<queues, sending>>
      BY <1>2, <2>1 DEF Offer, workerVars
    <3>2. ~Held(x)
      BY <3>1 DEF Inv, ExactlyOneCompletion
    <3>3. ~Promise!Known(x)
      BY <3>2, OfferedInCalls DEF Held, Queued, Elements, Promise!Known, InCalls,
         Promise!Levels, Levels
    <3>4. \A r \in Publishers : call'[r].event = IF r = p THEN x ELSE call[r].event
      BY <3>1 DEF Inv, TypeOK
    <3>5. InCalls' = {call'[r].event : r \in Publishers} \ {NoEvent}
      BY DEF InCalls
    <3>6. InCalls' = InCalls \cup {x}
      BY <3>1, <3>4, <3>5 DEF InCalls
    <3>7. Promise!Offer(x)
      BY <3>1, <3>3, <3>6 DEF Promise!Offer, InCalls
    <3>8. QED  BY <3>7 DEF Promise!Next
  <2>2. CASE ~(running /\ q < NumQueues)
    BY <1>1, <1>2, <2>2 DEF Offer, workerVars, InCalls
  <2>3. QED  BY <2>1, <2>2
<1>3. ASSUME NEW p \in Publishers, RefuseBusy(p)
      PROVE  [Promise!Next]_(Promise!vars)
  <2>1. /\ call[p].event \in Events /\ call[p].priority \in Levels
        /\ call[p].event # NoEvent
        /\ call' = [call EXCEPT ![p] = NoCall]
        /\ Len(queues[call[p].priority]) >= MaxEntries
        /\ UNCHANGED <<queues, sending>>
    BY <1>3 DEF RefuseBusy, Full, workerVars, Inv, TypeOK
  <2>2. call[p].event \in InCalls /\ InCalls' = InCalls \ {call[p].event}
    BY <2>1, CallEnds
  <2>3. PICK x \in Events : x = call[p].event
    BY <2>1
  <2>4. Promise!Refuse(x)
    BY <2>1, <2>2, <2>3 DEF Promise!Refuse, InCalls, Promise!Levels, Levels
  <2>5. QED  BY <2>4 DEF Promise!Next
<1>4. ASSUME NEW p \in Publishers, Enqueue(p)
      PROVE  [Promise!Next]_(Promise!vars)
  <2>1. /\ call[p].event \in Events /\ call[p].priority \in Levels
        /\ call[p].event # NoEvent
        /\ call' = [call EXCEPT ![p] = NoCall]
        /\ Len(queues[call[p].priority]) < MaxEntries
        /\ queues' = [queues EXCEPT ![call[p].priority] = Append(@, call[p].event)]
        /\ UNCHANGED sending
    BY <1>4 DEF Enqueue, Entered, Full, workerVars, Inv, TypeOK
  <2>2. call[p].event \in InCalls /\ InCalls' = InCalls \ {call[p].event}
    BY <2>1, CallEnds
  <2>3. PICK x \in Events, l \in Levels : x = call[p].event /\ l = call[p].priority
    BY <2>1
  <2>4. Promise!Accept(x, l)
    BY <2>1, <2>2, <2>3 DEF Promise!Accept, InCalls
  <2>5. QED  BY <2>4 DEF Promise!Next, Promise!Levels, Levels
<1>5. ASSUME NEW q \in Levels, CancelFront(q)
      PROVE  [Promise!Next]_(Promise!vars)
  <2>1. Promise!Cancel(q)
    BY <1>5 DEF CancelFront, Inv, Phases, Promise!Cancel, workerVars
  <2>2. QED  BY <2>1 DEF Promise!Next, Promise!Levels, Levels
<1>6. CASE WorkerTake
  <2>1. level \in Levels /\ Promise!Begin(level)
    BY <1>6 DEF WorkerTake, Inv, TypeOK, Phases, Promise!Begin
  <2>2. QED  BY <2>1 DEF Promise!Next, Promise!Levels, Levels
<1>7. CASE WorkerDone
  <2>1. Promise!Finish
    BY <1>7 DEF WorkerDone, Inv, Phases, Promise!Finish
  <2>2. QED  BY <2>1 DEF Promise!Next
<1>8. CASE UNCHANGED <<queues, call, sending>>
  BY <1>1, <1>8 DEF InCalls
<1>9. QED
  BY <1>2, <1>3, <1>4, <1>5, <1>6, <1>7, <1>8 DEF Next, Start, Stop, Join,
     CleanupDone, WorkerExit, WorkerPoll, WorkerSkip, WorkerSend, Tick, Aborted,
     vars, workerVars

\* The publisher, with its threads, locks and clock, implements the queue that
\* PublishQueue promises to callers.
THEOREM Refinement == Spec => ImplementsPublishQueue
<1>1. Init => Promise!Init
  BY CallFacts DEF Init, Promise!Init, Levels, Promise!Levels
<1>2. QED
  BY <1>1, RefinementStep, Invariance, PTL DEF Spec, ImplementsPublishQueue, Promise!Spec
=============================================================================
