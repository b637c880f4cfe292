--------------------------- MODULE BackgroundPublish ---------------------------
(***************************************************************************)
(* The background publisher, lib/background-publish/src/BackgroundPublish.h. *)
(*                                                                         *)
(* Any thread may call publish(); one worker thread takes the events, from  *)
(* the lowest queue index (the highest priority) up, and hands each to      *)
(* Particle.publish() without holding the lock; start() and stop() are      *)
(* called by one controlling thread.  publish() reads `running' before it   *)
(* takes the lock, so the call is two steps here.  The bodies that run       *)
(* under `_mutex' are single steps, except cleanup(), which keeps the lock   *)
(* from one callback to the next.                                          *)
(*                                                                         *)
(* An event is a slot of the caller that is offered again once its           *)
(* completion callback has run, so behaviours are endless over a finite      *)
(* set.  Time is a counter of ClockMod values, as millis() is.               *)
(***************************************************************************)
EXTENDS Naturals, Sequences, FiniteSets

CONSTANTS
    NumQueues,    \* priority levels; 0 is the most urgent
    MaxEntries,   \* capacity of one queue
    Publishers,   \* threads that call publish()
    Events,       \* events in circulation
    Silent,       \* those published without a completion callback
    Burst,        \* burst_rate
    Interval,     \* process_interval
    ClockMod,     \* millis() counts modulo this (2^32 in the code)
    NoEvent       \* "no event"

ASSUME ConstantsAssumption ==
    /\ NumQueues \in Nat \ {0}
    /\ MaxEntries \in Nat \ {0}
    /\ Silent \subseteq Events
    /\ Burst \in Nat \ {0}
    /\ Interval \in Nat \ {0}
    /\ ClockMod \in Nat /\ ClockMod > Interval
    /\ NoEvent \notin Events

VARIABLES
    running,    \* the flag of start() and stop()
    queues,     \* _queues
    call,       \* publish() calls between the checks and the lock
    control,    \* where the controlling thread is
    worker,     \* where the worker thread is
    slot,       \* the worker's i
    sentAt,     \* the worker's publish_t
    now,        \* the worker's now
    level,      \* the queue the worker looks at
    sending,    \* the event the worker has taken
    clock,      \* millis()
    fault,      \* an empty std::function was called: the firmware aborts
    \* History variables.
    calls,      \* completions of an event since it was last offered
    late,       \* events enqueued since the worker began its pass
    ages        \* ages of this worker's last Burst + 1 cloud publishes

vars == <<running, queues, call, control, worker, slot, sentAt, now, level,
          sending, clock, fault, calls, late, ages>>

workerVars == <<worker, slot, sentAt, now, level, sending, ages>>

Levels == 0 .. NumQueues - 1
Slots  == 0 .. Burst - 1
\* Ages end at Interval, which stands for "or older, or never".
NoSends == [k \in 0 .. Burst |-> Interval]
NoCall == [event |-> NoEvent, priority |-> 0]
Elements(s) == {s[k] : k \in 1 .. Len(s)}

TypeOK ==
    /\ running \in BOOLEAN
    /\ queues \in [Levels -> Seq(Events)]
    /\ call \in [Publishers -> [event : Events \cup {NoEvent}, priority : Levels]]
    /\ control \in {"idle", "joining", "cleaning"}
    /\ worker \in {"none", "polling", "scanning", "taken", "sending"}
    /\ slot \in Slots
    /\ sentAt \in [Slots -> 0 .. ClockMod - 1]
    /\ now \in 0 .. ClockMod - 1
    /\ level \in Levels
    /\ sending \in Events \cup {NoEvent}
    /\ clock \in 0 .. ClockMod - 1
    /\ fault \in BOOLEAN
    /\ calls \in [Events -> 0 .. 1]
    /\ late \subseteq Events
    /\ ages \in [0 .. Burst -> 0 .. Interval]

Init ==
    /\ running = FALSE
    /\ queues = [q \in Levels |-> <<>>]
    /\ call = [p \in Publishers |-> NoCall]
    /\ control = "idle"
    /\ worker = "none"
    /\ slot = 0
    /\ sentAt = [s \in Slots |-> 0]
    /\ now = 0
    /\ level = 0
    /\ sending = NoEvent
    /\ clock = 0
    /\ fault = FALSE
    /\ calls = [e \in Events |-> 1]
    /\ late = {}
    /\ ages = NoSends

-----------------------------------------------------------------------------
(* Callers of publish(). *)

\* The completion callback of e runs.
Complete(e) == calls' = [calls EXCEPT ![e] = @ + 1]

\* publish() refuses e at once: it calls cb without a test for an empty callback.
RefuseOffered(e) ==
    /\ fault' = (e \in Silent)
    /\ UNCHANGED calls

\* publish(), up to the lock.  An event is offered again only after its
\* previous completion.  A refusal here completes it at once.
Offer(p, e, priority) ==
    /\ ~fault
    /\ call[p].event = NoEvent
    /\ calls[e] = 1
    /\ IF running /\ priority < NumQueues
       THEN /\ call' = [call EXCEPT ![p] = [event |-> e, priority |-> priority]]
            /\ calls' = [calls EXCEPT ![e] = 0]
            /\ UNCHANGED fault
       ELSE RefuseOffered(e) /\ UNCHANGED call
    /\ UNCHANGED <<running, queues, control, workerVars, clock, late>>

\* Size test of publish().
Full_offByOne(q) == Len(queues[q]) > MaxEntries
Full(q) == Len(queues[q]) >= MaxEntries

\* publish(), under the lock: the queue is full and the callback gets BUSY.
RefuseBusy(p) ==
    LET e == call[p].event
    IN  /\ ~fault
        /\ call[p].event # NoEvent
        /\ control # "cleaning"
        /\ Full(call[p].priority)
        /\ fault' = (e \in Silent)
        /\ Complete(e)
        /\ call' = [call EXCEPT ![p] = NoCall]
        /\ UNCHANGED <<running, queues, control, workerVars, clock, late>>

Entered_front(q, e) == <<e>> \o q
Entered(q, e) == Append(q, e)

\* publish(), under the lock: the event enters its queue.
Enqueue(p) ==
    LET e == call[p].event
        q == call[p].priority
    IN  /\ ~fault
        /\ call[p].event # NoEvent
        /\ control # "cleaning"
        /\ ~Full(q)
        /\ queues' = [queues EXCEPT ![q] = Entered(@, e)]
        /\ late' = late \cup {e}
        /\ call' = [call EXCEPT ![p] = NoCall]
        /\ UNCHANGED <<running, control, workerVars, clock, fault, calls>>

-----------------------------------------------------------------------------
(* The controlling thread. *)

\* start() on a publisher that is not running: a fresh worker.
Start ==
    /\ ~fault
    /\ control = "idle"
    /\ ~running
    /\ running' = TRUE
    /\ worker' = "polling"
    /\ slot' = 0
    /\ sentAt' = [s \in Slots |-> 0]
    /\ ages' = NoSends
    /\ UNCHANGED <<queues, call, control, now, level, sending, clock, fault,
                   calls, late>>

\* stop(): the worker is told to end.
Stop ==
    /\ ~fault
    /\ control = "idle"
    /\ running
    /\ running' = FALSE
    /\ control' = "joining"
    /\ UNCHANGED <<queues, call, workerVars, clock, fault, calls, late>>

\* What stop() waits for before cleanup() takes the lock.
Joined_skipped == TRUE
Joined == worker = "none"

Join ==
    /\ ~fault
    /\ control = "joining"
    /\ Joined
    /\ control' = "cleaning"
    /\ UNCHANGED <<running, queues, call, workerVars, clock, fault, calls, late>>

\* cleanup(): the front of the first queue that has one gets CANCELLED.
CancelFront(q) ==
    /\ ~fault
    /\ control = "cleaning"
    /\ queues[q] # <<>>
    /\ \A h \in Levels : h < q => queues[h] = <<>>
    /\ Complete(Head(queues[q]))
    /\ queues' = [queues EXCEPT ![q] = Tail(@)]
    /\ UNCHANGED <<running, call, control, workerVars, clock, fault, late>>

CleanupDone ==
    /\ ~fault
    /\ control = "cleaning"
    /\ \A q \in Levels : queues[q] = <<>>
    /\ control' = "idle"
    /\ UNCHANGED <<running, queues, call, workerVars, clock, fault, calls, late>>

-----------------------------------------------------------------------------
(* The worker thread. *)

\* now - publish_t[i], in the width of the counter.
Elapsed_noWrap(t) == IF clock >= t THEN clock - t ELSE 0
Elapsed(t) == (clock + ClockMod - t) % ClockMod

\* The loop test: two sends may start in any Interval.
MaySend_always == TRUE
MaySend == Elapsed(sentAt[slot]) >= Interval

\* A pass begins with the most urgent queue.
FirstLevel_pastEnd == NumQueues
FirstLevel_last == NumQueues - 1
FirstLevel == 0

WorkerExit ==
    /\ ~fault
    /\ worker = "polling"
    /\ ~running
    /\ worker' = "none"
    /\ UNCHANGED <<running, queues, call, control, slot, sentAt, now, level,
                   sending, clock, fault, calls, late, ages>>

\* A pass over the queues begins; the time is read now and used later.
WorkerPoll ==
    /\ ~fault
    /\ worker = "polling"
    /\ running
    /\ MaySend
    /\ now' = clock
    /\ level' = FirstLevel
    /\ worker' = "scanning"
    /\ late' = {}
    /\ UNCHANGED <<running, queues, call, control, slot, sentAt, sending, clock,
                   fault, calls, ages>>

\* One queue is empty: the lock is released before the next is looked at.
WorkerSkip ==
    /\ ~fault
    /\ worker = "scanning"
    /\ queues[level] = <<>>
    /\ IF level + 1 < NumQueues
       THEN level' = level + 1 /\ UNCHANGED worker
       ELSE level' = 0 /\ worker' = "polling"
    /\ UNCHANGED <<running, queues, call, control, slot, sentAt, now, sending,
                   clock, fault, calls, late, ages>>

\* Under the lock: the event is copied and popped, the send is recorded.
WorkerTake ==
    /\ ~fault
    /\ worker = "scanning"
    /\ queues[level] # <<>>
    /\ sentAt' = [sentAt EXCEPT ![slot] = now]
    /\ slot' = (slot + 1) % Burst
    /\ sending' = Head(queues[level])
    /\ queues' = [queues EXCEPT ![level] = Tail(@)]
    /\ worker' = "taken"
    /\ UNCHANGED <<running, call, control, now, level, clock, fault, calls, late,
                   ages>>

\* process_publish() calls Particle.publish().
WorkerSend ==
    /\ ~fault
    /\ worker = "taken"
    /\ worker' = "sending"
    /\ ages' = [k \in 0 .. Burst |-> IF k = 0 THEN 0 ELSE ages[k - 1]]
    /\ UNCHANGED <<running, queues, call, control, slot, sentAt, now, level,
                   sending, clock, fault, calls, late>>

\* The promise resolves, well or badly, and the callback (if any) is called.
WorkerDone ==
    /\ ~fault
    /\ worker = "sending"
    /\ Complete(sending)
    /\ sending' = NoEvent
    /\ worker' = "polling"
    /\ UNCHANGED <<running, queues, call, control, slot, sentAt, now, level,
                   clock, fault, late, ages>>

-----------------------------------------------------------------------------

Tick ==
    /\ ~fault
    /\ clock' = (clock + 1) % ClockMod
    /\ ages' = [k \in 0 .. Burst |-> IF ages[k] = Interval THEN Interval ELSE ages[k] + 1]
    /\ UNCHANGED <<running, queues, call, control, worker, slot, sentAt, now,
                   level, sending, fault, calls, late>>

\* The firmware has aborted.
Aborted == fault /\ UNCHANGED vars

Next ==
    \/ \E p \in Publishers :
          \/ \E e \in Events, priority \in 0 .. NumQueues : Offer(p, e, priority)
          \/ RefuseBusy(p)
          \/ Enqueue(p)
    \/ Start \/ Stop \/ Join \/ CleanupDone
    \/ \E q \in Levels : CancelFront(q)
    \/ WorkerExit \/ WorkerPoll \/ WorkerSkip \/ WorkerTake
    \/ WorkerSend \/ WorkerDone
    \/ Tick
    \/ Aborted

Spec == Init /\ [][Next]_vars

\* Time passes; every thread that can go on does, and Device OS resolves
\* every publish promise.  The worker polls every 2 ms, so over a whole round
\* of the counter it finds its rate limit open: strong fairness for the poll.
Fairness ==
    /\ WF_vars(Tick)
    /\ WF_vars(WorkerExit) /\ SF_vars(WorkerPoll) /\ WF_vars(WorkerSkip)
    /\ WF_vars(WorkerTake) /\ WF_vars(WorkerSend) /\ WF_vars(WorkerDone)
    /\ WF_vars(Join) /\ WF_vars(CleanupDone)
    /\ \A q \in Levels : WF_vars(CancelFront(q))
    /\ \A p \in Publishers : WF_vars(Enqueue(p)) /\ WF_vars(RefuseBusy(p))

FairSpec == Spec /\ Fairness

-----------------------------------------------------------------------------
(* Properties. *)

\* e is with a caller, in a queue or with the worker.
Offered(e) == \E p \in Publishers : call[p].event = e
Queued(e)  == \E q \in Levels : e \in Elements(queues[q])
Held(e)    == Offered(e) \/ Queued(e) \/ sending = e

\* No two places hold e.
HeldOnce(e) ==
    /\ \A p, r \in Publishers : call[p].event = e /\ call[r].event = e => p = r
    /\ \A q, r \in Levels :
          \A k \in 1 .. Len(queues[q]), m \in 1 .. Len(queues[r]) :
             queues[q][k] = e /\ queues[r][m] = e => q = r /\ k = m
    /\ Queued(e) => ~Offered(e)
    /\ sending = e => ~Offered(e) /\ ~Queued(e)

\* publish() owes each event one completion, whatever callers, the worker and
\* stop() do meanwhile: as long as none was made, exactly one place holds the
\* event, and once it was made none does.
ExactlyOneCompletion ==
    \A e \in Events : (calls[e] = 0 <=> Held(e)) /\ HeldOnce(e)

\* No queue grows past maxEntries, however many callers passed the checks of
\* publish() at once.
CapacityBound == \A q \in Levels : Len(queues[q]) <= MaxEntries

\* "allowable burst rate (Hz), Device OS allows up to 4/s": the time of a send
\* is read before the scan and used after it, so Burst sends in an interval can
\* become Burst + 1, and never more, whatever delays the worker meets: when a
\* send starts, the (Burst + 1)-th last one is an interval old.
BurstBound == [][WorkerSend => ages[Burst] = Interval]_vars

\* An event is sent ahead of one in a more urgent queue only if that one was
\* enqueued after the pass over the queues began.
PriorityRespected ==
    [][WorkerTake => \A q \in Levels : q < level => Elements(queues[q]) \subseteq late]_vars

\* An event in the most urgent queue of a running publisher gets its
\* completion: it is sent, or stop() cancels it.
UrgentServed ==
    \A e \in Events :
        (running /\ e \in Elements(queues[0])) ~> (fault \/ calls[e] = 1)

\* What a caller may rely on, as an abstract queue: events of a level leave in
\* their order, one is in flight at a time, and each ends in one completion.
Promise == INSTANCE PublishQueue WITH
               pending  <- queues,
               offered  <- {call[p].event : p \in Publishers} \ {NoEvent},
               inFlight <- sending

ImplementsPublishQueue == Promise!Spec
=============================================================================
