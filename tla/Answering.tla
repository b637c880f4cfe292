------------------------------- MODULE Answering -------------------------------
(***************************************************************************)
(* What CloudService promises to the senders of messages: a message that was *)
(* sent is answered once, and never when it is not waited for; only a reset  *)
(* of the device takes an answer away.  SUCCESS of a message sent with an    *)
(* end-to-end acknowledgement is true, as long as messages can be told apart. *)
(***************************************************************************)
CONSTANTS Messages, EndToEnd

VARIABLES
    waiting,  \* messages whose sender waits for an answer
    answer,   \* the last answer of a message, None when it was given none
    arrived,  \* messages that the cloud application has acknowledged
    distinct  \* no two messages bear the same number; free to change

vars == <<waiting, answer, arrived>>

None == "none"
Answers == {"SUCCESS", "FAILURE", "TIMEOUT"}

Init ==
    /\ waiting = {} /\ arrived = {}
    /\ answer = [m \in Messages |-> None]

Send(m) ==
    /\ m \notin waiting
    /\ waiting' = waiting \cup {m}
    /\ answer' = [answer EXCEPT ![m] = None]
    /\ UNCHANGED arrived

\* An acknowledgement concerns a message that is waited for.
Arrive(m) ==
    /\ m \in waiting
    /\ arrived' = arrived \cup {m}
    /\ UNCHANGED <<waiting, answer>>

\* One pass may answer several messages, each of them once.
Truthful(m) == distinct /\ m \in EndToEnd /\ answer'[m] = "SUCCESS" => m \in arrived
Reply(answered) ==
    /\ waiting' = waiting \ answered
    /\ answer' \in [Messages -> Answers \cup {None}]
    /\ \A m \in Messages :
         IF m \in answered THEN answer'[m] \in Answers /\ Truthful(m)
                           ELSE answer'[m] = answer[m]
    /\ UNCHANGED arrived

\* A reset: the senders have forgotten too.
Forget == waiting' = {} /\ UNCHANGED <<answer, arrived>>

Steady ==
    \/ \E m \in Messages : Send(m) \/ Arrive(m)
    \/ \E answered \in SUBSET waiting : Reply(answered)

Next == Steady \/ Forget

Spec == Init /\ [][Next]_vars

\* Without resets no answer is ever missing.
SteadySpec == Init /\ [][Steady]_vars
=============================================================================
