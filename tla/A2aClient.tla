------------------------------ MODULE A2aClient ------------------------------
(***************************************************************************)
(* a2a_client.call_agent: one blocking message/send, then polls of         *)
(* tasks/get until the task is terminal or the budget is spent.  Every     *)
(* step advances the clock by the time its request or sleep took.  A reply *)
(* text is its class: what the tag, roster and marker patterns tell apart. *)
(***************************************************************************)
EXTENDS Naturals

CONSTANTS
    Answers,                 \* what the agent may answer: [text, state, id]
    PollInterval,            \* poll_interval
    SendMin, PollMin, PollMax \* the floors and the ceiling of the timeouts

ASSUME TimeoutsAssumption ==
    /\ {SendMin, PollInterval, PollMax} \subseteq Nat \ {0} /\ PollMin \in Nat

VARIABLES
    now,   \* time.monotonic()
    call   \* the call in progress, or the last one

avars == <<now, call>>

Texts == {"", "finding", "finding503", "roster", "allclear", "garbage", "outage"}

\* TERMINAL; working, submitted and auth-required are not.
Terminal == {"completed", "failed", "canceled", "rejected", "unknown", "input-required"}

\* The states a call can return: those of an answer, "?" of one that names
\* none, and that of a send that raised.
States == {a.state : a \in Answers} \cup {"?", "transport-error"}

\* A task that has not ended has an id to ask after it with (the A2A protocol).
ASSUME AnswersAssumption ==
    \A a \in Answers : a.text \in Texts /\ (a.id \/ a.state \in Terminal \cup {"?"})

Larger(a, b) == IF a > b THEN a ELSE b
Smaller(a, b) == IF a < b THEN a ELSE b

NoCall == [pc |-> "returned", text |-> "", state |-> "?", deadline |-> 0, budget |-> 0]

\* call_agent is entered.
CallAgent(budget) ==
    call' = [pc |-> "send", text |-> "", state |-> "?",
             deadline |-> now + budget, budget |-> budget]

\* Mutant: any text is taken for the final one.
ReturnsOnAnyText(a) == a.text # "" \/ ~a.id

\* The two early returns after message/send: a terminal (or stateless) answer
\* with text, and one without a task to poll.
ReturnsAtOnce(a) ==
    \/ a.text # "" /\ (a.state \in Terminal \/ a.state = "?")
    \/ ~a.id

\* message/send returns the last text part and the state of the task ...
SendEnds ==
    /\ call.pc = "send"
    /\ \E d \in 0..Larger(SendMin, call.budget - PollInterval), a \in Answers :
         /\ now' = now + d
         /\ call' = [call EXCEPT !.text = a.text, !.state = a.state,
                       !.pc = IF ReturnsAtOnce(a) THEN "returned" ELSE "poll"]

\* ... or raises: a refused connection, an HTTP error, its timeout.
SendFails ==
    /\ call.pc = "send"
    /\ \E d \in 0..Larger(SendMin, call.budget - PollInterval) : now' = now + d
    /\ call' = [call EXCEPT !.state = "transport-error", !.pc = "returned"]

\* The sleep before a poll, min(poll_interval, max(1, remaining)).
Woken == now + Smaller(PollInterval, call.deadline - now)

\* The loop ends on its own clock, before or after the sleep.
PollGivesUp ==
    /\ call.pc = "poll" /\ (call.deadline <= now \/ Woken >= call.deadline)
    /\ now' = IF call.deadline <= now THEN now ELSE Woken
    /\ call' = [call EXCEPT !.pc = "returned"]

\* max(15, min(60, remaining))
PollTimeout == Larger(PollMin, Smaller(PollMax, call.deadline - Woken))

\* One poll: the last text that is not empty is kept, the state is the latest.
\* A poll that raises only costs its time.
Polls ==
    /\ call.pc = "poll" /\ now < call.deadline /\ Woken < call.deadline
    /\ \E d \in 0..PollTimeout :
         /\ now' = Woken + d
         /\ \/ UNCHANGED call
            \/ \E a \in Answers :
                 call' = [call EXCEPT !.text = IF a.text # "" THEN a.text ELSE @,
                            !.state = a.state,
                            !.pc = IF a.state \in Terminal THEN "returned" ELSE "poll"]

Calling == SendEnds \/ SendFails \/ PollGivesUp \/ Polls

\* _BACKEND_MARKERS are in the text.
HasMarker(text) == text \in {"outage", "finding503"}

\* is_backend_unavailable
IsBackendUnavailable(text, state) ==
    \/ state = "transport-error"
    \/ state = "failed" /\ (text = "" \/ HasMarker(text))
=============================================================================
