------------------------------ MODULE TriageRun ------------------------------
(***************************************************************************)
(* triage_run: a CronJob asks an agent for the problems of its domain and  *)
(* mails a reply that leads with a problem tag; everything else is silent. *)
(* A model backend that is down is retried until a window is spent; a      *)
(* reply that breaks the contract is asked for once more.  The Job runs it *)
(* again when it fails, within one deadline for all its attempts.          *)
(***************************************************************************)
EXTENDS A2aClient, Sequences

CONSTANTS
    Budget, CallMin,            \* BUDGET_SECONDS and the floor of a call's half
    Window,                     \* BACKEND_RETRY_SECONDS
    BackoffFirst, BackoffMax,   \* the requeue backoff: 20 s, doubled up to 120 s
    NotifyTimeout,              \* of the send through notify-mcp
    JobDeadline, Attempts,      \* activeDeadlineSeconds and backoffLimit + 1
    Faults                      \* "drain": the pod may be killed

ASSUME RunAssumption ==
    /\ {Budget, CallMin, Window, BackoffFirst, BackoffMax, Attempts} \subseteq Nat \ {0}
    /\ {NotifyTimeout, JobDeadline} \subseteq Nat

\* The floors of the timeouts, 30 s of a send, 15 s of a poll and 60 s of a call,
\* and the backoff from 20 s to 120 s.
ASSUME FloorsAssumption == SendMin <= CallMin /\ PollMin # 0 /\ BackoffFirst <= BackoffMax

VARIABLES
    run,     \* main's locals: pc, deadline, backoff, retry (drift_retry_used), result
    attempt, \* which container of the Job this is
    mails,   \* the replies notify-mcp was handed, in order: their text and, as
             \* history, their task's state and whether the call's time was spent
    lost,    \* history: sends that went out though the response was an error
    outages, \* history: answers of this attempt that meant an outage, counted up to 2
    misses   \* history: reachable answers of this attempt that were unproductive

vars == <<now, call, run, attempt, mails, lost, outages, misses>>

\* The two adherence attempts split the budget.
PerCall == Larger(CallMin, Budget \div 2)

\* main up to its loop.
Started == [pc |-> "ask", deadline |-> now + Window, backoff |-> BackoffFirst,
            retry |-> FALSE, result |-> "none"]

Init ==
    /\ now = 0 /\ call = NoCall
    /\ run = Started
    /\ attempt = 1 /\ mails = <<>> /\ lost = 0 /\ outages = 0 /\ misses = 0

-----------------------------------------------------------------------------

\* classify_tag, strip_roster and is_empty_finding: a leading problem tag with
\* substance above any roster; an all-clear, a negated or a bare tag; neither.
Gate(text) ==
    CASE text \in {"finding", "finding503"} -> "sent"
      [] text \in {"allclear", "roster"} -> "allclear"
      [] text = "" -> "empty"
      [] OTHER -> "malformed"

\* The top of the loop: call_agent with the plain or the corrective prompt.
Ask ==
    /\ run.pc = "ask"
    /\ CallAgent(PerCall)
    /\ run' = [run EXCEPT !.pc = "judge"]
    /\ UNCHANGED <<now, attempt, mails, lost, outages, misses>>

\* A step of the call that main is in; a killed process makes no more of it.
CallStep ==
    /\ run.pc = "judge"
    /\ Calling
    /\ UNCHANGED <<run, attempt, mails, lost, outages, misses>>

Returned == call.pc = "returned"

Unavailable == IsBackendUnavailable(call.text, call.state)

\* Mutant: the window is opened again by every requeue.
RequeueRearmed ==
    /\ run.pc = "judge" /\ Returned /\ Unavailable
    /\ now < run.deadline
    /\ now' = now + Smaller(run.backoff, run.deadline - now)
    /\ run' = [run EXCEPT !.pc = "ask", !.backoff = Smaller(2 * @, BackoffMax),
                          !.deadline = now + Window]
    /\ outages' = Smaller(2, outages + 1)
    /\ call' = NoCall
    /\ UNCHANGED <<attempt, mails, lost, misses>>

\* Backend unavailable within the window: sleep, and ask the same question.
Requeue ==
    /\ run.pc = "judge" /\ Returned /\ Unavailable
    /\ now < run.deadline
    /\ now' = now + Smaller(run.backoff, run.deadline - now)
    /\ run' = [run EXCEPT !.pc = "ask", !.backoff = Smaller(2 * @, BackoffMax)]
    /\ outages' = Smaller(2, outages + 1)
    /\ call' = NoCall
    /\ UNCHANGED <<attempt, mails, lost, misses>>

End(result) == run' = [run EXCEPT !.pc = "ended", !.result = result]

\* Backend unavailable and the window spent.
GiveUp ==
    /\ run.pc = "judge" /\ Returned /\ Unavailable
    /\ now >= run.deadline
    /\ End("error")
    /\ outages' = Smaller(2, outages + 1)
    /\ call' = NoCall
    /\ UNCHANGED <<now, attempt, mails, lost, misses>>

\* A productive reply: all clear ends the run, a finding goes to notify_email.
Productive ==
    /\ run.pc = "judge" /\ Returned /\ ~Unavailable
    /\ \/ Gate(call.text) = "allclear" /\ End("allclear")
       \/ Gate(call.text) = "sent" /\ run' = [run EXCEPT !.pc = "notify"]
    /\ UNCHANGED <<now, call, attempt, mails, lost, outages, misses>>

\* Mutant: the corrective re-ask is not remembered.
MissForgotten ==
    /\ run.pc = "judge" /\ Returned /\ ~Unavailable
    /\ Gate(call.text) \in {"empty", "malformed"}
    /\ misses < 3
    /\ run' = [run EXCEPT !.pc = "ask"]
    /\ misses' = misses + 1
    /\ call' = NoCall
    /\ UNCHANGED <<now, attempt, mails, lost, outages>>

\* An unproductive reply of a reachable model: one corrective re-ask, then the
\* run ends silently.
Miss ==
    /\ run.pc = "judge" /\ Returned /\ ~Unavailable
    /\ Gate(call.text) \in {"empty", "malformed"}
    /\ IF run.retry THEN End(Gate(call.text))
                    ELSE run' = [run EXCEPT !.pc = "ask", !.retry = TRUE]
    /\ misses' = misses + 1
    /\ call' = NoCall
    /\ UNCHANGED <<now, attempt, mails, lost, outages>>

\* What the call returned, as it is mailed.
Reply == [text |-> call.text, state |-> call.state, spent |-> now >= call.deadline]

\* notify_email: sent; or it raises, with the mail out or not, and the
\* exception ends the process with status 1.
Notify ==
    /\ run.pc = "notify"
    /\ \E d \in 0..NotifyTimeout : now' = now + d
    /\ \/ End("sent") /\ mails' = Append(mails, Reply) /\ UNCHANGED lost
       \/ /\ run' = [run EXCEPT !.pc = "failed"]
          /\ \/ UNCHANGED <<mails, lost>>
             \/ mails' = Append(mails, Reply) /\ lost' = lost + 1
    /\ UNCHANGED <<call, attempt, outages, misses>>

\* The pod is evicted or its node drained.
Drain ==
    /\ "drain" \in Faults
    /\ run.pc \in {"ask", "judge", "notify"}
    /\ run' = [run EXCEPT !.pc = "failed"]
    /\ UNCHANGED <<now, call, attempt, mails, lost, outages, misses>>

\* The Job runs the container again, from the top of main, or is marked failed.
Retry ==
    /\ run.pc = "failed"
    /\ IF attempt < Attempts /\ now < JobDeadline
         THEN /\ attempt' = attempt + 1
              /\ run' = Started /\ call' = NoCall
              /\ outages' = 0 /\ misses' = 0
         ELSE /\ End("job-failed")
              /\ UNCHANGED <<call, attempt, outages, misses>>
    /\ UNCHANGED <<now, mails, lost>>

\* activeDeadlineSeconds kills whatever pod is running.
Deadline ==
    /\ run.pc \in {"ask", "judge", "notify"} /\ now > JobDeadline
    /\ End("killed")
    /\ UNCHANGED <<now, call, attempt, mails, lost, outages, misses>>

\* A step of the process: the Job's deadline is checked as the clock passes it.
Step ==
    /\ now <= JobDeadline
    /\ \/ Ask \/ CallStep \/ Requeue \/ GiveUp \/ Productive \/ Miss \/ Notify

Next == Step \/ Drain \/ Retry \/ Deadline

Spec == Init /\ [][Next]_vars

-----------------------------------------------------------------------------

\* The values the state can take.
TypeOK ==
    /\ now \in Nat
    /\ call.pc \in {"send", "poll", "returned"} /\ call.text \in Texts
    /\ run.pc \in {"ask", "judge", "notify", "failed", "ended"}
    /\ run.backoff \in 1..BackoffMax /\ run.retry \in BOOLEAN
    /\ run.result \in {"none", "sent", "allclear", "empty", "malformed", "error",
                       "job-failed", "killed"}
    /\ attempt \in 1..Attempts
    /\ mails \in Seq([text : Texts, state : States, spent : BOOLEAN]) /\ lost \in Nat /\ outages \in Nat /\ misses \in Nat

\* What may be mailed, over all asks and attempts: a text with a problem tag and
\* substance that is no sign of an outage, and it is mailed once, plus once for
\* every send whose response was lost before the Job ran again.  The text need
\* not be final: a task that is still working when its call's time is spent is
\* mailed with what it has said so far, although the header has "non-terminal ->
\* silent (NEVER notifies)" (triage_run.py:9, 230-231).  That is the only way: a
\* task that has not ended is not mailed while the call could still wait for it.
GateHolds ==
    /\ \A i \in 1..Len(mails) :
          /\ Gate(mails[i].text) = "sent"
          /\ ~IsBackendUnavailable(mails[i].text, mails[i].state)
          /\ mails[i].state \in Terminal \cup {"?"} \/ mails[i].spent
    /\ Len(mails) <= 1 + lost

\* The Job's deadline never kills a first attempt, however late in the window
\* the backend comes back and however the two adherence attempts follow it.  It
\* has to leave room for the window and two calls with the overrun of a last
\* poll each: a little more than the "must exceed BACKEND_RETRY_SECONDS + BUDGET"
\* of triage_run.py:219-221, and well under the 2100 s of the CronJobs.
FirstAttemptInTime == attempt = 1 => run.result # "killed"

\* The two retries do not eat each other: a requeue never uses up the one
\* corrective re-ask, nor the re-ask the window.  A run gives up for adherence
\* after exactly two reachable misses, and never asks a third time; "a terminal
\* error means GPU unavailable AND the job already failed repeatedly"
\* (triage_run.py:26-27).
RetriesAreSeparate ==
    /\ misses <= 2
    /\ run.result \in {"empty", "malformed"} => misses = 2
    /\ run.result = "error" => misses <= 1 /\ outages >= 2

\* "return (final_text, state) within budget s" (a2a_client.py:83), up to the
\* floor of the last poll's timeout, however sends, sleeps and failed polls add
\* up: what the split of the budget in two calls rests on.  A single request is
\* taken to end within its timeout; urllib applies the timeout to each socket
\* operation, so a response that trickles in is outside of this.
CallsKeepBudget == run.pc = "judge" /\ Returned => now < call.deadline + PollMin

\* In every state: well formed, nothing mailed but tagged replies of tasks that
\* ended or used up their call's time, and no call past its share of the budget.
TriageSound == TypeOK /\ GateHolds /\ CallsKeepBudget
=============================================================================
