-------------------------- MODULE TriageRunProofs --------------------------
(***************************************************************************)
(* Theorems about TriageRun, for any budget, window, deadline, backoff and *)
(* timeouts, any number of attempts and whatever the agent may answer.     *)
(***************************************************************************)
EXTENDS TriageRun, TLAPS

\* The process is alive.
Asking == {"ask", "judge", "notify"}

Call == [pc : {"send", "poll", "returned"}, text : Texts, state : States, deadline : Nat,
         budget : Nat]

Results == {"none", "sent", "allclear", "empty", "malformed", "error", "job-failed", "killed"}

Run == [pc : Asking \cup {"failed", "ended"}, deadline : Nat, backoff : 1..BackoffMax,
        retry : BOOLEAN, result : Results]

Replies == [text : Texts, state : States, spent : BOOLEAN]

Typed == TypeOK /\ call \in Call /\ run \in Run /\ outages \in 0..2

\* The misses are those that drift_retry_used remembers.
Accounted ==
    /\ run.pc # "ended" => run.result = "none"
    /\ run.pc \in Asking => misses = IF run.retry THEN 1 ELSE 0
    /\ misses <= 2
    /\ run.result \in {"empty", "malformed"} => misses = 2

\* A call that returned while its task was still in work had used its time.
Waited ==
    call.pc = "returned" =>
        call.state \in Terminal \cup {"?", "transport-error"} \/ now >= call.deadline

\* There is a call only while it is waited for; it has its share of the budget,
\* does not outlast it by more than the floor of a poll's timeout, and waits for
\* a task as long as it may.
InCall ==
    /\ run.pc \in {"ask", "notify"} => call.pc = "returned"
    /\ run.pc = "judge" =>
         /\ call.budget = PerCall
         /\ call.pc = "send" => call.deadline = now + PerCall
         /\ now < call.deadline + PollMin
         /\ Waited

\* The longest a call can take.
Longest == PerCall + PollMin - 1

\* What an adherence attempt before this one may have taken.
Before == IF run.retry THEN Longest ELSE 0

\* A call begins with the attempt or with the window, up to one earlier call.
Timely ==
    /\ attempt = 1 => run.deadline = Window
    /\ run.pc = "ask" =>
         /\ outages = 0 => now + Window <= run.deadline + Before
         /\ attempt = 1 => now <= Window + Before
    /\ run.pc = "judge" =>
         /\ outages = 0 => call.deadline + Window <= run.deadline + PerCall + Before
         /\ attempt = 1 => call.deadline <= Window + PerCall + Before
    /\ run.pc = "notify" /\ attempt = 1 => now <= Window + 2 * Longest

\* What GateHolds asks of a mail, of the reply at hand.
Sendable ==
    /\ Gate(call.text) = "sent"
    /\ ~Unavailable
    /\ call.state \in Terminal \cup {"?"} \/ now >= call.deadline

\* A mail of a run that goes on is one whose response was lost.
Mailed ==
    /\ GateHolds
    /\ run.pc \in Asking \cup {"failed"} => Len(mails) <= lost
    /\ run.pc = "notify" => Sendable

\* The inductive invariant.
Inv == Typed /\ Accounted /\ InCall /\ Timely /\ Mailed

-----------------------------------------------------------------------------
(* Times.                                                                  *)

(* The share of a call is positive and at least the floor of a send.       *)
LEMMA Shares ==
    /\ PerCall \in Nat \ {0} /\ SendMin <= PerCall /\ Longest \in Nat /\ Longest >= PerCall
    /\ SendMin \in Nat \ {0} /\ PollInterval \in Nat \ {0} /\ PollMin \in Nat \ {0}
    /\ PollMax \in Nat \ {0} /\ Window \in Nat \ {0} /\ BackoffMax \in Nat \ {0}
    /\ BackoffFirst \in 1..BackoffMax
<1>1. /\ Budget \in Nat /\ CallMin \in Nat \ {0} /\ SendMin \in Nat \ {0} /\ SendMin <= CallMin
      /\ PollInterval \in Nat \ {0} /\ PollMin \in Nat \ {0} /\ PollMax \in Nat \ {0}
      /\ Window \in Nat \ {0} /\ BackoffMax \in Nat \ {0} /\ BackoffFirst \in 1..BackoffMax
  BY RunAssumption, FloorsAssumption, TimeoutsAssumption
<1>2. Budget \div 2 \in Nat
  BY <1>1
<1>3. PerCall \in Nat \ {0} /\ SendMin <= PerCall
  BY <1>1, <1>2 DEF PerCall, Larger
<1>4. QED
  BY <1>1, <1>3 DEF Longest

(* The clock never goes back, and a call in progress keeps its share.      *)
LEMMA CallingStep ==
    ASSUME now \in Nat, call \in Call, Calling
    PROVE  /\ now' \in Nat /\ now <= now' /\ call' \in Call
           /\ call'.deadline = call.deadline /\ call'.budget = call.budget
           /\ call'.pc # "send"
           /\ (/\ call.budget = PerCall
               /\ call.pc = "send" => call.deadline = now + PerCall
               /\ now < call.deadline + PollMin) => now' < call.deadline + PollMin
<1>a. /\ call.deadline \in Nat /\ call.budget \in Nat /\ call.text \in Texts
      /\ call.state \in States /\ call.pc \in {"send", "poll", "returned"}
  BY DEF Call
<1>b. \A a \in Answers : a.text \in Texts /\ a.state \in States
  BY AnswersAssumption DEF States
<1>1. CASE SendEnds
  <2>1. PICK d \in 0..Larger(SendMin, call.budget - PollInterval), a \in Answers :
           /\ now' = now + d
           /\ call' = [call EXCEPT !.text = a.text, !.state = a.state,
                         !.pc = IF ReturnsAtOnce(a) THEN "returned" ELSE "poll"]
    BY <1>1 DEF SendEnds
  <2> DEFINE text == a.text
             state == a.state
             pc == IF ReturnsAtOnce(a) THEN "returned" ELSE "poll"
  <2>2. text \in Texts /\ state \in States /\ pc \in {"send", "poll", "returned"} /\ pc # "send"
    BY <1>b
  <2>3. call' = [call EXCEPT !.text = text, !.state = state, !.pc = pc]
    BY <2>1
  <2> HIDE DEF text, state, pc
  <2>4. call' \in Call
    BY <2>2, <2>3, Zenon DEF Call
  <2>5. call'.deadline = call.deadline /\ call'.budget = call.budget /\ call'.pc = pc
    BY <2>3 DEF Call
  <2>6. d \in Nat /\ (call.budget = PerCall => d <= PerCall)
    BY <1>a, <2>1, Shares DEF Larger
  <2>7. QED
    BY <1>1, <1>a, <2>1, <2>2, <2>4, <2>5, <2>6, Shares DEF SendEnds
<1>2. CASE SendFails
  <2>1. PICK d \in 0..Larger(SendMin, call.budget - PollInterval) : now' = now + d
    BY <1>2 DEF SendFails
  <2>2. call' = [call EXCEPT !.state = "transport-error", !.pc = "returned"]
    BY <1>2 DEF SendFails
  <2> DEFINE state == "transport-error"
             pc == "returned"
  <2>a. state \in States /\ pc \in {"send", "poll", "returned"} /\ pc # "send"
    BY DEF States
  <2>b. call' = [call EXCEPT !.state = state, !.pc = pc]
    BY <2>2
  <2> HIDE DEF state, pc
  <2>c. call' \in Call
    BY <2>a, <2>b, Zenon DEF Call
  <2>3. call'.deadline = call.deadline /\ call'.budget = call.budget /\ call'.pc = pc
    BY <2>b DEF Call
  <2>4. d \in Nat /\ (call.budget = PerCall => d <= PerCall)
    BY <1>a, <2>1, Shares DEF Larger
  <2>5. QED
    BY <1>2, <1>a, <2>1, <2>a, <2>c, <2>3, <2>4, Shares DEF SendFails
<1>3. CASE PollGivesUp
  <2>1. /\ call' \in Call /\ call'.deadline = call.deadline /\ call'.budget = call.budget
        /\ call'.pc = "returned"
    BY <1>3 DEF PollGivesUp, Call
  <2>2. QED
    BY <1>3, <1>a, <2>1, Shares DEF PollGivesUp, Woken, Smaller
<1>4. CASE Polls
  <2>1. PICK d \in 0..PollTimeout : now' = Woken + d
    BY <1>4 DEF Polls
  <2>2. Woken \in Nat /\ now <= Woken /\ Woken < call.deadline
    <3>1. now < call.deadline /\ Woken < call.deadline
      BY <1>4 DEF Polls
    <3>2. QED
      BY <1>a, <3>1, Shares DEF Woken, Smaller
  <2>3. d \in Nat /\ (d <= PollMin \/ d <= call.deadline - Woken)
    BY <1>a, <2>1, <2>2, Shares DEF PollTimeout, Larger, Smaller
  <2>4. now' \in Nat /\ now <= now' /\ now' < call.deadline + PollMin
    BY <1>a, <2>1, <2>2, <2>3, Shares
  <2>5. CASE UNCHANGED call
    BY <1>4, <2>4, <2>5 DEF Polls
  <2>6. ASSUME NEW a \in Answers,
               call' = [call EXCEPT !.text = IF a.text # "" THEN a.text ELSE @,
                          !.state = a.state,
                          !.pc = IF a.state \in Terminal THEN "returned" ELSE "poll"]
        PROVE  /\ call' \in Call /\ call'.deadline = call.deadline /\ call'.budget = call.budget
               /\ call'.pc # "send"
    <3> DEFINE text == IF a.text # "" THEN a.text ELSE call.text
               state == a.state
               pc == IF a.state \in Terminal THEN "returned" ELSE "poll"
    <3>1. text \in Texts /\ state \in States /\ pc \in {"send", "poll", "returned"} /\ pc # "send"
      BY <1>a, <1>b
    <3>2. call' = [call EXCEPT !.text = text, !.state = state, !.pc = pc]
      BY <2>6
    <3> HIDE DEF text, state, pc
    <3>3. call' \in Call
      BY <3>1, <3>2, Zenon DEF Call
    <3>4. call'.deadline = call.deadline /\ call'.budget = call.budget /\ call'.pc = pc
      BY <3>2 DEF Call
    <3>5. QED
      BY <3>1, <3>3, <3>4
  <2>7. QED
    BY <1>4, <2>4, <2>5, <2>6 DEF Polls
<1>5. QED
  BY <1>1, <1>2, <1>3, <1>4 DEF Calling

(* A call returns because its task ended, or because its time is spent.    *)
LEMMA CallingWaits ==
    ASSUME now \in Nat, call \in Call, Calling
    PROVE  Waited'
<1>a. /\ call.deadline \in Nat /\ call.state \in States /\ call.text \in Texts
  BY DEF Call
<1>1. CASE SendEnds
  <2>1. PICK a \in Answers :
           call' = [call EXCEPT !.text = a.text, !.state = a.state,
                      !.pc = IF ReturnsAtOnce(a) THEN "returned" ELSE "poll"]
    BY <1>1 DEF SendEnds
  <2> DEFINE text == a.text
             state == a.state
             pc == IF ReturnsAtOnce(a) THEN "returned" ELSE "poll"
  <2>2. pc = "returned" => state \in Terminal \cup {"?"}
    <3>1. a.id \/ a.state \in Terminal \cup {"?"}
      BY AnswersAssumption
    <3>2. CASE ReturnsAtOnce(a)
      BY <3>1, <3>2, Zenon DEF ReturnsAtOnce
    <3>3. CASE ~ReturnsAtOnce(a)
      BY <3>3
    <3>4. QED
      BY <3>2, <3>3
  <2>3. call' = [call EXCEPT !.text = text, !.state = state, !.pc = pc]
    BY <2>1
  <2> HIDE DEF text, state, pc
  <2>4. call'.state = state /\ call'.pc = pc
    BY <2>3 DEF Call
  <2>5. QED
    BY <2>2, <2>4 DEF Waited
<1>2. CASE SendFails
  <2>1. call'.state = "transport-error"
    BY <1>2 DEF SendFails, Call
  <2>2. QED
    BY <2>1 DEF Waited
<1>3. CASE PollGivesUp
  <2>1. call'.deadline = call.deadline
    BY <1>3 DEF PollGivesUp, Call
  <2>2. now' >= call.deadline
    BY <1>3, <1>a DEF PollGivesUp
  <2>3. QED
    BY <2>1, <2>2 DEF Waited
<1>4. CASE Polls
  <2>1. CASE UNCHANGED call
    BY <1>4, <2>1 DEF Polls, Waited
  <2>2. ASSUME NEW a \in Answers,
               call' = [call EXCEPT !.text = IF a.text # "" THEN a.text ELSE @,
                          !.state = a.state,
                          !.pc = IF a.state \in Terminal THEN "returned" ELSE "poll"]
        PROVE  Waited'
    <3> DEFINE text == IF a.text # "" THEN a.text ELSE call.text
               state == a.state
               pc == IF a.state \in Terminal THEN "returned" ELSE "poll"
    <3>1. pc = "returned" => state \in Terminal
      OBVIOUS
    <3>2. call' = [call EXCEPT !.text = text, !.state = state, !.pc = pc]
      BY <2>2
    <3> HIDE DEF text, state, pc
    <3>3. call'.state = state /\ call'.pc = pc
      BY <3>2 DEF Call
    <3>4. QED
      BY <3>1, <3>3 DEF Waited
  <2>3. QED
    BY <1>4, <2>1, <2>2 DEF Polls
<1>5. QED
  BY <1>1, <1>2, <1>3, <1>4 DEF Calling

-----------------------------------------------------------------------------
(* Types.                                                                  *)

\* The run keeps its window and its corrective re-ask.
Keeps == run'.deadline = run.deadline /\ run'.retry = run.retry

(* What each way to assign to main's locals leaves in them.                *)
LEMMA RunMoves ==
    ASSUME now \in Nat, run \in Run
    PROVE  /\ \A p \in Asking \cup {"failed"} : run' = [run EXCEPT !.pc = p] =>
                run' \in Run /\ run'.pc = p /\ run'.result = run.result /\ Keeps
           /\ \A r \in Results : End(r) =>
                run' \in Run /\ run'.pc = "ended" /\ run'.result = r /\ Keeps
           /\ run' = [run EXCEPT !.pc = "ask", !.backoff = Smaller(2 * @, BackoffMax)] =>
                run' \in Run /\ run'.pc = "ask" /\ run'.result = run.result /\ Keeps
           /\ run' = [run EXCEPT !.pc = "ask", !.retry = TRUE] =>
                /\ run' \in Run /\ run'.pc = "ask" /\ run'.result = run.result
                /\ run'.deadline = run.deadline /\ run'.retry = TRUE
           /\ run' = Started =>
                /\ run' \in Run /\ run'.pc = "ask" /\ run'.result = "none"
                /\ run'.deadline = now + Window /\ run'.retry = FALSE
<1>1. ASSUME NEW p \in Asking \cup {"failed"}, run' = [run EXCEPT !.pc = p]
      PROVE  run' \in Run /\ run'.pc = p /\ run'.result = run.result /\ Keeps
  BY <1>1 DEF Run, Keeps
<1>2. ASSUME NEW r \in Results, End(r)
      PROVE  run' \in Run /\ run'.pc = "ended" /\ run'.result = r /\ Keeps
  BY <1>2 DEF Run, Keeps, End
<1>3. ASSUME run' = [run EXCEPT !.pc = "ask", !.backoff = Smaller(2 * @, BackoffMax)]
      PROVE  run' \in Run /\ run'.pc = "ask" /\ run'.result = run.result /\ Keeps
  <2> DEFINE b == Smaller(2 * run.backoff, BackoffMax)
             pc == "ask"
  <2>1. b \in 1..BackoffMax /\ pc \in Asking
    BY Shares DEF Run, Smaller, Asking
  <2>2. run' = [run EXCEPT !.pc = pc, !.backoff = b]
    BY <1>3
  <2> HIDE DEF b, pc
  <2>3. run' \in Run
    BY <2>1, <2>2, Zenon DEF Run
  <2>4. run'.pc = pc /\ run'.result = run.result /\ Keeps
    BY <2>2 DEF Run, Keeps
  <2>5. QED
    BY <2>3, <2>4 DEF pc
<1>4. ASSUME run' = [run EXCEPT !.pc = "ask", !.retry = TRUE]
      PROVE  /\ run' \in Run /\ run'.pc = "ask" /\ run'.result = run.result
             /\ run'.deadline = run.deadline /\ run'.retry = TRUE
  BY <1>4 DEF Run, Asking
<1>5. ASSUME run' = Started
      PROVE  /\ run' \in Run /\ run'.pc = "ask" /\ run'.result = "none"
             /\ run'.deadline = now + Window /\ run'.retry = FALSE
  BY <1>5, Shares DEF Started, Run, Asking, Results
<1>6. QED
  BY <1>1, <1>2, <1>3, <1>4, <1>5, Zenon

(* A reply that may be mailed is a text.                                   *)
LEMMA GateIs ==
    \A text : /\ Gate(text) \in {"sent", "allclear", "empty", "malformed"}
              /\ Gate(text) = "sent" => text \in {"finding", "finding503"} /\ text \in Texts
BY DEF Gate, Texts

(* Types are preserved.                                                    *)
LEMMA TypeStep ==
    ASSUME Inv, [Next]_vars
    PROVE  Typed'
<1>a. /\ now \in Nat /\ call \in Call /\ run \in Run /\ attempt \in 1..Attempts
      /\ mails \in Seq(Replies) /\ lost \in Nat /\ misses \in Nat /\ outages \in 0..2
  BY DEF Inv, Typed, TypeOK, Replies
<1>b. ASSUME /\ now' \in Nat /\ call' \in Call /\ run' \in Run /\ attempt' \in 1..Attempts
             /\ mails' \in Seq(Replies) /\ lost' \in Nat /\ misses' \in Nat /\ outages' \in 0..2
      PROVE  Typed'
  BY <1>b DEF Typed, TypeOK, Call, Run, Asking, Results, Replies
<1>c. NoCall \in Call
  BY DEF NoCall, Call, Texts, States
<1>d. Smaller(2, outages + 1) \in 0..2 /\ misses + 1 \in Nat
  BY <1>a DEF Smaller
<1>e. {"none", "sent", "allclear", "empty", "malformed", "error", "job-failed", "killed"} = Results
  BY DEF Results
<1>1. CASE Ask
  <2> DEFINE deadline == now + PerCall
  <2>a. deadline \in Nat /\ PerCall \in Nat
    BY <1>a, Shares
  <2>b. call' = [pc |-> "send", text |-> "", state |-> "?", deadline |-> deadline,
                 budget |-> PerCall]
    BY <1>1 DEF Ask, CallAgent
  <2> HIDE DEF deadline
  <2>1. call' \in Call
    BY <2>a, <2>b DEF Call, Texts, States
  <2>2. QED
    BY <1>1, <1>a, <1>b, <2>1, RunMoves DEF Ask, Asking
<1>2. CASE CallStep
  BY <1>2, <1>a, <1>b, CallingStep DEF CallStep
<1>3. CASE Requeue
  <2>1. now' \in Nat
    BY <1>3, <1>a DEF Requeue, Smaller, Run
  <2>2. QED
    BY <1>3, <1>a, <1>b, <1>c, <1>d, <2>1, RunMoves DEF Requeue
<1>4. CASE GiveUp
  BY <1>4, <1>a, <1>b, <1>c, <1>d, <1>e, RunMoves DEF GiveUp
<1>5. CASE Productive
  BY <1>5, <1>a, <1>b, <1>e, RunMoves DEF Productive, Asking
<1>6. CASE Miss
  BY <1>6, <1>a, <1>b, <1>c, <1>d, <1>e, RunMoves DEF Miss
<1>7. CASE Notify
  <2>1. Reply \in Replies
    BY <1>a DEF Call, Reply, Replies
  <2>2. Append(mails, Reply) \in Seq(Replies) /\ lost + 1 \in Nat
    BY <1>a, <2>1
  <2>3. now' \in Nat
    BY <1>7, <1>a, RunAssumption DEF Notify
  <2>4. run' \in Run
    BY <1>7, <1>a, <1>e, RunMoves DEF Notify
  <2>5. QED
    BY <1>7, <1>a, <1>b, <2>2, <2>3, <2>4 DEF Notify
<1>8. CASE Drain
  BY <1>8, <1>a, <1>b, RunMoves DEF Drain
<1>9. CASE Retry
  <2>1. attempt < Attempts => attempt + 1 \in 1..Attempts
    BY <1>a, RunAssumption
  <2>2. run' \in Run
    BY <1>9, <1>a, <1>e, RunMoves DEF Retry
  <2>3. /\ attempt' \in 1..Attempts /\ call' \in Call /\ outages' \in 0..2 /\ misses' \in Nat
        /\ UNCHANGED <<now, mails, lost>>
    BY <1>9, <1>a, <1>c, <2>1 DEF Retry
  <2>4. QED
    BY <1>a, <1>b, <2>2, <2>3
<1>10. CASE Deadline
  BY <1>10, <1>a, <1>b, <1>e, RunMoves DEF Deadline
<1>11. CASE UNCHANGED vars
  BY <1>11, <1>a, <1>b DEF vars
<1>12. QED
  BY <1>1, <1>2, <1>3, <1>4, <1>5, <1>6, <1>7, <1>8, <1>9, <1>10, <1>11 DEF Next, Step

-----------------------------------------------------------------------------

(* A step that ends the process, or sends nothing while it goes on, keeps  *)
(* what is known of the mails.                                             *)
LEMMA MailsKept ==
    ASSUME Mailed, UNCHANGED <<mails, lost>>,
           run.pc \in Asking \cup {"failed"} \/ run'.pc \notin Asking \cup {"failed"},
           run'.pc = "notify" => Sendable'
    PROVE  Mailed'
BY DEF Mailed, GateHolds

(* The steps of the process while it asks.                                 *)
LEMMA AskingStep ==
    ASSUME Inv, Ask \/ CallStep \/ Requeue \/ Productive \/ Miss
    PROVE  Accounted' /\ InCall' /\ Timely' /\ Mailed'
<1>a. /\ now \in Nat /\ call \in Call /\ run \in Run /\ attempt \in Nat
      /\ lost \in Nat /\ misses \in Nat /\ outages \in 0..2 /\ run.deadline \in Nat
      /\ call.deadline \in Nat /\ run.retry \in BOOLEAN
  BY RunAssumption DEF Inv, Typed, TypeOK, Call, Run
<1>b. Accounted /\ InCall /\ Timely /\ Mailed
  BY DEF Inv
<1>c. Before \in Nat /\ Longest \in Nat /\ PerCall \in Nat /\ PollMin \in Nat \ {0} /\ Window \in Nat
      /\ Longest = PerCall + PollMin - 1 /\ Before <= Longest
  BY <1>a, Shares DEF Before, Longest
<1>d. Keeps => Before' = Before
  BY DEF Before, Keeps, Longest
<1>1. CASE Ask
  <2>1. run.pc = "ask" /\ run'.pc = "judge" /\ run'.result = run.result /\ Keeps
    BY <1>1, <1>a, RunMoves DEF Ask, Asking
  <2>2. call'.pc = "send" /\ call'.deadline = now + PerCall /\ call'.budget = PerCall
        /\ UNCHANGED <<now, attempt, mails, lost, outages, misses>>
    BY <1>1 DEF Ask, CallAgent
  <2>3. Accounted' /\ Mailed'
    BY <1>a, <1>b, <2>1, <2>2, MailsKept DEF Accounted, Asking, Keeps
  <2>4. InCall'
    BY <1>a, <1>c, <2>1, <2>2 DEF InCall, Waited
  <2>5. Timely'
    BY <1>a, <1>b, <1>c, <1>d, <2>1, <2>2 DEF Timely, Keeps
  <2>6. QED
    BY <2>3, <2>4, <2>5
<1>2. CASE CallStep
  <2>1. UNCHANGED <<run, attempt, mails, lost, outages, misses>> /\ Calling
    BY <1>2 DEF CallStep
  <2>2. run.pc = "judge"
    BY <1>2 DEF CallStep
  <2>3. run.pc \notin {"ask", "notify"} /\ call'.deadline = call.deadline
    BY <1>a, <2>1, <2>2, CallingStep
  <2>4. Accounted' /\ Mailed'
    BY <1>b, <2>1, <2>3 DEF Accounted, Mailed, GateHolds
  <2>5. InCall'
    BY <1>a, <1>b, <2>1, <2>3, CallingStep, CallingWaits DEF InCall
  <2>6. Timely'
    BY <1>b, <2>1, <2>3 DEF Timely, Before, Longest
  <2>7. QED
    BY <2>4, <2>5, <2>6
<1>3. CASE Requeue
  <2>1. run.pc = "judge" /\ run'.pc = "ask" /\ run'.result = run.result /\ Keeps
    BY <1>3, <1>a, RunMoves DEF Requeue
  <2>2. /\ now < run.deadline /\ now' = now + Smaller(run.backoff, run.deadline - now)
        /\ outages' = Smaller(2, outages + 1) /\ call' = NoCall
        /\ UNCHANGED <<attempt, mails, lost, misses>>
    BY <1>3 DEF Requeue
  <2>3. now' <= run.deadline /\ outages' # 0 /\ now' \in Nat
    BY <1>a, <2>2 DEF Smaller, Run
  <2>4. Accounted' /\ Mailed'
    BY <1>a, <1>b, <2>1, <2>2, MailsKept DEF Accounted, Asking, Keeps
  <2>5. InCall'
    BY <2>1, <2>2 DEF InCall, NoCall
  <2>6. Timely'
    BY <1>a, <1>b, <1>c, <1>d, <2>1, <2>2, <2>3 DEF Timely, Keeps
  <2>7. QED
    BY <2>4, <2>5, <2>6
<1>4. CASE Productive
  <2>1. run.pc = "judge" /\ call.pc = "returned"
        /\ UNCHANGED <<now, call, attempt, mails, lost, outages, misses>>
    BY <1>4 DEF Productive, Returned
  <2>2. \/ run'.pc = "ended" /\ run'.result = "allclear" /\ Keeps
        \/ /\ run'.pc = "notify" /\ Gate(call.text) = "sent" /\ run'.result = run.result /\ Keeps
    BY <1>4, <1>a, RunMoves DEF Productive, Asking, Results
  <2>a. ~Unavailable /\ Waited
    BY <1>4, <1>b, <2>1 DEF Productive, InCall
  <2>b. run'.pc = "notify" => Sendable'
    <3>1. call.state # "transport-error"
      BY <2>a DEF Unavailable, IsBackendUnavailable
    <3>2. Gate(call.text) = "sent" => Sendable
      BY <2>1, <2>a, <3>1 DEF Waited, Sendable
    <3>3. Sendable => Sendable'
      BY <2>1 DEF Sendable, Unavailable
    <3>4. QED
      BY <2>2, <3>2, <3>3
  <2>3. Accounted' /\ Mailed'
    BY <1>a, <1>b, <2>1, <2>2, <2>b, MailsKept DEF Accounted, Asking, Keeps
  <2>4. InCall'
    BY <2>1, <2>2 DEF InCall
  <2>5. attempt = 1 => now <= Window + 2 * Longest
    BY <1>a, <1>b, <1>c, <2>1 DEF Timely, InCall
  <2>6. Timely'
    BY <1>b, <2>1, <2>2, <2>5 DEF Timely, Keeps, Longest
  <2>7. QED
    BY <2>3, <2>4, <2>6
<1>5. CASE Miss
  <2>1. run.pc = "judge" /\ call' = NoCall /\ misses' = misses + 1
        /\ UNCHANGED <<now, attempt, mails, lost, outages>>
    BY <1>5 DEF Miss
  <2>2. CASE run.retry /\ End(Gate(call.text))
    <3>1. run'.pc = "ended" /\ run'.deadline = run.deadline /\ run'.result \in Results
      BY <1>5, <1>a, <2>2, RunMoves DEF Miss, Results, Keeps
    <3>2. misses = 1
      BY <1>b, <2>1, <2>2 DEF Accounted, Asking
    <3>3. QED
      BY <1>b, <2>1, <3>1, <3>2, MailsKept DEF Accounted, InCall, Timely, Asking
  <2>3. CASE ~run.retry /\ run' = [run EXCEPT !.pc = "ask", !.retry = TRUE]
    <3>1. run'.pc = "ask" /\ run'.deadline = run.deadline /\ run'.result = run.result
          /\ run'.retry = TRUE
      BY <1>a, <2>3, RunMoves
    <3>2. misses = 0 /\ Before = 0 /\ Before' = Longest
      BY <1>b, <2>1, <2>3, <3>1 DEF Accounted, Asking, Before, Longest
    <3>3. Accounted' /\ Mailed'
      BY <1>b, <2>1, <3>1, <3>2, MailsKept DEF Accounted, Asking
    <3>4. InCall'
      BY <2>1, <3>1 DEF InCall, NoCall
    <3>5. Timely'
      BY <1>a, <1>b, <1>c, <2>1, <3>1, <3>2 DEF Timely, InCall
    <3>6. QED
      BY <3>3, <3>4, <3>5
  <2>4. QED
    BY <1>5, <2>2, <2>3 DEF Miss
<1>6. QED
  BY <1>1, <1>2, <1>3, <1>4, <1>5

(* The steps that end an attempt, and the Job that starts the next one.    *)
LEMMA EndingStep ==
    ASSUME Inv, GiveUp \/ Notify \/ Drain \/ Retry \/ Deadline
    PROVE  Accounted' /\ InCall' /\ Timely' /\ Mailed'
<1>a. /\ now \in Nat /\ call \in Call /\ run \in Run /\ attempt \in Nat \ {0}
      /\ lost \in Nat /\ misses \in Nat /\ outages \in 0..2 /\ run.deadline \in Nat
      /\ mails \in Seq(Replies) /\ Len(mails) \in Nat
  BY RunAssumption DEF Inv, Typed, TypeOK, Run, Replies
<1>b. Accounted /\ InCall /\ Timely /\ Mailed
  BY DEF Inv
<1>c. Longest \in Nat /\ Window \in Nat
  BY Shares
<1>1. ASSUME run'.pc \in {"failed", "ended"}, run'.pc = "failed" => run'.result = "none",
             run'.result \notin {"empty", "malformed"}, Keeps, UNCHANGED <<attempt, misses>>
      PROVE  Accounted' /\ InCall' /\ Timely'
  BY <1>1, <1>b DEF Accounted, InCall, Timely, Keeps, Asking
<1>2. CASE GiveUp
  <2>1. run.pc = "judge" /\ run'.pc = "ended" /\ run'.result = "error" /\ Keeps
        /\ UNCHANGED <<attempt, misses, mails, lost>>
    BY <1>2, <1>a, RunMoves DEF GiveUp, Results
  <2>2. QED
    BY <1>1, <1>b, <2>1, MailsKept DEF Asking
<1>3. CASE Notify
  <2>1. run.pc = "notify" /\ Sendable /\ Len(mails) <= lost
        /\ run.result = "none"
    BY <1>3, <1>b DEF Notify, Mailed, Asking, Accounted
  <2>2. /\ UNCHANGED <<attempt, misses>> /\ Keeps
        /\ \/ /\ run'.pc = "ended" /\ run'.result = "sent"
              /\ mails' = Append(mails, Reply) /\ lost' = lost
           \/ /\ run'.pc = "failed" /\ run'.result = "none"
              /\ \/ UNCHANGED <<mails, lost>>
                 \/ mails' = Append(mails, Reply) /\ lost' = lost + 1
    BY <1>3, <1>a, <2>1, RunMoves DEF Notify, Results
  <2>3. CASE UNCHANGED <<mails, lost>>
    BY <1>1, <1>b, <2>1, <2>2, <2>3, MailsKept DEF Asking
  <2>4. CASE mails' = Append(mails, Reply)
    <3> DEFINE Held(m) == /\ Gate(m.text) = "sent"
                          /\ ~IsBackendUnavailable(m.text, m.state)
                          /\ m.state \in Terminal \cup {"?"} \/ m.spent
    <3>1. Reply \in Replies /\ Held(Reply)
      <4>1. /\ Reply.text = call.text /\ Reply.state = call.state
            /\ Reply.spent = (now >= call.deadline)
        BY DEF Reply
      <4>2. Reply \in Replies
        BY <1>a DEF Call, Reply, Replies
      <4>3. QED
        BY <2>1, <4>1, <4>2 DEF Sendable, Unavailable
    <3>2. /\ Len(mails') = Len(mails) + 1
          /\ \A i \in 1..Len(mails') :
               mails'[i] = IF i <= Len(mails) THEN mails[i] ELSE Reply
      BY <1>a, <2>4, <3>1
    <3>a. \A i \in 1..Len(mails) : Held(mails[i])
      BY <1>b DEF Mailed, GateHolds
    <3> HIDE DEF Held
    <3>3. \A i \in 1..Len(mails') : Held(mails'[i])
      BY <1>a, <3>1, <3>2, <3>a
    <3> USE DEF Held
    <3>4. /\ Len(mails') <= 1 + lost'
          /\ run'.pc \in Asking \cup {"failed"} => Len(mails') <= lost'
      BY <1>a, <2>1, <2>2, <2>4, <3>2 DEF Asking
    <3>5. Mailed'
      BY <2>2, <3>3, <3>4 DEF Mailed, GateHolds
    <3>6. QED
      BY <1>1, <2>2, <3>5
  <2>5. QED
    BY <2>2, <2>3, <2>4
<1>4. CASE Drain
  <2>1. run.pc \in Asking /\ run'.pc = "failed" /\ run'.result = run.result /\ Keeps
        /\ UNCHANGED <<attempt, misses, mails, lost>>
    BY <1>4, <1>a, RunMoves DEF Drain, Asking
  <2>2. run.result = "none"
    BY <1>b, <2>1 DEF Accounted, Asking
  <2>3. QED
    BY <1>1, <1>b, <2>1, <2>2, MailsKept DEF Asking
<1>5. CASE Deadline
  <2>1. run.pc \in Asking /\ run'.pc = "ended" /\ run'.result = "killed" /\ Keeps
        /\ UNCHANGED <<attempt, misses, mails, lost>>
    BY <1>5, <1>a, RunMoves DEF Deadline, Asking, Results
  <2>2. QED
    BY <1>1, <1>b, <2>1, MailsKept DEF Asking
<1>6. CASE Retry
  <2>1. CASE End("job-failed") /\ UNCHANGED <<attempt, misses>>
    <3>1. run'.pc = "ended" /\ run'.result = "job-failed" /\ Keeps /\ UNCHANGED <<mails, lost>>
      BY <1>6, <1>a, <2>1, RunMoves DEF Results, Retry
    <3>2. QED
      BY <1>1, <1>b, <2>1, <3>1, MailsKept DEF Asking
  <2>2. CASE attempt' = attempt + 1 /\ run' = Started /\ call' = NoCall
             /\ outages' = 0 /\ misses' = 0
    <3>1. run'.pc = "ask" /\ run'.result = "none" /\ run'.deadline = now + Window
          /\ run'.retry = FALSE
      BY <1>a, <2>2, RunMoves
    <3>2. run.pc = "failed" /\ UNCHANGED <<now, mails, lost>>
      BY <1>6 DEF Retry
    <3>3. Accounted' /\ Mailed'
      BY <1>b, <2>2, <3>1, <3>2, MailsKept DEF Accounted
    <3>4. InCall'
      BY <2>2, <3>1 DEF InCall, NoCall
    <3>5. attempt' # 1 /\ Before' = 0
      BY <1>a, <2>2, <3>1 DEF Before
    <3>6. Timely'
      BY <1>a, <1>c, <3>1, <3>2, <3>5 DEF Timely
    <3>7. QED
      BY <3>3, <3>4, <3>6
  <2>3. QED
    BY <1>6, <2>1, <2>2 DEF Retry
<1>7. QED
  BY <1>2, <1>3, <1>4, <1>5, <1>6

(* The invariant holds in every state.                                     *)
LEMMA Invariance == Spec => []Inv
<1>1. Init => Inv
  <2> SUFFICES ASSUME Init PROVE Inv
    OBVIOUS
  <2>1. /\ run \in Run /\ run.pc = "ask" /\ run.result = "none" /\ run.deadline = Window
        /\ run.retry = FALSE
    BY Shares DEF Init, Started, Run, Asking, Results
  <2>2. call \in Call /\ call.pc = "returned"
    BY DEF Init, NoCall, Call, Texts, States
  <2>3. /\ now = 0 /\ attempt = 1 /\ attempt \in 1..Attempts /\ mails = <<>> /\ lost = 0
        /\ outages = 0 /\ misses = 0
    BY RunAssumption DEF Init
  <2>4. Typed
    BY <2>1, <2>2, <2>3 DEF Typed, TypeOK, Run, Call, Asking, Results
  <2>5. Accounted /\ InCall /\ Mailed
    BY <2>1, <2>2, <2>3 DEF Accounted, InCall, Mailed, GateHolds
  <2>6. Timely
    BY <2>1, <2>3, Shares DEF Timely, Before
  <2>7. QED
    BY <2>4, <2>5, <2>6 DEF Inv
<1>2. Inv /\ [Next]_vars => Inv'
  <2> SUFFICES ASSUME Inv, [Next]_vars PROVE Inv'
    OBVIOUS
  <2>1. CASE UNCHANGED vars
    BY <2>1 DEF vars, Inv, Typed, TypeOK, Accounted, InCall, Timely, Mailed, GateHolds, Before,
                   Waited, Sendable, Unavailable
  <2>2. CASE Next
    BY <2>2, TypeStep, AskingStep, EndingStep DEF Next, Step, Inv
  <2>3. QED
    BY <2>1, <2>2
<1>3. QED
  BY <1>1, <1>2, PTL DEF Spec

-----------------------------------------------------------------------------
(* What the job promises.                                                  *)

(* Whatever the agent answers, over all asks, retries and attempts of the  *)
(* Job: only a reply with a problem tag and substance is mailed, and the   *)
(* one of a task that has not ended only when its call's time was spent;   *)
(* it is mailed once plus once for every send whose response was lost      *)
(* (triage_run.py:259-294), and no call outlasts its half of the budget by *)
(* the floor of a poll's timeout (a2a_client.py:82-136).                   *)
THEOREM TriageHolds == Spec => []TriageSound
<1>1. Inv => TriageSound
  <2> SUFFICES ASSUME Inv PROVE TriageSound
    OBVIOUS
  <2>1. TypeOK /\ GateHolds
    BY DEF Inv, Typed, Mailed
  <2>2. CallsKeepBudget
    BY DEF Inv, InCall, CallsKeepBudget
  <2>3. QED
    BY <2>1, <2>2 DEF TriageSound
<1>2. QED
  BY <1>1, Invariance, PTL

(* A run has a result only when it has ended, and which steps end it with  *)
(* an error or by the Job's deadline.                                      *)
LEMMA Outcomes ==
    ASSUME Inv, Next
    PROVE  /\ run'.result = "error" => GiveUp
           /\ run'.result = "killed" => Deadline
<1>a. now \in Nat /\ run \in Run /\ Accounted
  BY DEF Inv, Typed, TypeOK
<1>1. CASE Ask \/ CallStep \/ Requeue
  <2>1. run'.result = run.result /\ run.pc # "ended"
    BY <1>1, <1>a, RunMoves DEF Ask, CallStep, Requeue, Asking
  <2>2. QED
    BY <1>a, <2>1 DEF Accounted
<1>2. CASE Productive
  <2>1. run'.result \in {"allclear", run.result} /\ run.pc = "judge"
    BY <1>2, <1>a, RunMoves DEF Productive, Asking, Results
  <2>2. QED
    BY <1>a, <2>1 DEF Accounted
<1>3. CASE Miss
  <2>1. run'.result \in {"empty", "malformed", run.result} /\ run.pc = "judge"
    BY <1>3, <1>a, RunMoves DEF Miss, Results
  <2>2. QED
    BY <1>a, <2>1 DEF Accounted
<1>4. CASE Notify
  <2>1. run'.result \in {"sent", run.result} /\ run.pc = "notify"
    BY <1>4, <1>a, RunMoves DEF Notify, Results
  <2>2. QED
    BY <1>a, <2>1 DEF Accounted
<1>5. CASE Drain
  <2>1. run'.result = run.result /\ run.pc # "ended"
    BY <1>5, <1>a, RunMoves DEF Drain
  <2>2. QED
    BY <1>a, <2>1 DEF Accounted
<1>6. CASE Retry
  <2>1. run'.result \in {"none", "job-failed"}
    BY <1>6, <1>a, RunMoves DEF Retry, Results
  <2>2. QED
    BY <2>1
<1>7. CASE GiveUp
  <2>1. run'.result = "error"
    BY <1>7, <1>a, RunMoves DEF GiveUp, Results
  <2>2. QED
    BY <1>7, <2>1
<1>8. CASE Deadline
  <2>1. run'.result = "killed"
    BY <1>8, <1>a, RunMoves DEF Deadline, Results
  <2>2. QED
    BY <1>8, <2>1
<1>9. QED
  BY <1>1, <1>2, <1>3, <1>4, <1>5, <1>6, <1>7, <1>8 DEF Next, Step

(* When two calls fit in the window (2 * (400 + 14) < 900), the two        *)
(* retries do not use each other up: an outage is never counted as a miss, *)
(* a run ends for adherence after exactly two reachable misses, and it     *)
(* ends with an error only after the backend was unavailable at least      *)
(* twice (triage_run.py:26-27, 244-257, 293-301).                          *)
THEOREM RetriesStaySeparate ==
    ASSUME 2 * Longest < Window
    PROVE  Spec => []RetriesAreSeparate
<1> DEFINE Repeated == run.result = "error" => misses <= 1 /\ outages >= 2
<1>1. Init => Repeated
  BY DEF Init, Started
<1>2. Inv /\ Repeated /\ [Next]_vars => Repeated'
  <2> SUFFICES ASSUME Inv, Repeated, [Next]_vars PROVE Repeated'
    OBVIOUS
  <2>1. CASE UNCHANGED vars
    BY <2>1 DEF vars
  <2>2. CASE Next
    <3> SUFFICES ASSUME run'.result = "error" PROVE misses' <= 1 /\ outages' >= 2
      OBVIOUS
    <3>1. GiveUp
      BY <2>2, Outcomes
    <3>2. /\ run.pc = "judge" /\ now >= run.deadline /\ misses' = misses
          /\ outages' = Smaller(2, outages + 1)
      BY <3>1 DEF GiveUp
    <3>3. /\ now \in Nat /\ run.deadline \in Nat /\ call.deadline \in Nat
          /\ run.retry \in BOOLEAN /\ outages \in 0..2
      BY DEF Inv, Typed, TypeOK, Run, Call
    <3>4. misses <= 1
      BY <3>2 DEF Inv, Accounted, Asking
    <3>5. /\ now < call.deadline + PollMin
          /\ outages = 0 => call.deadline + Window <= run.deadline + PerCall + Before
      BY <3>2 DEF Inv, InCall, Timely
    <3>6. /\ PerCall \in Nat /\ PollMin \in Nat /\ Window \in Nat /\ Longest \in Nat
          /\ Longest = PerCall + PollMin - 1 /\ Before \in Nat /\ Before <= Longest
      BY <3>3, Shares DEF Longest, Before
    <3>7. outages # 0
      BY <3>2, <3>3, <3>5, <3>6
    <3>8. QED
      BY <3>2, <3>3, <3>4, <3>7 DEF Smaller
  <2>3. QED
    BY <2>1, <2>2
<1>3. Inv /\ Repeated => RetriesAreSeparate
  BY DEF Inv, Accounted, RetriesAreSeparate
<1>4. QED
  BY <1>1, <1>2, <1>3, Invariance, PTL DEF Spec

(* When the Job's deadline has room for the window and two calls after it  *)
(* (900 + 2 * (400 + 14) <= 2100), it never kills a first attempt, however *)
(* late the backend comes back (triage_run.py:219-224).                    *)
THEOREM FirstAttemptIsInTime ==
    ASSUME Window + 2 * Longest <= JobDeadline
    PROVE  Spec => []FirstAttemptInTime
<1>1. Init => FirstAttemptInTime
  BY DEF Init, Started, FirstAttemptInTime
<1>2. Inv /\ FirstAttemptInTime /\ [Next]_vars => FirstAttemptInTime'
  <2> SUFFICES ASSUME Inv, FirstAttemptInTime, [Next]_vars PROVE FirstAttemptInTime'
    OBVIOUS
  <2>1. CASE UNCHANGED vars
    BY <2>1 DEF vars, FirstAttemptInTime
  <2>2. CASE Next
    <3> SUFFICES ASSUME attempt' = 1, run'.result = "killed" PROVE FALSE
      BY DEF FirstAttemptInTime
    <3>1. Deadline
      BY <2>2, Outcomes
    <3>2. run.pc \in Asking /\ now > JobDeadline /\ attempt = 1
      BY <3>1 DEF Deadline, Asking
    <3>3. now \in Nat /\ call.deadline \in Nat /\ run.retry \in BOOLEAN /\ JobDeadline \in Nat
      BY RunAssumption DEF Inv, Typed, TypeOK, Run, Call
    <3>4. /\ PerCall \in Nat /\ PollMin \in Nat /\ Window \in Nat /\ Longest \in Nat
          /\ Longest = PerCall + PollMin - 1 /\ Before \in Nat /\ Before <= Longest
      BY <3>3, Shares DEF Longest, Before
    <3>5. CASE run.pc = "ask"
      BY <3>2, <3>3, <3>4, <3>5 DEF Inv, Timely
    <3>6. CASE run.pc = "judge"
      BY <3>2, <3>3, <3>4, <3>6 DEF Inv, InCall, Timely
    <3>7. CASE run.pc = "notify"
      BY <3>2, <3>3, <3>4, <3>7 DEF Inv, Timely
    <3>8. QED
      BY <3>2, <3>5, <3>6, <3>7 DEF Asking
  <2>3. QED
    BY <2>1, <2>2
<1>3. QED
  BY <1>1, <1>2, Invariance, PTL DEF Spec
=============================================================================
