----------------------------- MODULE AlertBridge -----------------------------
(***************************************************************************)
(* alert-agent-bridge: AlertManager posts a group of alerts; the handler   *)
(* takes a permit of a bounded semaphore and starts a thread that gathers  *)
(* Prometheus evidence, asks the agent and mails its answer.  Every        *)
(* request has a thread of its own; the agent, Prometheus and notify-mcp   *)
(* may fail at any step, and the pod may restart.                          *)
(***************************************************************************)
EXTENDS Naturals, FiniteSets, Sequences, SequencesExt

CONSTANTS
    Requests,    \* POSTs of AlertManager to /alerts
    Payloads,    \* their bodies: BadBody, NotObject or a sequence of alerts
    BadBody,     \* a body json.loads refuses
    NotObject,   \* JSON that is not an object: payload.get raises in the thread
    Nodes,       \* cluster nodes
    None,        \* an absent label
    MaxInflight, MaxAlerts, MaxPregatherPods, MaxPregatherNodes,
    PromUrl,     \* whether PROM_URL is set
    Threads      \* the outcomes of Thread.start: "ok", and "none" when it raises

ASSUME PoolAssumption == MaxInflight \in Nat \ {0} /\ IsFiniteSet(Requests)
ASSUME CapsAssumption ==
    {MaxAlerts, MaxPregatherPods, MaxPregatherNodes} \subseteq Nat \ {0}

VARIABLES
    sem,       \* the permits _sem has left
    job,       \* each request: where it is, and what _pregather has so far
    reply,     \* the status of its HTTP response, 0 when none
    working,   \* requests the agent is working on
    answered,  \* history: requests the agent answered with text
    abandoned, \* history: requests whose caller left before the agent ended
    mailed     \* requests whose enrichment was mailed

vars == <<sem, job, reply, working, answered, abandoned, mailed>>

\* _handle, from the first line of the thread to the one before its finally.
InHandle == {"handle", "pods", "nodes", "prompt", "calling", "notify", "finally"}

\* From the acquire of the permit to its release; a thread that could not be
\* started leaves its permit taken.
Holding == InHandle \cup {"acquired", "leaked"}

Fresh(where, alerts) ==
    [pc |-> where, alerts |-> alerts, at |-> 1, seen |-> <<>>, nodes |-> <<>>, queries |-> 0]

Init ==
    /\ sem = MaxInflight
    /\ job = [r \in Requests |-> Fresh("idle", <<>>)]
    /\ reply = [r \in Requests |-> 0]
    /\ working = {} /\ answered = {} /\ abandoned = {} /\ mailed = {}

-----------------------------------------------------------------------------

\* _firing, with the [:MAX_ALERTS] of the two loops over its result.
Firing(alerts) ==
    LET f == SelectSeq(alerts, LAMBDA a : a.firing)
    IN  SubSeq(f, 1, IF Len(f) < MaxAlerts THEN Len(f) ELSE MaxAlerts)

Goto(r, where) == job' = [job EXCEPT ![r].pc = where]

\* Mutant: the last permit is kept back.
NoPermitEarly == sem <= 1

\* _sem.acquire(blocking=False) fails.
NoPermit == sem = 0

\* do_POST up to the acquire: 400 for a bad body, 429 when no permit is left.
DoPost(r) ==
    /\ job[r].pc = "idle"
    /\ \E p \in Payloads :
         \/ /\ p = BadBody
            /\ Goto(r, "closed")
            /\ reply' = [reply EXCEPT ![r] = 400]
            /\ UNCHANGED sem
         \/ /\ p # BadBody /\ NoPermit
            /\ Goto(r, "closed")
            /\ reply' = [reply EXCEPT ![r] = 429]
            /\ UNCHANGED sem
         \/ /\ p # BadBody /\ ~NoPermit
            /\ sem' = sem - 1
            /\ job' = [job EXCEPT ![r] =
                         Fresh("acquired", IF p = NotObject THEN <<>> ELSE Firing(p))]
            /\ UNCHANGED reply
    /\ UNCHANGED <<working, answered, abandoned, mailed>>

\* Thread(...).start() and the 202.  When start raises, the exception leaves
\* do_POST: nobody releases the permit and no response is written.
StartThread(r) ==
    /\ job[r].pc = "acquired"
    /\ \E t \in Threads :
         IF t = "ok" THEN Goto(r, "handle") /\ reply' = [reply EXCEPT ![r] = 202]
                     ELSE Goto(r, "leaked") /\ UNCHANGED reply
    /\ UNCHANGED <<sem, working, answered, abandoned, mailed>>

\* _handle: return when nothing fires (or payload.get raised), else _pregather.
Handle(r) ==
    /\ job[r].pc = "handle"
    /\ Goto(r, IF job[r].alerts = <<>> THEN "finally"
               ELSE IF PromUrl THEN "pods" ELSE "prompt")
    /\ UNCHANGED <<sem, reply, working, answered, abandoned, mailed>>

\* Mutant: a pod already asked about is asked about again.
AskNoMemory(j, a) == a.pod # None

\* `if not pod or (ns, pod) in seen_pods: continue`, negated.
Ask(j, a) == a.pod # None /\ ~Contains(j.seen, a.pod)

\* The pod about to be added to seen_pods is the one beyond the cap.
Full(j) == Len(j.seen) >= MaxPregatherPods

\* The locals of _pregather after the five queries about an alert's pod, whose
\* node is n.
Asked(j, a, n) ==
    [j EXCEPT !.at = @ + 1, !.seen = Append(@, a.pod), !.queries = @ + 5,
              !.nodes = IF n = None \/ Contains(@, n) THEN @ ELSE Append(@, n)]

\* One turn of _pregather's loop over the alerts: five queries for a pod not
\* seen yet; its node is what kube_pod_info says (nothing, when the query
\* fails) or else the alert's label.  A number that cannot be rounded (infinity)
\* raises out of _pregather and of the whole thread.
GatherPod(r) ==
    /\ job[r].pc = "pods"
    /\ LET j == job[r] a == j.alerts[j.at] IN
         \/ j.at > Len(j.alerts) /\ Goto(r, "nodes")
         \/ /\ j.at <= Len(j.alerts) /\ ~Ask(j, a)
            /\ job' = [job EXCEPT ![r] = [j EXCEPT !.at = @ + 1]]
         \/ /\ j.at <= Len(j.alerts) /\ Ask(j, a) /\ Full(j)
            /\ Goto(r, "nodes")
         \/ /\ j.at <= Len(j.alerts) /\ Ask(j, a) /\ ~Full(j)
            /\ \E info \in Nodes \cup {None} :
                 job' = [job EXCEPT ![r] = Asked(j, a, IF info # None THEN info ELSE a.node)]
         \/ j.seen # <<>> /\ Goto(r, "finally")
    /\ UNCHANGED <<sem, reply, working, answered, abandoned, mailed>>

NodesAsked(nodes) == IF Len(nodes) < MaxPregatherNodes THEN Len(nodes) ELSE MaxPregatherNodes

\* _pregather's loop over nodes[:MAX_PREGATHER_NODES]: three queries each, whose
\* numbers may raise as well.
GatherNodes(r) ==
    /\ job[r].pc = "nodes"
    /\ \E where \in {"prompt"} \cup (IF job[r].nodes = <<>> THEN {} ELSE {"finally"}) :
         job' = [job EXCEPT ![r] = [Fresh(where, <<>>) EXCEPT
                   !.queries = job[r].queries + 3 * NodesAsked(job[r].nodes)]]
    /\ UNCHANGED <<sem, reply, working, answered, abandoned, mailed>>

\* _call_agent posts the prompt.
CallAgent(r) ==
    /\ job[r].pc = "prompt"
    /\ Goto(r, "calling")
    /\ working' = working \cup {r}
    /\ UNCHANGED <<sem, reply, answered, abandoned, mailed>>

\* The agent answers with text or with none.
AgentAnswers(r) ==
    /\ job[r].pc = "calling" /\ r \in working
    /\ working' = working \ {r}
    /\ \/ Goto(r, "notify") /\ answered' = answered \cup {r}
       \/ Goto(r, "finally") /\ UNCHANGED answered
    /\ UNCHANGED <<sem, reply, abandoned, mailed>>

\* The call raises: AGENT_TIMEOUT is spent while the agent works on, or the
\* agent fails.  The email is suppressed.
AgentFails(r) ==
    /\ job[r].pc = "calling"
    /\ Goto(r, "finally")
    /\ \/ working' = working \ {r} /\ UNCHANGED abandoned
       \/ abandoned' = abandoned \cup ({r} \cap working) /\ UNCHANGED working
    /\ UNCHANGED <<sem, reply, answered, mailed>>

\* The agent ends its work on a request nobody waits for any more.
AgentEnds(r) ==
    /\ r \in working \cap abandoned
    /\ working' = working \ {r}
    /\ UNCHANGED <<sem, job, reply, answered, abandoned, mailed>>

\* Mutant: the send is retried until it succeeds.
NotifyUntilSent(r) ==
    /\ job[r].pc = "notify"
    /\ UNCHANGED vars

\* _notify: a failed send is logged, never raised; the mail may be out though
\* the response is lost.
Notify(r) ==
    /\ job[r].pc = "notify"
    /\ Goto(r, "finally")
    /\ mailed' \in {mailed, mailed \cup {r}}
    /\ UNCHANGED <<sem, reply, working, answered, abandoned>>

\* Mutant: the permit is released on the way through, not in a finally.
ReleaseOnSuccess(r) ==
    /\ job[r].pc = "finally"
    /\ job' = [job EXCEPT ![r] = Fresh("closed", <<>>)]
    /\ sem' = IF r \in answered THEN sem + 1 ELSE sem
    /\ UNCHANGED <<reply, working, answered, abandoned, mailed>>

\* `finally: _sem.release()`
Release(r) ==
    /\ job[r].pc = "finally"
    /\ job' = [job EXCEPT ![r] = Fresh("closed", <<>>)]
    /\ sem' = sem + 1
    /\ UNCHANGED <<reply, working, answered, abandoned, mailed>>

\* The pod restarts: daemon threads die, the semaphore is new; the agent keeps
\* working on what it was sent.
Restart ==
    /\ \E r \in Requests : job[r].pc \in Holding
    /\ sem' = MaxInflight
    /\ job' = [r \in Requests |-> IF job[r].pc \in Holding THEN Fresh("closed", <<>>) ELSE job[r]]
    /\ abandoned' = abandoned \cup working
    /\ UNCHANGED <<reply, working, answered, mailed>>

Thread(r) ==
    \/ StartThread(r) \/ Handle(r) \/ GatherPod(r) \/ GatherNodes(r)
    \/ CallAgent(r) \/ AgentAnswers(r) \/ AgentFails(r) \/ Notify(r) \/ Release(r)

Next ==
    \/ \E r \in Requests : DoPost(r) \/ Thread(r) \/ AgentEnds(r)
    \/ Restart

Spec == Init /\ [][Next]_vars

\* The threads run, and every call they make has a timeout.
FairSpec == Spec /\ \A r \in Requests : WF_vars(Thread(r))

-----------------------------------------------------------------------------

\* The values the state can take.
TypeOK ==
    /\ sem \in 0..MaxInflight
    /\ \A r \in Requests : job[r].pc \in Holding \cup {"idle", "closed"}
    /\ \A r \in Requests : job[r].queries \in Nat
    /\ reply \in [Requests -> {0, 202, 400, 429}]
    /\ working \subseteq Requests /\ answered \subseteq Requests
    /\ abandoned \subseteq Requests /\ mailed \subseteq Requests

InPlace(where) == {r \in Requests : job[r].pc \in where}

\* Every permit is accounted for whatever raised, returned early, timed out or
\* restarted: those left, and one per request between its acquire and its
\* release (bridge.py:59, 301, 328).
PermitsAccounted == sem + Cardinality(InPlace(Holding)) = MaxInflight

\* A 202 promised work: no request answered 429 or 400 was handed to the agent
\* or mailed, and a mail carries an answer the agent gave to that very group,
\* never a fallback (bridge.py:281-299).
MailedWasAnswered ==
    /\ mailed \subseteq answered
    /\ \A r \in answered \cup working : reply[r] \notin {400, 429}

\* "Caps on how much we pre-gather per group, so an alert storm can't fan out
\* queries" (bridge.py:55): whatever a group holds and whatever Prometheus
\* answers, the queries are at most five per pod and three per node of the caps.
QueriesCapped ==
    \A r \in Requests :
        job[r].queries <= 5 * MaxPregatherPods + 3 * MaxPregatherNodes

\* _pregather asks about each pod once and passes none over before the cap is
\* reached: what it has asked about is the distinct pods of the alerts behind
\* it, and it stops at the end of the alerts or at a full cap (bridge.py:117-125).
EvidenceIsFirstPods ==
    \A r \in InPlace({"pods", "nodes"}) : LET j == job[r] IN
        /\ \A i, k \in 1..Len(j.seen) : j.seen[i] = j.seen[k] => i = k
        /\ \A i \in 1..(j.at - 1) : j.alerts[i].pod # None => Contains(j.seen, j.alerts[i].pod)
        /\ j.pc = "nodes" => j.at > Len(j.alerts) \/ Len(j.seen) = MaxPregatherPods

\* "caps concurrent agent calls so an alert storm can't ... hammer the local
\* model" (bridge.py:16): the agent works on at most MAX_INFLIGHT groups, as
\* long as no call was abandoned by a timeout or a restart.
LoadCapped == abandoned = {} => Cardinality(working) <= MaxInflight

\* What an alert storm may cost, in every state: the permits add up, the agent
\* and Prometheus are spared beyond the caps, and what is mailed was answered.
StormIsBounded ==
    TypeOK /\ PermitsAccounted /\ LoadCapped /\ QueriesCapped /\ MailedWasAnswered

\* Every accepted group ends and gives its permit back, whichever call fails:
\* a request that took a permit is closed in the end, unless its thread never
\* started (bridge.py:270-301).
JobsEnd == \A r \in Requests : job[r].pc \in Holding ~> job[r].pc \in {"closed", "leaked"}

\* The semaphore and the threads implement a bounded pool: a permit is a place,
\* a group is refused only while every place is taken, and a place is given up
\* exactly once (bridge.py:59, 327-333).
Pool == INSTANCE WorkerPool WITH
    Jobs <- Requests, Size <- MaxInflight,
    waiting <- InPlace({"idle"}),
    busy <- InPlace(Holding),
    refused <- {r \in Requests : reply[r] = 429}
PoolSpec == Pool!Spec
=============================================================================
