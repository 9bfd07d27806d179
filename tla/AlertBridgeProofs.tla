-------------------------- MODULE AlertBridgeProofs --------------------------
(***************************************************************************)
(* Theorems about AlertBridge, for any number of requests and permits, any *)
(* groups of alerts, any caps and any order of failures and restarts: what *)
(* a storm may cost, what the evidence is about, and that the semaphore    *)
(* implements the abstract pool of WorkerPool.                             *)
(***************************************************************************)
EXTENDS AlertBridge, FiniteSetTheorems, TLAPS

\* The lists of firing alerts a thread can be given, and the names in them.
AlertLists == {<<>>} \cup {Firing(p) : p \in Payloads}
PodNames == {l[i].pod : l \in AlertLists, i \in Nat}
NodeNames == Nodes \cup {l[i].node : l \in AlertLists, i \in Nat}

Job == [pc : Holding \cup {"idle", "closed"}, alerts : AlertLists, at : Nat \ {0},
        seen : Seq(PodNames), nodes : Seq(NodeNames), queries : Nat]

\* The type of the whole state, the locals of _pregather included.
Typed == TypeOK /\ job \in [Requests -> Job]

(* The locals a thread begins with are of their types.                     *)
LEMMA FreshIsTyped ==
    ASSUME NEW where \in Holding \cup {"idle", "closed"}, NEW l \in AlertLists
    PROVE  Fresh(where, l) \in Job
  BY DEF Fresh, Job

(* Goto moves one thread and keeps its locals.                             *)
LEMMA GotoIsTyped ==
    ASSUME Typed, NEW r \in Requests, NEW where \in Holding \cup {"idle", "closed"},
           Goto(r, where)
    PROVE  /\ job' \in [Requests -> Job]
           /\ job'[r].pc = where /\ job'[r].alerts = job[r].alerts
           /\ job'[r].at = job[r].at /\ job'[r].seen = job[r].seen
           /\ job'[r].queries = job[r].queries
           /\ \A q \in Requests \ {r} : job'[q] = job[q]
  BY DEF Goto, Typed, Job

(* The turn of the loop that asks about a pod, field by field.             *)
LEMMA AskedIs ==
    ASSUME NEW j \in Job, NEW a, NEW n
    PROVE  /\ Asked(j, a, n).pc = j.pc /\ Asked(j, a, n).alerts = j.alerts
           /\ Asked(j, a, n).at = j.at + 1
           /\ Asked(j, a, n).seen = Append(j.seen, a.pod)
           /\ Asked(j, a, n).queries = j.queries + 5
  BY DEF Asked, Job

(* The turn that asks about a pod keeps the types of the locals.           *)
LEMMA AskedIsTyped ==
    ASSUME NEW j \in Job, NEW a, NEW n, a.pod \in PodNames, n \in NodeNames
    PROVE  Asked(j, a, n) \in Job
<1> DEFINE at == j.at + 1
           seen == Append(j.seen, a.pod)
           queries == j.queries + 5
           nodes == IF n = None \/ Contains(j.nodes, n) THEN j.nodes ELSE Append(j.nodes, n)
<1>1. at \in Nat \ {0} /\ seen \in Seq(PodNames) /\ queries \in Nat /\ nodes \in Seq(NodeNames)
  BY DEF Job
<1>2. Asked(j, a, n) =
        [j EXCEPT !.at = at, !.seen = seen, !.queries = queries, !.nodes = nodes]
  BY DEF Asked
<1> HIDE DEF at, seen, queries, nodes
<1>3. QED
  BY <1>1, <1>2, Zenon DEF Job

(* GatherNodes keeps the queries and drops the lists.                      *)
LEMMA PromptIs ==
    ASSUME NEW where \in {"prompt", "finally"}, NEW q \in Nat
    PROVE  /\ [Fresh(where, <<>>) EXCEPT !.queries = q] \in Job
           /\ [Fresh(where, <<>>) EXCEPT !.queries = q].pc = where
           /\ [Fresh(where, <<>>) EXCEPT !.queries = q].queries = q
<1>1. [Fresh(where, <<>>) EXCEPT !.queries = q] =
        [pc |-> where, alerts |-> <<>>, at |-> 1, seen |-> <<>>, nodes |-> <<>>, queries |-> q]
  BY DEF Fresh
<1>2. <<>> \in Seq(PodNames) /\ <<>> \in Seq(NodeNames) /\ <<>> \in AlertLists
  BY DEF AlertLists
<1>3. where \in Holding \cup {"idle", "closed"} /\ 1 \in Nat \ {0}
  BY DEF Holding, InHandle
<1>4. [pc |-> where, alerts |-> <<>>, at |-> 1, seen |-> <<>>, nodes |-> <<>>, queries |-> q]
        \in Job
  BY <1>2, <1>3, Zenon DEF Job
<1>5. QED
  BY <1>1, <1>4

(* Every step keeps the types of all threads' locals.                      *)
LEMMA TypedStep == Typed /\ [Next]_vars => job' \in [Requests -> Job]
<1> SUFFICES ASSUME Typed, [Next]_vars
             PROVE  job' \in [Requests -> Job]
  OBVIOUS
<1>1. ASSUME NEW r \in Requests, DoPost(r)
      PROVE  job' \in [Requests -> Job]
  <2>1. \A p \in Payloads : (IF p = NotObject THEN <<>> ELSE Firing(p)) \in AlertLists
    BY DEF AlertLists
  <2>2. "acquired" \in Holding \cup {"idle", "closed"}
    BY DEF Holding
  <2>3. \A p \in Payloads :
            Fresh("acquired", IF p = NotObject THEN <<>> ELSE Firing(p)) \in Job
    BY <2>1, <2>2, FreshIsTyped
  <2>4. CASE Goto(r, "closed")
    BY <2>4, GotoIsTyped
  <2>5. CASE \E p \in Payloads : job' = [job EXCEPT ![r] =
                 Fresh("acquired", IF p = NotObject THEN <<>> ELSE Firing(p))]
    BY <2>3, <2>5 DEF Typed
  <2>6. QED
    BY <1>1, <2>4, <2>5 DEF DoPost
<1>2. ASSUME NEW r \in Requests, GatherPod(r)
      PROVE  job' \in [Requests -> Job]
  <2> DEFINE j == job[r]
             a == j.alerts[j.at]
  <2>1. j \in Job /\ j.at \in Nat /\ j.alerts \in AlertLists
    BY DEF Typed, Job
  <2>2. a.pod \in PodNames /\ a.node \in NodeNames
    BY <2>1 DEF PodNames, NodeNames
  <2>3. CASE Goto(r, "nodes")
    BY <2>3, GotoIsTyped DEF Holding, InHandle
  <2>4. [j EXCEPT !.at = @ + 1] \in Job
    BY <2>1 DEF Job
  <2>5. \A info \in Nodes \cup {None} :
            Asked(j, a, IF info # None THEN info ELSE a.node) \in Job
    BY <2>1, <2>2, AskedIsTyped DEF NodeNames
  <2>6. CASE Goto(r, "finally")
    BY <2>6, GotoIsTyped DEF Holding, InHandle
  <2>7. QED
    BY <1>2, <2>3, <2>4, <2>5, <2>6 DEF GatherPod, Typed
<1>3. ASSUME NEW r \in Requests, GatherNodes(r)
      PROVE  job' \in [Requests -> Job]
  <2>1. NodesAsked(job[r].nodes) \in Nat
    BY CapsAssumption DEF NodesAsked, Typed, Job
  <2>2. job[r].queries + 3 * NodesAsked(job[r].nodes) \in Nat
    BY <2>1 DEF Typed, Job
  <2>3. QED
    BY <1>3, <2>2, PromptIs DEF GatherNodes, Typed
<1>4. ASSUME NEW r \in Requests, Release(r)
      PROVE  job' \in [Requests -> Job]
  <2>1. Fresh("closed", <<>>) \in Job
    BY FreshIsTyped DEF AlertLists
  <2>2. QED
    BY <1>4, <2>1 DEF Release, Typed
<1>5. CASE Restart
  <2>1. Fresh("closed", <<>>) \in Job
    BY FreshIsTyped DEF AlertLists
  <2>2. QED
    BY <1>5, <2>1 DEF Restart, Typed
<1>6. ASSUME NEW r \in Requests, NEW where \in Holding \cup {"idle", "closed"}, Goto(r, where)
      PROVE  job' \in [Requests -> Job]
  BY <1>6, GotoIsTyped
<1>7. ASSUME NEW r \in Requests,
             StartThread(r) \/ Handle(r) \/ CallAgent(r) \/ AgentAnswers(r)
               \/ AgentFails(r) \/ Notify(r)
      PROVE  job' \in [Requests -> Job]
  <2>1. \E where \in Holding : Goto(r, where)
    BY <1>7 DEF StartThread, Handle, CallAgent, AgentAnswers, AgentFails, Notify,
                Holding, InHandle
  <2>2. QED
    BY <1>6, <2>1
<1>8. CASE job' = job
  BY <1>8 DEF Typed
<1>9. QED
  BY <1>1, <1>2, <1>3, <1>4, <1>5, <1>7, <1>8 DEF Next, Thread, AgentEnds, vars

-----------------------------------------------------------------------------

\* What the caps allow _pregather to ask.
QueryCap == 5 * MaxPregatherPods + 3 * MaxPregatherNodes

\* The locals of one thread: nothing gathered before _pregather; in it, five
\* queries per pod seen, each pod once, none passed over; the caps throughout.
Gathered(j) ==
    /\ j.pc \in {"acquired", "handle"} => j.at = 1 /\ j.seen = <<>> /\ j.queries = 0
    /\ j.pc \in {"pods", "nodes"} =>
         /\ j.queries = 5 * Len(j.seen) /\ Len(j.seen) <= MaxPregatherPods
         /\ \A i, k \in 1..Len(j.seen) : j.seen[i] = j.seen[k] => i = k
         /\ \A i \in 1..(j.at - 1) :
               j.alerts[i].pod # None => \E k \in 1..Len(j.seen) : j.seen[k] = j.alerts[i].pod
    /\ j.pc = "nodes" => j.at > Len(j.alerts) \/ Len(j.seen) = MaxPregatherPods
    /\ j.queries <= QueryCap

\* The response of a request against the place of its thread, and what has
\* been done in its name.
Replied ==
    /\ \A r \in Requests :
         /\ job[r].pc \in {"idle", "acquired", "leaked"} => reply[r] = 0
         /\ job[r].pc \in InHandle => reply[r] = 202
         /\ r \in answered \cup working => reply[r] = 202
         /\ job[r].pc = "notify" => r \in answered
    /\ mailed \subseteq answered

\* The agent works for a thread that waits, or for nobody.
Awaited == working \ abandoned \subseteq InPlace({"calling"})

\* The inductive invariant.
Inv ==
    /\ Typed /\ PermitsAccounted /\ Replied /\ Awaited
    /\ \A r \in Requests : Gathered(job[r])

(* A thread that moves on without gathering keeps what it has.             *)
LEMMA GotoGathered ==
    ASSUME Inv, NEW r \in Requests, NEW where \in Holding \cup {"closed"}, Goto(r, where),
           where \notin {"acquired", "handle", "pods", "nodes"}
    PROVE  \A q \in Requests : Gathered(job'[q])
<1>1. job'[r].pc = where /\ job'[r].queries = job[r].queries
  BY GotoIsTyped DEF Inv
<1>2. Gathered(job'[r])
  BY <1>1 DEF Inv, Gathered
<1>3. QED
  BY <1>2, GotoIsTyped DEF Inv

(* _pregather stays within its caps and misses no pod, turn by turn.       *)
LEMMA GatheredStep == Inv /\ [Next]_vars => \A q \in Requests : Gathered(job'[q])
<1> SUFFICES ASSUME Inv, [Next]_vars
             PROVE  \A q \in Requests : Gathered(job'[q])
  OBVIOUS
<1> USE CapsAssumption
<1>a. /\ MaxPregatherPods \in Nat /\ MaxPregatherNodes \in Nat
      /\ QueryCap \in Nat /\ QueryCap = 5 * MaxPregatherPods + 3 * MaxPregatherNodes
  BY DEF QueryCap
<1>b. \A l : Gathered(Fresh("acquired", l)) /\ Gathered(Fresh("closed", l))
  BY <1>a DEF Gathered, Fresh
<1>1. ASSUME NEW r \in Requests, DoPost(r)
      PROVE  \A q \in Requests : Gathered(job'[q])
  <2>1. CASE Goto(r, "closed")
    BY <2>1, GotoGathered
  <2>2. CASE \E p \in Payloads : job' = [job EXCEPT ![r] =
                 Fresh("acquired", IF p = NotObject THEN <<>> ELSE Firing(p))]
    BY <1>b, <2>2 DEF Inv, Typed
  <2>3. QED
    BY <1>1, <2>1, <2>2 DEF DoPost
<1>2. ASSUME NEW r \in Requests, StartThread(r)
      PROVE  \A q \in Requests : Gathered(job'[q])
  <2>1. CASE Goto(r, "leaked")
    BY <2>1, GotoGathered DEF Holding
  <2>2. CASE Goto(r, "handle")
    <3>1. /\ job'[r].pc = "handle" /\ job'[r].queries = job[r].queries
          /\ job'[r].at = job[r].at /\ job'[r].seen = job[r].seen
      BY <2>2, GotoIsTyped DEF Inv, Holding, InHandle
    <3>2. Gathered(job'[r])
      BY <1>2, <3>1 DEF Inv, Gathered, StartThread
    <3>3. QED
      BY <2>2, <3>2, GotoIsTyped DEF Inv, Holding, InHandle
  <2>3. QED
    BY <1>2, <2>1, <2>2 DEF StartThread
<1>3. ASSUME NEW r \in Requests, Handle(r)
      PROVE  \A q \in Requests : Gathered(job'[q])
  <2>1. CASE Goto(r, "pods")
    <3>1. /\ job'[r].pc = "pods" /\ job'[r].queries = job[r].queries
          /\ job'[r].at = job[r].at /\ job'[r].seen = job[r].seen
      BY <2>1, GotoIsTyped DEF Inv, Holding, InHandle
    <3>2. job[r].at = 1 /\ job[r].seen = <<>> /\ job[r].queries = 0
      BY <1>3 DEF Inv, Gathered, Handle
    <3>3. Gathered(job'[r])
      BY <1>a, <3>1, <3>2 DEF Gathered
    <3>4. QED
      BY <2>1, <3>3, GotoIsTyped DEF Inv, Holding, InHandle
  <2>2. CASE Goto(r, "prompt")
    BY <2>2, GotoGathered DEF Holding, InHandle
  <2>3. CASE Goto(r, "finally")
    BY <2>3, GotoGathered DEF Holding, InHandle
  <2>4. QED
    BY <1>3, <2>1, <2>2, <2>3 DEF Handle
<1>4. ASSUME NEW r \in Requests, GatherPod(r)
      PROVE  \A q \in Requests : Gathered(job'[q])
  <2> DEFINE j == job[r]
             a == j.alerts[j.at]
  <2>1. j \in Job /\ j.pc = "pods" /\ Gathered(j)
    BY <1>4 DEF Inv, Typed, GatherPod
  <2>2. /\ j.at \in Nat \ {0} /\ j.seen \in Seq(PodNames) /\ j.queries \in Nat
        /\ j.alerts \in AlertLists
    BY <2>1 DEF Job
  <2>3. \A x : job' = [job EXCEPT ![r] = x] /\ Gathered(x)
                => \A q \in Requests : Gathered(job'[q])
    BY DEF Inv, Typed
  <2>4. CASE Goto(r, "nodes") /\ (j.at > Len(j.alerts) \/ Full(j))
    <3>1. /\ job'[r].pc = "nodes" /\ job'[r].queries = j.queries
          /\ job'[r].at = j.at /\ job'[r].seen = j.seen /\ job'[r].alerts = j.alerts
      BY <2>4, GotoIsTyped DEF Inv, Holding, InHandle
    <3>2. Full(j) => Len(j.seen) = MaxPregatherPods
      BY <2>1, <2>2 DEF Full, Gathered
    <3>3. Gathered(job'[r])
      BY <2>1, <2>4, <3>1, <3>2 DEF Gathered
    <3>4. QED
      BY <2>4, <3>3, GotoIsTyped DEF Inv, Holding, InHandle
  <2>5. CASE ~Ask(j, a) /\ job' = [job EXCEPT ![r] = [j EXCEPT !.at = @ + 1]]
    <3> DEFINE k == [j EXCEPT !.at = @ + 1]
    <3>1. /\ k.pc = "pods" /\ k.queries = j.queries /\ k.at = j.at + 1
          /\ k.seen = j.seen /\ k.alerts = j.alerts
      BY <2>1 DEF Job
    <3> HIDE DEF k
    <3>2. a.pod # None => \E i \in 1..Len(j.seen) : j.seen[i] = a.pod
      BY <2>5 DEF Ask, Contains
    <3>3. \A i \in 1..(k.at - 1) : i = j.at \/ i \in 1..(j.at - 1)
      BY <2>2, <3>1
    <3>4. Gathered(k)
      BY <2>1, <3>1, <3>2, <3>3 DEF Gathered
    <3>5. QED
      BY <2>3, <2>5, <3>4 DEF k
  <2>6. CASE \E info \in Nodes \cup {None} :
               /\ Ask(j, a) /\ ~Full(j)
               /\ job' = [job EXCEPT ![r] = Asked(j, a, IF info # None THEN info ELSE a.node)]
    <3>1. PICK n : /\ Ask(j, a) /\ ~Full(j)
                   /\ job' = [job EXCEPT ![r] = Asked(j, a, n)]
      BY <2>6
    <3> DEFINE k == Asked(j, a, n)
    <3>2. /\ k.pc = "pods" /\ k.queries = j.queries + 5 /\ k.at = j.at + 1
          /\ k.seen = Append(j.seen, a.pod) /\ k.alerts = j.alerts
      BY <2>1, AskedIs
    <3> HIDE DEF k
    <3>3. a.pod \in PodNames
      BY <2>2 DEF PodNames
    <3>4. /\ Len(k.seen) = Len(j.seen) + 1 /\ k.seen[Len(j.seen) + 1] = a.pod
          /\ \A i \in 1..Len(j.seen) : k.seen[i] = j.seen[i]
      BY <2>2, <3>2, <3>3
    <3>5. \A i \in 1..Len(j.seen) : j.seen[i] # a.pod
      BY <3>1 DEF Ask, Contains
    <3>6. Len(j.seen) + 1 <= MaxPregatherPods /\ Len(j.seen) \in Nat
      BY <2>2, <3>1 DEF Full
    <3>7. \A i, l \in 1..Len(k.seen) : k.seen[i] = k.seen[l] => i = l
      <4>1. \A i, l \in 1..Len(j.seen) : j.seen[i] = j.seen[l] => i = l
        BY <2>1 DEF Gathered
      <4>2. \A i \in 1..Len(k.seen) : i \in 1..Len(j.seen) \/ i = Len(j.seen) + 1
        BY <3>4, <3>6
      <4>3. QED
        BY <3>4, <3>5, <4>1, <4>2
    <3>8. ASSUME NEW i \in 1..(k.at - 1), k.alerts[i].pod # None
          PROVE  \E l \in 1..Len(k.seen) : k.seen[l] = k.alerts[i].pod
      <4>1. CASE i = j.at
        <5>1. k.seen[Len(j.seen) + 1] = k.alerts[i].pod
          BY <3>2, <3>4, <4>1
        <5>2. Len(j.seen) + 1 \in 1..Len(k.seen)
          BY <3>4, <3>6
        <5>3. QED
          BY <5>1, <5>2
      <4>2. CASE i # j.at
        <5>1. i \in 1..(j.at - 1)
          BY <2>2, <3>2, <4>2
        <5>2. PICK l \in 1..Len(j.seen) : j.seen[l] = j.alerts[i].pod
          BY <2>1, <3>2, <3>8, <5>1 DEF Gathered
        <5>3. QED
          BY <3>2, <3>4, <3>6, <5>2
      <4>3. QED
        BY <4>1, <4>2
    <3>9. k.queries = 5 * Len(k.seen) /\ k.queries <= QueryCap
      <4>1. j.queries = 5 * Len(j.seen)
        BY <2>1 DEF Gathered
      <4>2. QED
        BY <1>a, <3>2, <3>4, <3>6, <4>1
    <3>10. Gathered(k)
      BY <3>2, <3>4, <3>6, <3>7, <3>8, <3>9 DEF Gathered
    <3>11. QED
      BY <2>3, <3>1, <3>10 DEF k
  <2>7. CASE Goto(r, "finally")
    BY <2>7, GotoGathered DEF Holding, InHandle
  <2>8. QED
    BY <1>4, <2>4, <2>5, <2>6, <2>7 DEF GatherPod
<1>5. ASSUME NEW r \in Requests, GatherNodes(r)
      PROVE  \A q \in Requests : Gathered(job'[q])
  <2> DEFINE asked == NodesAsked(job[r].nodes)
             total == job[r].queries + 3 * asked
  <2>1. asked \in Nat /\ asked <= MaxPregatherNodes
    BY DEF NodesAsked, Inv, Typed, Job
  <2>2. /\ job[r].queries = 5 * Len(job[r].seen) /\ Len(job[r].seen) <= MaxPregatherPods
        /\ Len(job[r].seen) \in Nat
    BY <1>5 DEF Inv, Typed, Job, Gathered, GatherNodes
  <2>3. total \in Nat /\ total <= QueryCap
    <3>1. \A p, n \in Nat : p <= MaxPregatherPods /\ n <= MaxPregatherNodes
                             => 5 * p + 3 * n \in Nat /\ 5 * p + 3 * n <= QueryCap
      BY <1>a
    <3> HIDE DEF asked
    <3>2. total = 5 * Len(job[r].seen) + 3 * asked
      BY <2>2
    <3> HIDE DEF total
    <3>3. QED
      BY <2>1, <2>2, <3>1, <3>2
  <2>4. PICK where \in {"prompt", "finally"} :
            job' = [job EXCEPT ![r] = [Fresh(where, <<>>) EXCEPT !.queries = total]]
    BY <1>5 DEF GatherNodes
  <2> HIDE DEF total
  <2>5. Gathered([Fresh(where, <<>>) EXCEPT !.queries = total])
    BY <2>3, PromptIs DEF Gathered
  <2>6. QED
    BY <2>4, <2>5 DEF Inv, Typed
<1>6. ASSUME NEW r \in Requests,
             CallAgent(r) \/ AgentAnswers(r) \/ AgentFails(r) \/ Notify(r)
      PROVE  \A q \in Requests : Gathered(job'[q])
  <2>1. \E where \in {"calling", "notify", "finally"} : Goto(r, where)
    BY <1>6 DEF CallAgent, AgentAnswers, AgentFails, Notify
  <2>2. QED
    BY <2>1, GotoGathered DEF Holding, InHandle
<1>7. ASSUME NEW r \in Requests, Release(r)
      PROVE  \A q \in Requests : Gathered(job'[q])
  BY <1>7, <1>b DEF Release, Inv, Typed
<1>8. CASE Restart
  BY <1>8, <1>b DEF Restart, Inv, Typed
<1>9. CASE job' = job
  BY <1>9 DEF Inv
<1>10. QED
  BY <1>1, <1>2, <1>3, <1>4, <1>5, <1>6, <1>7, <1>8, <1>9
     DEF Next, Thread, AgentEnds, vars

-----------------------------------------------------------------------------

(* The requests at a place can be counted.                                 *)
LEMMA PlacesAreFinite ==
    ASSUME NEW where
    PROVE  IsFiniteSet(InPlace(where)) /\ Cardinality(InPlace(where)) \in Nat
<1>1. InPlace(where) \subseteq Requests
  BY DEF InPlace
<1>2. QED
  BY <1>1, PoolAssumption, FS_Subset, FS_CardinalityType

\* What a step does to the places: nothing, or one request takes a place or
\* leaves it, or the pool is emptied.
PlacesKept == InPlace(Holding)' = InPlace(Holding) /\ sem' = sem

PlaceTaken(r) ==
    /\ r \in InPlace({"idle"}) /\ r \notin InPlace(Holding) /\ sem # 0
    /\ InPlace(Holding)' = InPlace(Holding) \cup {r} /\ sem' = sem - 1

PlaceLeft(r) ==
    /\ r \in InPlace(Holding)
    /\ InPlace(Holding)' = InPlace(Holding) \ {r} /\ sem' = sem + 1

PlacesEmptied == InPlace(Holding)' = {} /\ sem' = MaxInflight

\* A step of a thread between its acquire and its finally.
Works(r) ==
    \/ StartThread(r) \/ Handle(r) \/ GatherPod(r) \/ GatherNodes(r)
    \/ CallAgent(r) \/ AgentAnswers(r) \/ AgentFails(r) \/ Notify(r)

(* A turn of _pregather changes its own thread's locals only.              *)
LEMMA GatherPodMoves ==
    ASSUME Inv, NEW r \in Requests, GatherPod(r)
    PROVE  /\ job'[r].pc \in InHandle \ {"notify"}
           /\ \A q \in Requests \ {r} : job'[q] = job[q]
<1> DEFINE j == job[r]
           a == j.alerts[j.at]
<1>1. j \in Job /\ j.pc = "pods"
  BY DEF Inv, Typed, GatherPod
<1>2. [j EXCEPT !.at = @ + 1].pc = "pods"
  BY <1>1 DEF Job
<1>3. \A n : Asked(j, a, n).pc = "pods"
  BY <1>1, AskedIs
<1>4. \A x : x.pc = "pods" /\ job' = [job EXCEPT ![r] = x]
             => job'[r].pc = "pods" /\ \A q \in Requests \ {r} : job'[q] = job[q]
  BY DEF Inv, Typed
<1>5. CASE Goto(r, "nodes")
  BY <1>5, GotoIsTyped DEF Inv, Holding, InHandle
<1>6. CASE \E x : x.pc = "pods" /\ job' = [job EXCEPT ![r] = x]
  BY <1>4, <1>6 DEF InHandle
<1>7. CASE Goto(r, "finally")
  BY <1>7, GotoIsTyped DEF Inv, Holding, InHandle
<1>8. QED
  BY <1>2, <1>3, <1>5, <1>6, <1>7 DEF GatherPod

(* The queries about the nodes lead to the prompt, or out of the thread.   *)
LEMMA GatherNodesMoves ==
    ASSUME Inv, NEW r \in Requests, GatherNodes(r)
    PROVE  /\ job'[r].pc \in {"prompt", "finally"}
           /\ \A q \in Requests \ {r} : job'[q] = job[q]
<1> DEFINE total == job[r].queries + 3 * NodesAsked(job[r].nodes)
<1>1. NodesAsked(job[r].nodes) \in Nat
  BY CapsAssumption DEF NodesAsked, Inv, Typed, Job
<1>2. total \in Nat
  BY <1>1 DEF Inv, Typed, Job
<1>3. PICK where \in {"prompt", "finally"} :
          job' = [job EXCEPT ![r] = [Fresh(where, <<>>) EXCEPT !.queries = total]]
  BY DEF GatherNodes
<1> HIDE DEF total
<1>4. [Fresh(where, <<>>) EXCEPT !.queries = total].pc = where
  BY <1>2, PromptIs
<1>5. QED
  BY <1>3, <1>4 DEF Inv, Typed

(* A thread at work keeps its permit, whatever its calls return.           *)
LEMMA WorksKeepsPlace ==
    ASSUME Inv, NEW r \in Requests, Works(r)
    PROVE  /\ job[r].pc \in Holding \ {"leaked"} /\ job'[r].pc \in Holding
           /\ \A q \in Requests \ {r} : job'[q] = job[q]
           /\ sem' = sem
<1>1. ASSUME NEW where \in Holding, Goto(r, where)
      PROVE  job'[r].pc \in Holding /\ \A q \in Requests \ {r} : job'[q] = job[q]
  BY <1>1, GotoIsTyped DEF Inv
<1>2. CASE GatherPod(r)
  BY <1>2, GatherPodMoves DEF GatherPod, Holding, InHandle
<1>3. CASE GatherNodes(r)
  BY <1>3, GatherNodesMoves DEF GatherNodes, Holding, InHandle
<1>4. CASE StartThread(r) \/ Handle(r) \/ CallAgent(r) \/ AgentAnswers(r)
               \/ AgentFails(r) \/ Notify(r)
  <2>1. /\ \E where \in Holding : Goto(r, where)
        /\ job[r].pc \in Holding \ {"leaked"} /\ sem' = sem
    BY <1>4 DEF StartThread, Handle, CallAgent, AgentAnswers, AgentFails, Notify,
                Holding, InHandle
  <2>2. QED
    BY <1>1, <2>1
<1>5. QED
  BY <1>2, <1>3, <1>4 DEF Works

(* No step does anything else to the places, on any path of do_POST and    *)
(* _handle.                                                                *)
LEMMA PlacesStep ==
    ASSUME Inv, [Next]_vars
    PROVE  \/ PlacesKept \/ PlacesEmptied
           \/ \E r \in Requests : PlaceTaken(r) \/ PlaceLeft(r)
<1>1. ASSUME NEW r \in Requests, DoPost(r)
      PROVE  PlacesKept \/ PlaceTaken(r)
  <2>1. job[r].pc = "idle" /\ r \notin InPlace(Holding)
    BY <1>1 DEF DoPost, InPlace, Holding, InHandle
  <2>2. CASE Goto(r, "closed") /\ sem' = sem
    <3>1. job'[r].pc = "closed" /\ \A q \in Requests \ {r} : job'[q] = job[q]
      BY <2>2, GotoIsTyped DEF Inv
    <3>2. InPlace(Holding)' = InPlace(Holding)
      BY <2>1, <3>1 DEF InPlace, Holding, InHandle
    <3>3. QED
      BY <2>2, <3>2 DEF PlacesKept
  <2>3. CASE sem' = sem - 1 /\ ~NoPermit
             /\ \E l : job' = [job EXCEPT ![r] = Fresh("acquired", l)]
    <3>1. job'[r].pc = "acquired" /\ \A q \in Requests \ {r} : job'[q] = job[q]
      BY <2>3 DEF Inv, Typed, Fresh
    <3>2. InPlace(Holding)' = InPlace(Holding) \cup {r}
      BY <2>1, <3>1 DEF InPlace, Holding, InHandle
    <3>3. QED
      BY <2>1, <2>3, <3>2 DEF PlaceTaken, NoPermit, InPlace
  <2>4. QED
    BY <1>1, <2>2, <2>3 DEF DoPost
<1>2. ASSUME NEW r \in Requests, Works(r)
      PROVE  PlacesKept
  BY <1>2, WorksKeepsPlace DEF PlacesKept, InPlace
<1>3. ASSUME NEW r \in Requests, Release(r)
      PROVE  PlaceLeft(r)
  <2>1. job'[r].pc = "closed" /\ \A q \in Requests \ {r} : job'[q] = job[q]
    BY <1>3 DEF Release, Inv, Typed, Fresh
  <2>2. QED
    BY <1>3, <2>1 DEF Release, PlaceLeft, InPlace, Holding, InHandle
<1>4. CASE Restart
  <2>1. \A q \in Requests : job'[q].pc \notin Holding
    BY <1>4 DEF Restart, Fresh, Holding, InHandle
  <2>2. QED
    BY <1>4, <2>1 DEF Restart, PlacesEmptied, InPlace
<1>5. CASE job' = job /\ sem' = sem
  BY <1>5 DEF PlacesKept, InPlace
<1>6. QED
  BY <1>1, <1>2, <1>3, <1>4, <1>5 DEF Next, Thread, Works, AgentEnds, vars

(* Every permit is accounted for.                                          *)
LEMMA PermitsStep ==
    ASSUME Inv, [Next]_vars
    PROVE  PermitsAccounted' /\ sem' \in 0..MaxInflight
<1> DEFINE n == Cardinality(InPlace(Holding))
<1>1. /\ sem \in 0..MaxInflight /\ MaxInflight \in Nat /\ n \in Nat /\ sem + n = MaxInflight
      /\ IsFiniteSet(InPlace(Holding))
  BY PoolAssumption, PlacesAreFinite DEF Inv, Typed, TypeOK, PermitsAccounted
<1>2. CASE PlacesKept
  BY <1>1, <1>2 DEF PlacesKept, PermitsAccounted
<1>3. ASSUME NEW r \in Requests, PlaceTaken(r)
      PROVE  PermitsAccounted' /\ sem' \in 0..MaxInflight
  <2>1. Cardinality(InPlace(Holding)') = n + 1
    BY <1>1, <1>3, FS_AddElement DEF PlaceTaken
  <2>2. QED
    BY <1>1, <1>3, <2>1 DEF PlaceTaken, PermitsAccounted
<1>4. ASSUME NEW r \in Requests, PlaceLeft(r)
      PROVE  PermitsAccounted' /\ sem' \in 0..MaxInflight
  <2>1. Cardinality(InPlace(Holding)') = n - 1 /\ n - 1 \in Nat
    <3>1. Cardinality(InPlace(Holding) \ {r}) = n - 1
      BY <1>1, <1>4, FS_RemoveElement DEF PlaceLeft
    <3>2. Cardinality(InPlace(Holding) \ {r}) \in Nat
      BY <1>1, FS_RemoveElement, FS_CardinalityType
    <3>3. QED
      BY <1>4, <3>1, <3>2 DEF PlaceLeft
  <2>2. QED
    BY <1>1, <1>4, <2>1 DEF PlaceLeft, PermitsAccounted
<1>5. CASE PlacesEmptied
  BY <1>1, <1>5, FS_EmptySet DEF PlacesEmptied, PermitsAccounted
<1>6. QED
  BY <1>2, <1>3, <1>4, <1>5, PlacesStep

(* The histories and responses keep their types.                           *)
LEMMA HistoriesTyped ==
    ASSUME Inv, [Next]_vars
    PROVE  /\ reply' \in [Requests -> {0, 202, 400, 429}]
           /\ working' \subseteq Requests /\ answered' \subseteq Requests
           /\ abandoned' \subseteq Requests /\ mailed' \subseteq Requests
<1> USE DEF Inv, Typed, TypeOK
<1>1. ASSUME NEW r \in Requests, DoPost(r) \/ StartThread(r)
      PROVE  reply' \in [Requests -> {0, 202, 400, 429}]
  BY <1>1 DEF DoPost, StartThread
<1>2. CASE \E r \in Requests : DoPost(r) \/ StartThread(r)
  BY <1>1, <1>2 DEF DoPost, StartThread
<1>3. CASE \E r \in Requests : Thread(r) /\ ~StartThread(r)
  BY <1>3 DEF Thread, Handle, GatherPod, GatherNodes, CallAgent, AgentAnswers,
              AgentFails, Notify, Release
<1>4. CASE \E r \in Requests : AgentEnds(r)
  BY <1>4 DEF AgentEnds
<1>5. CASE Restart
  BY <1>5 DEF Restart
<1>6. CASE UNCHANGED vars
  BY <1>6 DEF vars
<1>7. QED
  BY <1>2, <1>3, <1>4, <1>5, <1>6 DEF Next

(* What was done for a request agrees with its response and its thread.    *)
LEMMA RepliedStep ==
    ASSUME Inv, [Next]_vars
    PROVE  Replied' /\ Awaited'
<1> USE DEF Inv, Replied, Awaited, InPlace
<1>a. reply \in [Requests -> {0, 202, 400, 429}] /\ job \in [Requests -> Job]
      /\ working \subseteq Requests
  BY DEF Typed, TypeOK
<1>1. ASSUME NEW r \in Requests, DoPost(r)
      PROVE  Replied' /\ Awaited'
  <2>1. /\ job[r].pc = "idle" /\ reply[r] = 0 /\ r \notin answered \cup working
        /\ UNCHANGED <<working, answered, abandoned, mailed>>
    BY <1>1 DEF DoPost
  <2>2. CASE Goto(r, "closed") /\ \E c \in {400, 429} : reply' = [reply EXCEPT ![r] = c]
    <3>1. job'[r].pc = "closed" /\ \A q \in Requests \ {r} : job'[q] = job[q]
      BY <2>2, GotoIsTyped
    <3>2. QED
      BY <1>a, <2>1, <2>2, <3>1 DEF InHandle
  <2>3. CASE reply' = reply /\ \E l : job' = [job EXCEPT ![r] = Fresh("acquired", l)]
    <3>1. job'[r].pc = "acquired" /\ \A q \in Requests \ {r} : job'[q] = job[q]
      BY <1>a, <2>3 DEF Fresh
    <3>2. QED
      BY <1>a, <2>1, <2>3, <3>1 DEF InHandle
  <2>4. QED
    BY <1>1, <2>2, <2>3 DEF DoPost
<1>2. ASSUME NEW r \in Requests, StartThread(r)
      PROVE  Replied' /\ Awaited'
  <2>1. /\ job[r].pc = "acquired" /\ reply[r] = 0 /\ r \notin answered \cup working
        /\ UNCHANGED <<working, answered, abandoned, mailed>>
    BY <1>2 DEF StartThread
  <2>2. CASE Goto(r, "handle") /\ reply' = [reply EXCEPT ![r] = 202]
    <3>1. job'[r].pc = "handle" /\ \A q \in Requests \ {r} : job'[q] = job[q]
      BY <2>2, GotoIsTyped DEF Holding, InHandle
    <3>2. QED
      BY <1>a, <2>1, <2>2, <3>1 DEF InHandle
  <2>3. CASE Goto(r, "leaked") /\ reply' = reply
    <3>1. job'[r].pc = "leaked" /\ \A q \in Requests \ {r} : job'[q] = job[q]
      BY <2>3, GotoIsTyped DEF Holding
    <3>2. QED
      BY <1>a, <2>1, <2>3, <3>1 DEF InHandle
  <2>4. QED
    BY <1>2, <2>2, <2>3 DEF StartThread
<1>3. ASSUME NEW r \in Requests, Handle(r) \/ GatherPod(r) \/ GatherNodes(r)
      PROVE  Replied' /\ Awaited'
  <2>1. /\ job[r].pc \in {"handle", "pods", "nodes"}
        /\ UNCHANGED <<reply, working, answered, abandoned, mailed>>
    BY <1>3 DEF Handle, GatherPod, GatherNodes
  <2>2. job'[r].pc \in InHandle \ {"notify"} /\ \A q \in Requests \ {r} : job'[q] = job[q]
    <3>1. CASE Handle(r)
      <4>1. \E where \in {"finally", "pods", "prompt"} : Goto(r, where)
        BY <3>1 DEF Handle
      <4>2. QED
        BY <4>1, GotoIsTyped DEF Holding, InHandle
    <3>2. CASE GatherPod(r)
      BY <3>2, GatherPodMoves
    <3>3. CASE GatherNodes(r)
      BY <3>3, GatherNodesMoves DEF InHandle
    <3>4. QED
      BY <1>3, <3>1, <3>2, <3>3
  <2>3. reply[r] = 202 /\ (r \in working \ abandoned => FALSE)
    BY <2>1 DEF InHandle
  <2>4. QED
    BY <1>a, <2>1, <2>2, <2>3 DEF InHandle
<1>4. ASSUME NEW r \in Requests, CallAgent(r)
      PROVE  Replied' /\ Awaited'
  <2>1. job'[r].pc = "calling" /\ \A q \in Requests \ {r} : job'[q] = job[q]
    BY <1>4, GotoIsTyped DEF CallAgent, Holding, InHandle
  <2>2. QED
    BY <1>4, <1>a, <2>1 DEF CallAgent, InHandle
<1>5. ASSUME NEW r \in Requests, AgentAnswers(r)
      PROVE  Replied' /\ Awaited'
  <2>1. CASE Goto(r, "notify") /\ answered' = answered \cup {r}
    <3>1. job'[r].pc = "notify" /\ \A q \in Requests \ {r} : job'[q] = job[q]
      BY <2>1, GotoIsTyped DEF Holding, InHandle
    <3>2. QED
      BY <1>5, <1>a, <2>1, <3>1 DEF AgentAnswers, InHandle
  <2>2. CASE Goto(r, "finally") /\ UNCHANGED answered
    <3>1. job'[r].pc = "finally" /\ \A q \in Requests \ {r} : job'[q] = job[q]
      BY <2>2, GotoIsTyped DEF Holding, InHandle
    <3>2. QED
      BY <1>5, <1>a, <2>2, <3>1 DEF AgentAnswers, InHandle
  <2>3. QED
    BY <1>5, <2>1, <2>2 DEF AgentAnswers
<1>6. ASSUME NEW r \in Requests, AgentFails(r)
      PROVE  Replied' /\ Awaited'
  <2>1. job'[r].pc = "finally" /\ \A q \in Requests \ {r} : job'[q] = job[q]
    BY <1>6, GotoIsTyped DEF AgentFails, Holding, InHandle
  <2>2. QED
    BY <1>6, <1>a, <2>1 DEF AgentFails, InHandle
<1>7. ASSUME NEW r \in Requests, AgentEnds(r)
      PROVE  Replied' /\ Awaited'
  BY <1>7 DEF AgentEnds
<1>8. ASSUME NEW r \in Requests, Notify(r)
      PROVE  Replied' /\ Awaited'
  <2>1. job'[r].pc = "finally" /\ \A q \in Requests \ {r} : job'[q] = job[q]
    BY <1>8, GotoIsTyped DEF Notify, Holding, InHandle
  <2>2. QED
    BY <1>8, <1>a, <2>1 DEF Notify, InHandle
<1>9. ASSUME NEW r \in Requests, Release(r)
      PROVE  Replied' /\ Awaited'
  <2>1. job'[r].pc = "closed" /\ \A q \in Requests \ {r} : job'[q] = job[q]
    BY <1>9, <1>a DEF Release, Fresh
  <2>2. QED
    BY <1>9, <1>a, <2>1 DEF Release, InHandle
<1>10. CASE Restart
  <2>1. \A q \in Requests : job'[q].pc \notin Holding /\ (job'[q].pc = "idle" => job'[q] = job[q])
    BY <1>10 DEF Restart, Fresh, Holding, InHandle
  <2>2. QED
    BY <1>10, <1>a, <2>1 DEF Restart, Holding, InHandle
<1>11. CASE UNCHANGED vars
  BY <1>11 DEF vars
<1>12. QED
  BY <1>1, <1>2, <1>3, <1>4, <1>5, <1>6, <1>7, <1>8, <1>9, <1>10, <1>11 DEF Next, Thread

-----------------------------------------------------------------------------

(* The invariant holds in every state.                                     *)
LEMMA Invariance == Spec => []Inv
<1>1. Init => Inv
  <2> SUFFICES ASSUME Init PROVE Inv
    OBVIOUS
  <2>1. Fresh("idle", <<>>) \in Job
    BY FreshIsTyped DEF AlertLists
  <2>2. Typed
    BY <2>1, PoolAssumption DEF Init, Typed, TypeOK, Job
  <2>3. \A r \in Requests : job[r].pc = "idle" /\ job[r].queries = 0
    BY DEF Init, Fresh
  <2>4. InPlace(Holding) = {}
    BY <2>3 DEF InPlace, Holding, InHandle
  <2>5. PermitsAccounted
    BY <2>4, PoolAssumption, FS_EmptySet DEF Init, PermitsAccounted
  <2>6. Replied /\ Awaited
    BY <2>3 DEF Init, Replied, Awaited, InHandle
  <2>7. QueryCap \in Nat
    BY CapsAssumption DEF QueryCap
  <2>8. \A r \in Requests : Gathered(job[r])
    BY <2>3, <2>7 DEF Gathered
  <2>9. QED
    BY <2>2, <2>5, <2>6, <2>8 DEF Inv
<1>2. Inv /\ [Next]_vars => Inv'
  <2> SUFFICES ASSUME Inv, [Next]_vars PROVE Inv'
    OBVIOUS
  <2>1. job' \in [Requests -> Job]
    BY TypedStep DEF Inv
  <2>2. Typed'
    BY <2>1, HistoriesTyped, PermitsStep DEF Typed, TypeOK, Job
  <2>3. QED
    BY <2>2, PermitsStep, RepliedStep, GatheredStep DEF Inv
<1>3. QED
  BY <1>1, <1>2, PTL DEF Spec

(* bridge.py:16, 55-59, 270-301: in every state the permits add up, the    *)
(* agent works on no more than MAX_INFLIGHT groups unless a call was       *)
(* abandoned, Prometheus is asked no more than the caps allow, and what is *)
(* mailed was answered.                                                    *)
THEOREM StormBounded == Spec => []StormIsBounded
<1>1. Inv => StormIsBounded
  <2> SUFFICES ASSUME Inv PROVE StormIsBounded
    OBVIOUS
  <2>1. LoadCapped
    <3> SUFFICES ASSUME abandoned = {} PROVE Cardinality(working) <= MaxInflight
      BY DEF LoadCapped
    <3>1. working \subseteq InPlace(Holding)
      BY DEF Inv, Awaited, InPlace, Holding, InHandle
    <3>2. Cardinality(working) <= Cardinality(InPlace(Holding)) /\ Cardinality(working) \in Nat
      BY <3>1, PlacesAreFinite, FS_Subset, FS_CardinalityType
    <3>3. /\ sem \in Nat /\ MaxInflight \in Nat
          /\ sem + Cardinality(InPlace(Holding)) = MaxInflight
      BY PoolAssumption DEF Inv, Typed, TypeOK, PermitsAccounted
    <3>4. QED
      BY <3>2, <3>3, PlacesAreFinite
  <2>2. QueriesCapped
    BY DEF Inv, Gathered, QueryCap, QueriesCapped
  <2>3. MailedWasAnswered
    BY DEF Inv, Replied, MailedWasAnswered, Typed, TypeOK
  <2>4. QED
    BY <2>1, <2>2, <2>3 DEF Inv, Typed, StormIsBounded
<1>2. QED
  BY <1>1, Invariance, PTL

(* bridge.py:117-125: _pregather asks about each pod once, in the order of *)
(* the alerts, and stops only at their end or at the cap.                  *)
THEOREM EvidenceFirst == Spec => []EvidenceIsFirstPods
<1>1. Inv => EvidenceIsFirstPods
  BY DEF Inv, Gathered, EvidenceIsFirstPods, InPlace, Contains
<1>2. QED
  BY <1>1, Invariance, PTL

(* The semaphore, the threads and the two early responses implement the    *)
(* bounded pool of WorkerPool: a place per permit, refused only when full. *)
THEOREM ImplementsPool == Spec => PoolSpec
<1>1. Init => Pool!Init
  BY DEF Init, Pool!Init, InPlace, Fresh, Holding, InHandle
<1>2. Inv /\ [Next]_vars => [Pool!Next]_(Pool!pvars)
  <2> SUFFICES ASSUME Inv, [Next]_vars PROVE [Pool!Next]_(Pool!pvars)
    OBVIOUS
  <2>a. reply \in [Requests -> {0, 202, 400, 429}] /\ job \in [Requests -> Job]
    BY DEF Inv, Typed, TypeOK
  <2>b. sem \in Nat /\ MaxInflight \in Nat /\ Cardinality(InPlace(Holding)) \in Nat
        /\ sem + Cardinality(InPlace(Holding)) = MaxInflight
    BY PoolAssumption, PlacesAreFinite DEF Inv, Typed, TypeOK, PermitsAccounted
  <2>c. Pool!Cardinality(InPlace(Holding)) = Cardinality(InPlace(Holding))
    BY Zenon DEF Pool!Cardinality, Cardinality
  <2> DEFINE W == InPlace({"idle"})
             B == InPlace(Holding)
             R == {r \in Requests : reply[r] = 429}
  <2>1. ASSUME NEW r \in Requests, DoPost(r)
        PROVE  Pool!Next
    <3>1. /\ r \in W /\ r \notin B /\ job[r].pc = "idle"
      BY <2>1 DEF DoPost, InPlace, Holding, InHandle
    <3>2. CASE Goto(r, "closed") /\ reply' = [reply EXCEPT ![r] = 400]
      <4>1. job'[r].pc = "closed" /\ \A q \in Requests \ {r} : job'[q] = job[q]
        BY <3>2, GotoIsTyped DEF Inv
      <4>2. W' = W \ {r} /\ B' = B
        BY <3>1, <4>1 DEF InPlace, Holding, InHandle
      <4>3. R' = R
        BY <2>a, <3>1, <3>2 DEF Inv, Replied
      <4>4. Pool!Withdraw(r)
        BY <3>1, <4>2, <4>3 DEF Pool!Withdraw
      <4>5. QED
        BY <4>4 DEF Pool!Next
    <3>3. CASE NoPermit /\ Goto(r, "closed") /\ reply' = [reply EXCEPT ![r] = 429]
      <4>1. job'[r].pc = "closed" /\ \A q \in Requests \ {r} : job'[q] = job[q]
        BY <3>3, GotoIsTyped DEF Inv
      <4>2. W' = W \ {r} /\ B' = B
        BY <3>1, <4>1 DEF InPlace, Holding, InHandle
      <4>3. R' = R \cup {r}
        BY <2>a, <3>3
      <4>4. Cardinality(B) = MaxInflight
        BY <2>b, <3>3 DEF NoPermit
      <4>5. Pool!Refuse(r)
        BY <2>c, <3>1, <4>2, <4>3, <4>4 DEF Pool!Refuse
      <4>6. QED
        BY <4>5 DEF Pool!Next
    <3>4. CASE ~NoPermit /\ reply' = reply
               /\ \E l : job' = [job EXCEPT ![r] = Fresh("acquired", l)]
      <4>1. job'[r].pc = "acquired" /\ \A q \in Requests \ {r} : job'[q] = job[q]
        BY <2>a, <3>4 DEF Fresh
      <4>2. W' = W \ {r} /\ B' = B \cup {r} /\ R' = R
        BY <3>1, <3>4, <4>1 DEF InPlace, Holding, InHandle
      <4>3. Cardinality(B) < MaxInflight
        BY <2>b, <3>4 DEF NoPermit
      <4>4. Pool!Take(r)
        BY <2>c, <3>1, <4>2, <4>3 DEF Pool!Take
      <4>5. QED
        BY <4>4 DEF Pool!Next
    <3>5. QED
      BY <2>1, <3>2, <3>3, <3>4 DEF DoPost
  <2>2. ASSUME NEW r \in Requests, Works(r)
        PROVE  UNCHANGED Pool!pvars
    <3>1. W' = W /\ B' = B
      BY <2>2, WorksKeepsPlace DEF InPlace, Holding, InHandle
    <3>2. R' = R
      <4>1. CASE StartThread(r)
        BY <2>a, <4>1 DEF StartThread, Inv, Replied
      <4>2. CASE ~StartThread(r)
        BY <2>2, <4>2 DEF Works, Handle, GatherPod, GatherNodes, CallAgent, AgentAnswers,
                          AgentFails, Notify
      <4>3. QED
        BY <4>1, <4>2
    <3>3. QED
      BY <3>1, <3>2 DEF Pool!pvars
  <2>3. ASSUME NEW r \in Requests, Release(r)
        PROVE  Pool!Next
    <3>1. job'[r].pc = "closed" /\ \A q \in Requests \ {r} : job'[q] = job[q]
      BY <2>3, <2>a DEF Release, Fresh
    <3>2. r \in B /\ B' = B \ {r} /\ W' = W /\ R' = R
      BY <2>3, <3>1 DEF Release, InPlace, Holding, InHandle
    <3>3. Pool!Leave(r)
      BY <3>2 DEF Pool!Leave
    <3>4. QED
      BY <3>3 DEF Pool!Next
  <2>4. CASE Restart
    <3>1. \A q \in Requests : /\ job'[q].pc \notin Holding
                              /\ job'[q].pc = "idle" <=> job[q].pc = "idle"
      BY <2>4 DEF Restart, Fresh, Holding, InHandle
    <3>2. B' = {} /\ W' = W /\ R' = R
      BY <2>4, <3>1 DEF Restart, InPlace
    <3>3. Pool!Reset
      BY <3>2 DEF Pool!Reset
    <3>4. QED
      BY <3>3 DEF Pool!Next
  <2>5. CASE UNCHANGED <<job, reply>>
    BY <2>5 DEF Pool!pvars, InPlace
  <2>6. QED
    BY <2>1, <2>2, <2>3, <2>4, <2>5 DEF Next, Thread, Works, AgentEnds, vars
<1>3. QED
  BY <1>1, <1>2, Invariance, PTL DEF Spec, PoolSpec, Pool!Spec
=============================================================================
