--------------------------- MODULE AgentCallback ---------------------------
(***************************************************************************)
(* agent-callback: the service behind the action buttons of an agent's     *)
(* email.  A button carries a signed, expiring, single-use token.  GET     *)
(* renders a confirmation page; POST consumes the token and delivers the   *)
(* approval to the target agent.  ThreadingHTTPServer runs every request   *)
(* in a thread of its own, so do_POST is a sequence of steps that may      *)
(* interleave with those of other requests, with the clock and with a      *)
(* restart of the pod.                                                     *)
(***************************************************************************)
EXTENDS Naturals, FiniteSets

CONSTANTS
    Requests,     \* HTTP requests to /act, each handled by its own thread
    Tokens,       \* tokens; a token stands for its jti, which is unique to it
    Genuine,      \* tokens whose signature, payload and agent name are accepted
    HasJti,       \* tokens whose payload carries a non-empty jti
    Exp,          \* the expiry time of each token
    MaxTime,      \* bound on the clock
    Disturbances  \* what may go wrong: see Trouble

ASSUME SetsAssumption == Genuine \subseteq Tokens /\ HasJti \subseteq Tokens
ASSUME TimeAssumption == MaxTime \in Nat /\ Exp \in [Tokens -> Nat]

\* Two POSTs in progress at once, an invocation that fails after its message
\* was sent, a client that disconnects before its response is written, and a
\* restart of the pod.
Trouble == {"overlap", "late", "hangup", "restart"}

ASSUME DisturbancesAssumption == Disturbances \subseteq Trouble

VARIABLES
    now,       \* time.time()
    used,      \* _USED: the jtis in the ledger (the value stored is always Exp)
    pc,        \* where each request's thread is
    tok,       \* the token each request carries
    stale,     \* the expired jtis a thread's _prune has still to pop
    reply,     \* the status line the client received, 0 when none
    wire,      \* requests whose A2A message is sent and not yet received
    received,  \* requests whose approval the agent has received
    marked,    \* history: requests that entered their jti in the ledger
    onTime,    \* history: requests that took the ledger check before expiry
    disturbed  \* history: the disturbances there have been

vars == <<now, used, pc, tok, stale, reply, wire, received, marked, onTime, disturbed>>

Statuses == {0, 200, 400, 409, 502}

\* Between the ledger check and the end of the request.
Consuming == {"invoking", "awaiting", "delivered", "failed", "unmark"}

Working == {"prune", "popping", "mark"} \cup Consuming

Closed == {"closed", "dead"}

Init ==
    /\ now = 0
    /\ used = {}
    /\ pc = [r \in Requests |-> "idle"]
    /\ tok \in [Requests -> Tokens]
    /\ stale = [r \in Requests |-> {}]
    /\ reply = [r \in Requests |-> 0]
    /\ wire = {}
    /\ received = {}
    /\ marked = {}
    /\ onTime = {}
    /\ disturbed = {}

-----------------------------------------------------------------------------

\* verify: the signature and payload are good and exp is not in the past.
Verified(t) == t \in Genuine /\ Exp[t] >= now

\* Mutant: an entry is pruned at its expiry time, when verify still accepts it.
ExpiredAtExp(S) == {j \in S : Exp[j] <= now}

\* _prune drops the entries whose exp is in the past.
Expired(S) == {j \in S : Exp[j] < now}

\* Handler._send ends the request; the write raises when the client is gone.
Respond(r, code) ==
    /\ pc' = [pc EXCEPT ![r] = "closed"]
    /\ \/ reply' = [reply EXCEPT ![r] = code]
       \/ "hangup" \in Disturbances /\ UNCHANGED reply

\* ThreadingHTTPServer starts a POST while others are in progress.
Accepts ==
    IF \A q \in Requests : pc[q] \notin Working
      THEN UNCHANGED disturbed
      ELSE "overlap" \in Disturbances /\ disturbed' = disturbed \cup {"overlap"}

\* do_GET: verify the token and render the confirm page or the error page.
DoGet(r) ==
    /\ pc[r] = "idle"
    /\ Respond(r, IF Verified(tok[r]) THEN 200 ELSE 400)
    /\ UNCHANGED <<now, used, tok, stale, wire, received, marked, onTime, disturbed>>

\* do_POST up to verify: 400, or on to _prune.
DoPost(r) ==
    /\ pc[r] = "idle"
    /\ Accepts
    /\ IF Verified(tok[r])
         THEN /\ pc' = [pc EXCEPT ![r] = "prune"]
              /\ UNCHANGED reply
         ELSE Respond(r, 400)
    /\ UNCHANGED <<now, used, tok, stale, wire, received, marked, onTime>>

\* _prune reads the clock and lists the ledger ...
PruneList(r) ==
    /\ pc[r] = "prune"
    /\ stale' = [stale EXCEPT ![r] = Expired(used)]
    /\ pc' = [pc EXCEPT ![r] = "popping"]
    /\ UNCHANGED <<now, used, tok, reply, wire, received, marked, onTime, disturbed>>

\* ... and pops the expired entries one by one.
PrunePop(r) ==
    /\ pc[r] = "popping"
    /\ \E j \in stale[r] :
         /\ used' = used \ {j}
         /\ stale' = [stale EXCEPT ![r] = @ \ {j}]
    /\ UNCHANGED <<now, pc, tok, reply, wire, received, marked, onTime, disturbed>>

\* Mutant: the jti is looked up without asking whether there is one.
ConsumableAnyJti(r) == tok[r] \notin used

\* The negation of `not jti or jti in _USED`.
Consumable(r) == tok[r] \in HasJti /\ tok[r] \notin used

\* `if not jti or jti in _USED`: 409, or on to the assignment.
CheckLedger(r) ==
    /\ pc[r] = "popping" /\ stale[r] = {}
    /\ IF Consumable(r)
         THEN /\ pc' = [pc EXCEPT ![r] = "mark"]
              /\ onTime' = IF Exp[tok[r]] >= now THEN onTime \cup {r} ELSE onTime
              /\ UNCHANGED reply
         ELSE /\ Respond(r, 409)
              /\ UNCHANGED onTime
    /\ UNCHANGED <<now, used, tok, stale, wire, received, marked, disturbed>>

\* `_USED[jti] = exp`.
MarkUsed(r) ==
    /\ pc[r] = "mark"
    /\ used' = used \cup {tok[r]}
    /\ marked' = marked \cup {r}
    /\ pc' = [pc EXCEPT ![r] = "invoking"]
    /\ UNCHANGED <<now, tok, stale, reply, wire, received, onTime, disturbed>>

\* Mutant: an unreachable agent does not raise.
InvokeSendSwallowed(r) ==
    /\ pc[r] = "invoking"
    /\ \/ /\ pc' = [pc EXCEPT ![r] = "awaiting"]
          /\ wire' = wire \cup {r}
       \/ /\ pc' = [pc EXCEPT ![r] = "delivered"]
          /\ UNCHANGED wire
    /\ UNCHANGED <<now, used, tok, stale, reply, received, marked, onTime, disturbed>>

\* invoke_agent sends its message, or cannot reach the agent at all.
InvokeSend(r) ==
    /\ pc[r] = "invoking"
    /\ \/ /\ pc' = [pc EXCEPT ![r] = "awaiting"]
          /\ wire' = wire \cup {r}
       \/ /\ pc' = [pc EXCEPT ![r] = "failed"]
          /\ UNCHANGED wire
    /\ UNCHANGED <<now, used, tok, stale, reply, received, marked, onTime, disturbed>>

\* The agent receives an approval, however late.
AgentReceives(r) ==
    /\ r \in wire
    /\ wire' = wire \ {r}
    /\ received' = received \cup {r}
    /\ UNCHANGED <<now, used, pc, tok, stale, reply, marked, onTime, disturbed>>

\* invoke_agent returns: the agent answered.
InvokeReturns(r) ==
    /\ pc[r] = "awaiting" /\ r \in received
    /\ pc' = [pc EXCEPT ![r] = "delivered"]
    /\ UNCHANGED <<now, used, tok, stale, reply, wire, received, marked, onTime, disturbed>>

\* Mutant: urlopen without a timeout, so that only an answer can raise.
InvokeRaisesNoTimeout(r) ==
    /\ "late" \in Disturbances
    /\ pc[r] = "awaiting" /\ r \in received
    /\ pc' = [pc EXCEPT ![r] = "failed"]
    /\ disturbed' = disturbed \cup {"late"}
    /\ UNCHANGED <<now, used, tok, stale, reply, wire, received, marked, onTime>>

\* invoke_agent raises on a message it has sent: A2A_TIMEOUT, a reset
\* connection or an error status, whether or not the agent acted on it.
InvokeRaises(r) ==
    /\ "late" \in Disturbances
    /\ pc[r] = "awaiting"
    /\ pc' = [pc EXCEPT ![r] = "failed"]
    /\ disturbed' = disturbed \cup {"late"}
    /\ UNCHANGED <<now, used, tok, stale, reply, wire, received, marked, onTime>>

\* The success page.
RespondConfirmed(r) ==
    /\ pc[r] = "delivered"
    /\ Respond(r, 200)
    /\ UNCHANGED <<now, used, tok, stale, wire, received, marked, onTime, disturbed>>

\* The failure page comes before the pop: when its write raises, the exception
\* leaves do_POST and the entry stays.
RespondUnreachable(r) ==
    /\ pc[r] = "failed"
    /\ \/ /\ reply' = [reply EXCEPT ![r] = 502]
          /\ pc' = [pc EXCEPT ![r] = "unmark"]
          /\ UNCHANGED disturbed
       \/ /\ "hangup" \in Disturbances
          /\ disturbed' = disturbed \cup {"hangup"}
          /\ pc' = [pc EXCEPT ![r] = "closed"]
          /\ UNCHANGED reply
    /\ UNCHANGED <<now, used, tok, stale, wire, received, marked, onTime>>

\* Mutant: the failure path forgets to release the jti.
UnmarkForgotten(r) ==
    /\ pc[r] = "unmark"
    /\ pc' = [pc EXCEPT ![r] = "closed"]
    /\ UNCHANGED <<now, used, tok, stale, reply, wire, received, marked, onTime, disturbed>>

\* `_USED.pop(jti, None)  # allow retry`.
Unmark(r) ==
    /\ pc[r] = "unmark"
    /\ used' = used \ {tok[r]}
    /\ pc' = [pc EXCEPT ![r] = "closed"]
    /\ UNCHANGED <<now, tok, stale, reply, wire, received, marked, onTime, disturbed>>

Tick ==
    /\ now < MaxTime
    /\ now' = now + 1
    /\ UNCHANGED <<used, pc, tok, stale, reply, wire, received, marked, onTime, disturbed>>

\* A restart kills the threads and starts with an empty ledger; messages
\* already sent still reach the agent.
Restart ==
    /\ "restart" \in Disturbances
    /\ disturbed' = disturbed \cup {"restart"}
    /\ used' = {}
    /\ pc' = [r \in Requests |-> IF pc[r] \in Working THEN "dead" ELSE pc[r]]
    /\ stale' = [r \in Requests |-> {}]
    /\ UNCHANGED <<now, tok, reply, wire, received, marked, onTime>>

\* The steps of a request's own thread.
ThreadStep(r) ==
    \/ PruneList(r) \/ PrunePop(r) \/ CheckLedger(r) \/ MarkUsed(r)
    \/ InvokeSend(r) \/ InvokeReturns(r) \/ InvokeRaises(r)
    \/ RespondConfirmed(r) \/ RespondUnreachable(r) \/ Unmark(r)

Next ==
    \/ \E r \in Requests : DoGet(r) \/ DoPost(r) \/ ThreadStep(r) \/ AgentReceives(r)
    \/ Tick
    \/ Restart

Spec == Init /\ [][Next]_vars

\* A thread that can run does run; nobody promises that a client clicks, that
\* the agent receives anything or that the clock is read at a given moment.
FairSpec == Spec /\ \A r \in Requests : WF_vars(ThreadStep(r))

-----------------------------------------------------------------------------

\* The values the state can take: the ledger holds jtis, threads are at a line
\* of do_POST, and replies are status codes the handlers send.
TypeOK ==
    /\ now \in Nat
    /\ used \subseteq Tokens
    /\ pc \in [Requests -> {"idle"} \cup Working \cup Closed]
    /\ tok \in [Requests -> Tokens]
    /\ stale \in [Requests -> SUBSET Tokens]
    /\ reply \in [Requests -> Statuses]
    /\ wire \subseteq Requests
    /\ received \subseteq Requests
    /\ marked \subseteq Requests
    /\ onTime \subseteq Requests
    /\ disturbed \subseteq Trouble

\* "Your approval was delivered": a POST answers 200 only after the agent
\* received that very approval.  (The marked requests are the POSTs that
\* reached invoke_agent.)
ConfirmedWasDelivered ==
    \A r \in marked : reply[r] = 200 => r \in received

\* Every approval that is on its way to an agent, or was received, comes from
\* a request that verified a genuine token with a jti and consumed it first.
DeliveredWasConsumed ==
    \A r \in wire \cup received :
        r \in marked /\ tok[r] \in Genuine \cap HasJti

\* The ledger never keeps a token whose confirmation came to nothing, unless a
\* client has hung up on the failure page: an entry belongs to a request still
\* at work or to one whose approval was delivered, so that after "Agent
\* unreachable" the button can be pressed again.
LedgerIsExplained ==
    "hangup" \notin disturbed =>
        \A j \in used :
            \E r \in marked : tok[r] = j /\ (pc[r] \in Consuming \/ r \in received)

\* So far no POSTs overlapped, no invocation failed after its message was sent
\* and the pod was not restarted.
Orderly == disturbed \subseteq {"hangup"}

\* Tokens are single-use: the agent receives the approval of a token once.
SingleUse ==
    \A r, q \in received : tok[r] = tok[q] => r = q

\* The same, where the design grants it: while the history is orderly, among
\* the requests that consulted the ledger while their token was still valid.
\* The ledger keeps a consumed jti until it expires, and no longer.
SingleUseOnTime ==
    Orderly =>
        \A r, q \in received \cap onTime : tok[r] = tok[q] => r = q

\* Every POST is answered or dies with the pod: no lock or full ledger makes a
\* thread wait for another.
PostsEnd ==
    \A r \in Requests : pc[r] \in Working ~> pc[r] \in Closed

=============================================================================
