------------------------ MODULE AgentCallbackProofs ------------------------
(***************************************************************************)
(* Theorems about AgentCallback, for every set of requests and tokens and  *)
(* every expiry time.                                                      *)
(***************************************************************************)
EXTENDS AgentCallback, TLAPS

(* The disturbances recorded are those the model names.                    *)
LEMMA TroubleKept == disturbed \subseteq Trouble /\ [Next]_vars => disturbed' \subseteq Trouble
<1> SUFFICES ASSUME disturbed \subseteq Trouble, [Next]_vars
             PROVE  disturbed' \subseteq Trouble
  OBVIOUS
<1>1. {"overlap", "late", "hangup", "restart"} \subseteq Trouble
  BY DEF Trouble
<1>2. QED
  BY <1>1 DEF Next, ThreadStep, vars, DoGet, DoPost, Accepts, PruneList, PrunePop,
         CheckLedger, MarkUsed, InvokeSend, AgentReceives, InvokeReturns,
         InvokeRaises, RespondConfirmed, RespondUnreachable, Unmark, Tick, Restart

(* The type invariant is inductive: whatever the interleaving of do_POST   *)
(* threads, clock, restarts and late messages, the state stays well formed. *)
THEOREM TypeCorrect == Spec => []TypeOK
<1>1. Init => TypeOK
  BY TimeAssumption DEF Init, TypeOK, Statuses, Working, Consuming, Closed, Trouble
<1>2. TypeOK /\ [Next]_vars => TypeOK'
  <2> SUFFICES ASSUME TypeOK, [Next]_vars
               PROVE  TypeOK'
    OBVIOUS
  <2>0. disturbed' \subseteq Trouble
    BY TroubleKept DEF TypeOK
  <2> USE DEF TypeOK, Statuses, Working, Consuming, Closed
  <2>1. ASSUME NEW r \in Requests, DoGet(r)
        PROVE  TypeOK'
    BY <2>1 DEF DoGet, Respond
  <2>2. ASSUME NEW r \in Requests, DoPost(r)
        PROVE  TypeOK'
    BY <2>0, <2>2 DEF DoPost, Respond
  <2>3. ASSUME NEW r \in Requests, PruneList(r)
        PROVE  TypeOK'
    BY <2>3 DEF PruneList, Expired
  <2>4. ASSUME NEW r \in Requests, PrunePop(r)
        PROVE  TypeOK'
    BY <2>4 DEF PrunePop
  <2>5. ASSUME NEW r \in Requests, CheckLedger(r)
        PROVE  TypeOK'
    BY <2>5 DEF CheckLedger, Respond
  <2>6. ASSUME NEW r \in Requests, MarkUsed(r)
        PROVE  TypeOK'
    BY <2>6 DEF MarkUsed
  <2>7. ASSUME NEW r \in Requests, InvokeSend(r)
        PROVE  TypeOK'
    BY <2>7 DEF InvokeSend
  <2>8. ASSUME NEW r \in Requests, InvokeReturns(r) \/ InvokeRaises(r)
        PROVE  TypeOK'
    BY <2>0, <2>8 DEF InvokeReturns, InvokeRaises
  <2>9. ASSUME NEW r \in Requests, RespondConfirmed(r) \/ RespondUnreachable(r)
        PROVE  TypeOK'
    BY <2>0, <2>9 DEF RespondConfirmed, RespondUnreachable, Respond
  <2>10. ASSUME NEW r \in Requests, Unmark(r)
         PROVE  TypeOK'
    BY <2>10 DEF Unmark
  <2>11. ASSUME NEW r \in Requests, AgentReceives(r)
         PROVE  TypeOK'
    BY <2>11 DEF AgentReceives
  <2>12. CASE Tick
    BY <2>12 DEF Tick
  <2>13. CASE Restart
    BY <2>0, <2>13 DEF Restart
  <2>14. CASE UNCHANGED vars
    BY <2>14 DEF vars
  <2>15. QED
    BY <2>1, <2>2, <2>3, <2>4, <2>5, <2>6, <2>7, <2>8, <2>9, <2>10, <2>11, <2>12,
       <2>13, <2>14 DEF Next, ThreadStep
<1>3. QED
  BY <1>1, <1>2, PTL DEF Spec

-----------------------------------------------------------------------------

\* What a thread has established by the time it reaches each point of do_POST.
Causality ==
    \A r \in Requests :
        /\ pc[r] \in {"prune", "popping"} => tok[r] \in Genuine
        /\ pc[r] = "mark" => tok[r] \in Genuine \cap HasJti
        /\ pc[r] \in {"idle", "prune", "popping", "mark"} => r \notin marked
        /\ pc[r] \notin Closed \cup {"unmark"} => reply[r] = 0
        /\ pc[r] = "unmark" => reply[r] # 200
        /\ pc[r] \in Consuming => r \in marked
        /\ r \in marked => tok[r] \in Genuine \cap HasJti
        /\ r \in wire \cup received => r \in marked
        /\ pc[r] = "delivered" => r \in received
        /\ r \in marked /\ reply[r] = 200 => r \in received

\* The state in which a thread may be while the history is orderly.
Serial ==
    \A r \in Requests :
        /\ \A q \in Requests : pc[r] \in Working /\ pc[q] \in Working => r = q
        /\ stale[r] # {} => pc[r] = "popping"
        /\ \A j \in stale[r] : Exp[j] < now
        /\ r \in wire => pc[r] = "awaiting" /\ r \notin received
        /\ r \in received => pc[r] \in {"awaiting", "delivered", "closed"}
        /\ r \in onTime => pc[r] \in {"mark", "closed"} \cup Consuming

\* The ledger keeps what was delivered until it expires, so that a thread that
\* is past an on-time check never carries a token already delivered.
Remembered ==
    \A r \in Requests :
        /\ r \in received \/ pc[r] \in Consuming =>
              tok[r] \in used \/ Exp[tok[r]] < now
        /\ \A q \in received :
              /\ q # r
              /\ tok[q] = tok[r]
              /\ pc[r] \in {"mark"} \cup Consuming
              => Exp[tok[r]] < now /\ r \notin onTime

-----------------------------------------------------------------------------

(* Causality holds in every interleaving.                                  *)
LEMMA CausalityHolds == Spec => []Causality
<1>1. Init => Causality
  BY DEF Init, Causality, Working, Consuming, Closed
<1>2. TypeOK /\ Causality /\ [Next]_vars => Causality'
  <2> SUFFICES ASSUME TypeOK, Causality, [Next]_vars
               PROVE  Causality'
    OBVIOUS
  <2> USE DEF TypeOK, Causality, Statuses, Working, Consuming, Closed
  <2>1. ASSUME NEW r \in Requests, DoGet(r)
        PROVE  Causality'
    BY <2>1 DEF DoGet, Respond
  <2>2. ASSUME NEW r \in Requests, DoPost(r)
        PROVE  Causality'
    BY <2>2 DEF DoPost, Accepts, Respond, Verified
  <2>3. ASSUME NEW r \in Requests, PruneList(r)
        PROVE  Causality'
    BY <2>3 DEF PruneList, Expired
  <2>4. ASSUME NEW r \in Requests, PrunePop(r)
        PROVE  Causality'
    BY <2>4 DEF PrunePop
  <2>5. ASSUME NEW r \in Requests, CheckLedger(r)
        PROVE  Causality'
    BY <2>5 DEF CheckLedger, Consumable, Respond
  <2>6. ASSUME NEW r \in Requests, MarkUsed(r)
        PROVE  Causality'
    BY <2>6 DEF MarkUsed
  <2>7. ASSUME NEW r \in Requests, InvokeSend(r)
        PROVE  Causality'
    BY <2>7 DEF InvokeSend
  <2>8. ASSUME NEW r \in Requests, InvokeReturns(r)
        PROVE  Causality'
    BY <2>8 DEF InvokeReturns
  <2>9. ASSUME NEW r \in Requests, InvokeRaises(r)
        PROVE  Causality'
    BY <2>9 DEF InvokeRaises
  <2>10. ASSUME NEW r \in Requests, RespondConfirmed(r)
        PROVE  Causality'
    BY <2>10 DEF RespondConfirmed, Respond
  <2>11. ASSUME NEW r \in Requests, RespondUnreachable(r)
        PROVE  Causality'
    BY <2>11 DEF RespondUnreachable
  <2>12. ASSUME NEW r \in Requests, Unmark(r)
        PROVE  Causality'
    BY <2>12 DEF Unmark
  <2>13. ASSUME NEW r \in Requests, AgentReceives(r)
        PROVE  Causality'
    BY <2>13 DEF AgentReceives
  <2>14. CASE Tick
    BY <2>14 DEF Tick
  <2>15. CASE Restart
    BY <2>15 DEF Restart
  <2>16. CASE UNCHANGED vars
    BY <2>16 DEF vars
  <2>17. QED
    BY <2>1, <2>2, <2>3, <2>4, <2>5, <2>6, <2>7, <2>8, <2>9, <2>10, <2>11,
       <2>12, <2>13, <2>14, <2>15, <2>16 DEF Next, ThreadStep
<1>3. QED
  BY <1>1, <1>2, TypeCorrect, PTL DEF Spec

(* No approval reaches an agent, or is on its way to one, that does not    *)
(* come from a POST which verified a genuine token with a jti and entered  *)
(* it in _USED before it called invoke_agent.                              *)
THEOREM DeliveryIsConsumed == Spec => []DeliveredWasConsumed
<1>1. TypeOK /\ Causality => DeliveredWasConsumed
  BY DEF TypeOK, Causality, DeliveredWasConsumed
<1>2. QED
  BY <1>1, TypeCorrect, CausalityHolds, PTL

(* do_POST tells Rob "Your approval was delivered" only when it was.       *)
THEOREM ConfirmationIsTrue == Spec => []ConfirmedWasDelivered
<1>1. TypeOK /\ Causality => ConfirmedWasDelivered
  BY DEF TypeOK, Causality, ConfirmedWasDelivered
<1>2. QED
  BY <1>1, TypeCorrect, CausalityHolds, PTL

-----------------------------------------------------------------------------

(* As long as no client hung up on a failure page, _USED holds no token    *)
(* whose confirmation came to nothing: its entries belong to requests at   *)
(* work or delivered.                                                      *)
THEOREM LedgerExplained == Spec => []LedgerIsExplained
<1>1. Init => LedgerIsExplained
  BY DEF Init, LedgerIsExplained
<1>2. TypeOK /\ Causality /\ LedgerIsExplained /\ [Next]_vars => LedgerIsExplained'
  <2> SUFFICES ASSUME TypeOK, Causality, LedgerIsExplained, [Next]_vars
               PROVE  LedgerIsExplained'
    OBVIOUS
  <2> USE DEF TypeOK, LedgerIsExplained, Consuming
  <2>1. ASSUME NEW r \in Requests, DoGet(r)
        PROVE  LedgerIsExplained'
    BY <2>1 DEF DoGet, Respond
  <2>2. ASSUME NEW r \in Requests, DoPost(r)
        PROVE  LedgerIsExplained'
    BY <2>2 DEF DoPost, Accepts, Respond, Verified
  <2>3. ASSUME NEW r \in Requests, PruneList(r)
        PROVE  LedgerIsExplained'
    BY <2>3 DEF PruneList, Expired
  <2>4. ASSUME NEW r \in Requests, PrunePop(r)
        PROVE  LedgerIsExplained'
    BY <2>4 DEF PrunePop
  <2>5. ASSUME NEW r \in Requests, CheckLedger(r)
        PROVE  LedgerIsExplained'
    BY <2>5 DEF CheckLedger, Consumable, Respond
  <2>6. ASSUME NEW r \in Requests, MarkUsed(r)
        PROVE  LedgerIsExplained'
    BY <2>6 DEF MarkUsed
  <2>7. ASSUME NEW r \in Requests, InvokeSend(r)
        PROVE  LedgerIsExplained'
    BY <2>7 DEF InvokeSend
  <2>8. ASSUME NEW r \in Requests, InvokeReturns(r)
        PROVE  LedgerIsExplained'
    BY <2>8 DEF InvokeReturns
  <2>9. ASSUME NEW r \in Requests, InvokeRaises(r)
        PROVE  LedgerIsExplained'
    BY <2>9 DEF InvokeRaises
  <2>10. ASSUME NEW r \in Requests, RespondConfirmed(r)
        PROVE  LedgerIsExplained'
    BY <2>10 DEF RespondConfirmed, Respond, Causality
  <2>11. ASSUME NEW r \in Requests, RespondUnreachable(r)
        PROVE  LedgerIsExplained'
    BY <2>11 DEF RespondUnreachable
  <2>12. ASSUME NEW r \in Requests, Unmark(r)
        PROVE  LedgerIsExplained'
    BY <2>12 DEF Unmark
  <2>13. ASSUME NEW r \in Requests, AgentReceives(r)
        PROVE  LedgerIsExplained'
    BY <2>13 DEF AgentReceives
  <2>14. CASE Tick
    BY <2>14 DEF Tick
  <2>15. CASE Restart
    BY <2>15 DEF Restart
  <2>16. CASE UNCHANGED vars
    BY <2>16 DEF vars
  <2>17. QED
    BY <2>1, <2>2, <2>3, <2>4, <2>5, <2>6, <2>7, <2>8, <2>9, <2>10, <2>11,
       <2>12, <2>13, <2>14, <2>15, <2>16 DEF Next, ThreadStep
<1>3. QED
  BY <1>1, <1>2, TypeCorrect, CausalityHolds, PTL DEF Spec
-----------------------------------------------------------------------------

(* A history that is orderly after a step was orderly before it: no action *)
(* takes a disturbance back.                                               *)
LEMMA DisturbedGrows == [Next]_vars /\ Orderly' => Orderly
  BY DEF Next, ThreadStep, vars, Orderly, DoGet, DoPost, Accepts, PruneList, PrunePop,
         CheckLedger, MarkUsed, InvokeSend, AgentReceives, InvokeReturns,
         InvokeRaises, RespondConfirmed, RespondUnreachable, Unmark, Tick, Restart

(* While the history is orderly, Serial and Remembered hold.               *)
LEMMA SerialHolds == Spec => [](Orderly => Serial /\ Remembered)
<1>1. Init => Serial /\ Remembered
  BY DEF Init, Serial, Remembered, Working, Consuming
<1>2. /\ TypeOK
      /\ Orderly => Serial /\ Remembered
      /\ [Next]_vars
      => (Orderly => Serial /\ Remembered)'
  <2> SUFFICES ASSUME TypeOK, Orderly => Serial /\ Remembered, [Next]_vars, Orderly'
               PROVE  Serial' /\ Remembered'
    OBVIOUS
  <2>0. Serial /\ Remembered
    BY DisturbedGrows
  <2> USE <2>0, TimeAssumption
      DEF TypeOK, Serial, Remembered, Orderly, Working, Consuming, Closed
  <2>1. ASSUME NEW r \in Requests, DoGet(r)
        PROVE  Serial' /\ Remembered'
    BY <2>1 DEF DoGet, Respond
  <2>2. ASSUME NEW r \in Requests, DoPost(r)
        PROVE  Serial' /\ Remembered'
    BY <2>2 DEF DoPost, Accepts, Respond, Verified
  <2>3. ASSUME NEW r \in Requests, PruneList(r)
        PROVE  Serial' /\ Remembered'
    BY <2>3 DEF PruneList, Expired
  <2>4. ASSUME NEW r \in Requests, PrunePop(r)
        PROVE  Serial' /\ Remembered'
    BY <2>4 DEF PrunePop
  <2>5. ASSUME NEW r \in Requests, CheckLedger(r)
        PROVE  Serial' /\ Remembered'
    BY <2>5 DEF CheckLedger, Consumable, Respond
  <2>6. ASSUME NEW r \in Requests, MarkUsed(r)
        PROVE  Serial' /\ Remembered'
    BY <2>6 DEF MarkUsed
  <2>7. ASSUME NEW r \in Requests, InvokeSend(r)
        PROVE  Serial' /\ Remembered'
    BY <2>7 DEF InvokeSend
  <2>8. ASSUME NEW r \in Requests, InvokeReturns(r)
        PROVE  Serial' /\ Remembered'
    BY <2>8 DEF InvokeReturns
  <2>9. ASSUME NEW r \in Requests, InvokeRaises(r)
        PROVE  Serial' /\ Remembered'
    BY <2>9 DEF InvokeRaises
  <2>10. ASSUME NEW r \in Requests, RespondConfirmed(r)
        PROVE  Serial' /\ Remembered'
    BY <2>10 DEF RespondConfirmed, Respond
  <2>11. ASSUME NEW r \in Requests, RespondUnreachable(r)
        PROVE  Serial' /\ Remembered'
    BY <2>11 DEF RespondUnreachable
  <2>12. ASSUME NEW r \in Requests, Unmark(r)
        PROVE  Serial' /\ Remembered'
    BY <2>12 DEF Unmark
  <2>13. ASSUME NEW r \in Requests, AgentReceives(r)
        PROVE  Serial' /\ Remembered'
    BY <2>13 DEF AgentReceives
  <2>14. CASE Tick
    BY <2>14 DEF Tick
  <2>15. CASE Restart
    BY <2>15 DEF Restart
  <2>16. CASE UNCHANGED vars
    BY <2>16 DEF vars
  <2>17. QED
    BY <2>1, <2>2, <2>3, <2>4, <2>5, <2>6, <2>7, <2>8, <2>9, <2>10, <2>11,
       <2>12, <2>13, <2>14, <2>15, <2>16 DEF Next, ThreadStep
<1>3. QED
  BY <1>1, <1>2, TypeCorrect, PTL DEF Spec

(* _USED makes tokens single-use for every request that looks there while  *)
(* its token is still valid, as long as calls of do_POST have not          *)
(* overlapped, the process has not restarted and urlopen has raised only   *)
(* on a message it had not sent.                                           *)
THEOREM SerialIsSingleUse == Spec => []SingleUseOnTime
<1>1. Init => SingleUseOnTime
  BY DEF Init, SingleUseOnTime
<1>2. /\ TypeOK
      /\ Orderly => Serial /\ Remembered
      /\ SingleUseOnTime
      /\ [Next]_vars
      => SingleUseOnTime'
  <2> SUFFICES ASSUME TypeOK, Orderly => Serial /\ Remembered, SingleUseOnTime,
                      [Next]_vars, Orderly'
               PROVE  SingleUseOnTime'
    BY DEF SingleUseOnTime
  <2>0. Orderly /\ Serial /\ Remembered
    BY DisturbedGrows
  <2> USE <2>0 DEF TypeOK, SingleUseOnTime
  <2>1. ASSUME NEW r \in Requests, DoGet(r)
        PROVE  SingleUseOnTime'
    BY <2>1 DEF DoGet, Respond
  <2>2. ASSUME NEW r \in Requests, DoPost(r)
        PROVE  SingleUseOnTime'
    BY <2>2 DEF DoPost, Accepts, Respond, Verified
  <2>3. ASSUME NEW r \in Requests, PruneList(r)
        PROVE  SingleUseOnTime'
    BY <2>3 DEF PruneList, Expired
  <2>4. ASSUME NEW r \in Requests, PrunePop(r)
        PROVE  SingleUseOnTime'
    BY <2>4 DEF PrunePop
  <2>5. ASSUME NEW r \in Requests, CheckLedger(r)
        PROVE  SingleUseOnTime'
    BY <2>5 DEF CheckLedger, Respond, Serial, Consuming
  <2>6. ASSUME NEW r \in Requests, MarkUsed(r)
        PROVE  SingleUseOnTime'
    BY <2>6 DEF MarkUsed
  <2>7. ASSUME NEW r \in Requests, InvokeSend(r)
        PROVE  SingleUseOnTime'
    BY <2>7 DEF InvokeSend
  <2>8. ASSUME NEW r \in Requests, InvokeReturns(r)
        PROVE  SingleUseOnTime'
    BY <2>8 DEF InvokeReturns
  <2>9. ASSUME NEW r \in Requests, InvokeRaises(r)
        PROVE  SingleUseOnTime'
    BY <2>9 DEF InvokeRaises
  <2>10. ASSUME NEW r \in Requests, RespondConfirmed(r)
        PROVE  SingleUseOnTime'
    BY <2>10 DEF RespondConfirmed, Respond
  <2>11. ASSUME NEW r \in Requests, RespondUnreachable(r)
        PROVE  SingleUseOnTime'
    BY <2>11 DEF RespondUnreachable
  <2>12. ASSUME NEW r \in Requests, Unmark(r)
        PROVE  SingleUseOnTime'
    BY <2>12 DEF Unmark
  <2>13. ASSUME NEW r \in Requests, AgentReceives(r)
        PROVE  SingleUseOnTime'
    BY <2>13 DEF AgentReceives, Serial, Remembered, Working, Consuming
  <2>14. CASE Tick
    BY <2>14 DEF Tick
  <2>15. CASE Restart
    BY <2>15 DEF Restart
  <2>16. CASE UNCHANGED vars
    BY <2>16 DEF vars
  <2>17. QED
    BY <2>1, <2>2, <2>3, <2>4, <2>5, <2>6, <2>7, <2>8, <2>9, <2>10, <2>11,
       <2>12, <2>13, <2>14, <2>15, <2>16 DEF Next, ThreadStep
<1>3. QED
  BY <1>1, <1>2, TypeCorrect, SerialHolds, PTL DEF Spec
=============================================================================
