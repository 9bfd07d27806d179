------------------------- MODULE DoerPipelineProofs -------------------------
(***************************************************************************)
(* Theorems about DoerPipeline, for any proposals, targets, values and     *)
(* attempts, any number of runs and of edits by people, and any order of   *)
(* failures, kills, merges, declines and deleted branches.                 *)
(***************************************************************************)
EXTENDS DoerPipeline, TLAPS

Places == {"idle", "ask", "gates", "clone", "apply", "existing", "push", "open",
           "notify", "raise"}

Run == [pc : Places, attempt : 0..Attempts, p : Proposals \cup {NoProposal},
        base : Values \cup {Absent}, opened : BOOLEAN, cloned : BOOLEAN, blind : BOOLEAN]

Typed == TypeOK /\ run \in Run

\* The change a proposal asks for may be published.
Allowed(p) == Validate(p) /\ (p.action = "set_limit" => 10 * p.value <= 9 * NodeMax)

\* Its limit fits the headroom, when that is known.
Fits(p, known) == p.action = "set_limit" /\ known => p.value <= Headroom

\* What the run has established at each line of main: past the gates its
\* proposal is allowed and fits the headroom if that was known, past the clone it knows the value it edits, past the
\* edit a protected value is above that one; only the POST sets opened.
Passed ==
    /\ run.pc \in Places \ {"idle", "ask"} => run.p \in Proposals
    /\ run.pc \in {"clone", "apply", "existing", "push"} =>
         Allowed(run.p) /\ Fits(run.p, ~run.blind)
    /\ run.pc \in {"apply", "existing", "push"} => run.base \in Values
    /\ run.pc \in {"existing", "push"} =>
         run.p.target \in Present /\ (Protected(run.p) => run.p.value > run.base)
    /\ run.opened => run.pc \in {"notify", "raise"}

\* GitHub closes a PR before its branch goes.
OpenHasBranch == \A p \in Proposals : pr[p] => branch[p] # Absent

\* The inductive invariant.
Inv == Typed /\ Passed /\ BranchesPassedGates /\ OpenHasBranch /\ OpenedIsAnnounced

(* Goto moves the run and keeps its locals.                                *)
LEMMA GotoIs ==
    ASSUME Typed, NEW where \in Places, Goto(where)
    PROVE  /\ run' \in Run /\ run'.pc = where /\ run'.p = run.p /\ run'.base = run.base
           /\ run'.opened = run.opened /\ run'.cloned = run.cloned /\ run'.blind = run.blind
  BY DEF Goto, Typed, Run

(* A run that is over holds nothing.                                       *)
LEMMA IdleIs ==
    /\ Idle \in Run /\ Idle.pc = "idle" /\ Idle.p = NoProposal /\ Idle.opened = FALSE
  BY BoundsAssumption DEF Idle, Run, Places

(* Another attempt begins with the question; only the clone may be left.   *)
LEMMA NextAttemptIs ==
    ASSUME Typed, NEW c \in BOOLEAN, NextAttempt(c)
    PROVE  run' \in Run /\ run'.pc \in {"idle", "ask"} /\ run'.opened = FALSE
<1>1. CASE run' = Idle
  BY <1>1, IdleIs
<1>2. CASE run.attempt < Attempts
           /\ run' = [Idle EXCEPT !.pc = "ask", !.attempt = run.attempt + 1, !.cloned = c]
  <2>1. run.attempt + 1 \in 0..Attempts
    BY <1>2, BoundsAssumption DEF Typed, TypeOK
  <2>2. run' = [pc |-> "ask", attempt |-> run.attempt + 1, p |-> NoProposal,
                base |-> Absent, opened |-> FALSE, cloned |-> c, blind |-> FALSE]
    BY <1>2 DEF Idle
  <2>3. QED
    BY <2>1, <2>2 DEF Run, Places
<1>3. QED
  BY <1>1, <1>2 DEF NextAttempt

(* A proposal's fields, and that no proposal is NoProposal.                *)
LEMMA ProposalIs ==
    ASSUME NEW p \in Proposals
    PROVE  p.target \in Targets /\ p.value \in Values /\ p.value \in Nat /\ p # NoProposal
<1>1. p.target \in Targets /\ p.value \in Values
  BY ProposalsAssumption
<1>2. NoProposal.value = Absent
  BY DEF NoProposal
<1>3. QED
  BY <1>1, <1>2, BoundsAssumption, AbsentAssumption

(* The gates let through only what may be published.                       *)
LEMMA GatesAllow ==
    ASSUME NEW p, NEW node \in {NodeMax, Absent}, NEW free \in {Headroom, Absent},
           Validate(p), Capacity(p, node, free)
    PROVE  Allowed(p) /\ Fits(p, free # Absent)
  BY DEF Allowed, Fits, Capacity

(* The guards of the edits: a protected value that is edited is raised.    *)
LEMMA EditRaises ==
    ASSUME NEW p \in Proposals, NEW cur \in Values, Edit(p, cur) = "edit"
    PROVE  p.target \in Present /\ (Protected(p) => p.value > cur)
<1>1. p.value \in Nat /\ cur \in Nat
  BY ProposalIs, BoundsAssumption
<1>2. p.target \in Present /\ ~Refused(p, cur) /\ p.value # cur
  BY DEF Edit
<1>3. QED
  BY <1>1, <1>2 DEF Refused, Protected

-----------------------------------------------------------------------------
(* One lemma per part of the invariant.                                    *)

(* The run's locals at each line of main.                                  *)
LEMMA PassedStep ==
    ASSUME Inv, [Next]_vars
    PROVE  run' \in Run /\ Passed'
<1> USE DEF Inv, Typed, Passed
<1>a. run \in Run
  OBVIOUS
<1>b. \A w \in Places : w \in {"idle", "ask"} \/ w \in Places \ {"idle", "ask"}
  OBVIOUS
<1>1. ASSUME run' \in Run, run'.pc \in {"idle", "ask"}, run'.opened = FALSE
      PROVE  run' \in Run /\ Passed'
  BY <1>1
<1>2. CASE Silent
  BY <1>1, <1>2, IdleIs DEF Silent
<1>3. CASE Schedule
  <2>1. run' = [pc |-> "ask", attempt |-> 1, p |-> NoProposal, base |-> Absent,
                opened |-> FALSE, cloned |-> FALSE, blind |-> FALSE]
    BY <1>3 DEF Schedule, Idle
  <2>2. 1 \in 0..Attempts
    BY BoundsAssumption
  <2>3. QED
    BY <1>1, <2>1, <2>2 DEF Run, Places
<1>4. CASE AskAgent
  <2>1. ASSUME NEW p \in Proposals, run' = [run EXCEPT !.pc = "gates", !.p = p], run.pc = "ask"
        PROVE  run' \in Run /\ Passed'
    <3>1. run' \in Run /\ run'.pc = "gates" /\ run'.p = p /\ run'.opened = run.opened
      BY <2>1 DEF Run, Places
    <3>2. QED
      BY <2>1, <3>1
  <2>2. QED
    BY <1>2, <1>4, <2>1 DEF AskAgent
<1>5. CASE Gates
  <2>1. PICK node \in {NodeMax, Absent}, free \in {Headroom, Absent} :
          IF Validate(run.p) /\ Capacity(run.p, node, free) /\ HasToken
            THEN run' = [run EXCEPT !.pc = "clone",
                                    !.blind = run.p.action = "set_limit" /\ free = Absent]
            ELSE Silent
    BY <1>5 DEF Gates
  <2>2. CASE Validate(run.p) /\ Capacity(run.p, node, free) /\ HasToken
    <3> DEFINE b == run.p.action = "set_limit" /\ free = Absent
    <3>1. Allowed(run.p) /\ Fits(run.p, ~b)
      BY <2>2, GatesAllow DEF Fits
    <3>2. b \in BOOLEAN
      OBVIOUS
    <3>3. run' = [run EXCEPT !.pc = "clone", !.blind = b]
      BY <2>1, <2>2
    <3> HIDE DEF b
    <3>4. /\ run' \in Run /\ run'.pc = "clone" /\ run'.p = run.p /\ run'.blind = b
          /\ run'.opened = run.opened
      BY <3>2, <3>3 DEF Run, Places
    <3>5. QED
      BY <1>5, <3>1, <3>4 DEF Gates, Places
  <2>3. QED
    BY <1>2, <2>1, <2>2
<1>6. ASSUME Goto("raise"), run.pc \in Places \ {"idle", "ask"}
      PROVE  run' \in Run /\ Passed'
  BY <1>6, GotoIs DEF Places
<1>7. CASE Clone
  <2>1. CASE run' = [run EXCEPT !.pc = "apply", !.base = main[run.p.target], !.cloned = TRUE]
    <3>1. main[run.p.target] \in Values
      BY <1>7, ProposalIs DEF Clone, TypeOK, Places
    <3> DEFINE v == main[run.p.target]
    <3> HIDE DEF v
    <3>2. /\ run' \in Run /\ run'.pc = "apply" /\ run'.p = run.p /\ run'.base = v
          /\ run'.opened = run.opened /\ run'.blind = run.blind
      BY <2>1, <3>1 DEF Run, Places, v
    <3>3. QED
      BY <1>7, <3>1, <3>2 DEF Clone, v, Places
  <2>2. QED
    BY <1>6, <1>7, <2>1 DEF Clone, Places
<1>8. CASE FindAndApply
  <2>1. CASE Edit(run.p, run.base) = "edit" /\ Goto("existing")
    <3>1. /\ run.p \in Proposals /\ run.base \in Values /\ ~run.opened
          /\ Allowed(run.p) /\ Fits(run.p, ~run.blind)
      BY <1>8 DEF FindAndApply, Places
    <3>2. run.p.target \in Present /\ (Protected(run.p) => run.p.value > run.base)
      BY <2>1, <3>1, EditRaises
    <3>3. QED
      BY <2>1, <3>1, <3>2, GotoIs DEF Places
  <2>2. QED
    BY <1>2, <1>6, <1>8, <2>1 DEF FindAndApply, Places
<1>9. CASE CheckExisting
  <2>1. CASE Goto("push")
    BY <1>9, <2>1, GotoIs DEF CheckExisting, Places
  <2>2. QED
    BY <1>2, <1>6, <1>9, <2>1 DEF CheckExisting, Places
<1>10. CASE Push
  <2>1. CASE Goto("open")
    BY <1>10, <2>1, GotoIs DEF Push, Places
  <2>2. QED
    BY <1>6, <1>10, <2>1 DEF Push, Places
<1>11. CASE OpenPR
  <2>1. ASSUME NEW w \in {"notify", "raise"}, run' = [run EXCEPT !.pc = w, !.opened = TRUE]
        PROVE  run' \in Run /\ Passed'
    <3>1. run' \in Run /\ run'.pc = w /\ run'.p = run.p
      BY <2>1 DEF Run, Places
    <3>2. QED
      BY <1>11, <3>1 DEF OpenPR, Places
  <2>2. QED
    BY <1>6, <1>11, <2>1 DEF OpenPR, Places
<1>12. CASE Notify
  BY <1>2, <1>12 DEF Notify
<1>13. CASE Raise
  BY <1>1, <1>13, NextAttemptIs DEF Raise, TypeOK
<1>14. CASE Kill
  <2>1. \A c \in {run.cloned, run.cloned \/ run.pc = "clone", FALSE} : c \in BOOLEAN
    BY DEF TypeOK
  <2>2. QED
    BY <1>1, <1>2, <1>14, <2>1, NextAttemptIs DEF Kill
<1>15. CASE run' = run
  BY <1>15
<1>16. CASE People
  BY <1>15, <1>16 DEF People, EditMain, Merge, Decline, DeleteBranch
<1>17. QED
  BY <1>3, <1>4, <1>5, <1>7, <1>8, <1>9, <1>10, <1>11, <1>12, <1>13, <1>14, <1>15, <1>16
     DEF Next, Pipeline, vars

(* What the people's steps and the pipeline's do to GitHub.                *)
LEMMA TypeStep ==
    ASSUME Inv, [Next]_vars
    PROVE  TypeOK'
<1> USE DEF Inv, Typed
<1>a. run' \in Run
  BY PassedStep
<1>b. /\ run'.p \in Proposals \cup {NoProposal}
      /\ {run'.opened, run'.cloned, run'.blind} \subseteq BOOLEAN
      /\ run'.attempt \in 0..Attempts /\ run'.base \in Values \cup {Absent}
  BY <1>a DEF Run
<1>c. run.pc \in Places \ {"idle", "ask"} => run.p \in Proposals
  BY DEF Passed
<1>d. run.opened => run.p \in Proposals
  BY DEF Passed, Places
<1>1. CASE Schedule
  BY <1>1, <1>b, BoundsAssumption DEF Schedule, TypeOK, remote, history
<1>2. CASE AskAgent \/ Gates \/ Clone \/ FindAndApply \/ CheckExisting
  BY <1>2, <1>b DEF AskAgent, Gates, Clone, FindAndApply, CheckExisting, TypeOK, remote, history
<1>3. CASE Push
  <2>1. branch' \in [Proposals -> Values \cup {Absent}] /\ blind' \subseteq Proposals
    BY <1>3, <1>c DEF Push, Pushed, TypeOK, Places
  <2>2. QED
    BY <1>3, <1>b, <2>1 DEF Push, TypeOK, history
<1>4. CASE OpenPR
  <2>1. /\ pr' \in [Proposals -> BOOLEAN]
        /\ told' \subseteq Proposals /\ unheard' \subseteq Proposals
    BY <1>4 DEF OpenPR, Opens, TypeOK, history
  <2>2. QED
    BY <1>4, <1>b, <2>1 DEF OpenPR, TypeOK
<1>5. CASE Notify \/ Raise
  <2>1. told' \subseteq Proposals /\ unheard' \subseteq Proposals
    BY <1>5, <1>c, <1>d DEF Notify, Raise, Unannounced, TypeOK, Places
  <2>2. QED
    BY <1>5, <1>b, <2>1 DEF Notify, Raise, TypeOK, remote
<1>6. CASE Kill
  BY <1>6, <1>b, <1>d DEF Kill, Unannounced, TypeOK, remote
<1>7. ASSUME NEW p \in Proposals, Closed(p)
      PROVE  /\ pr' \in [Proposals -> BOOLEAN]
             /\ branch' \in [Proposals -> Values \cup {Absent}]
             /\ told' \subseteq Proposals /\ unheard' \subseteq Proposals
  BY <1>7 DEF Closed, TypeOK
<1>8. ASSUME NEW p \in Proposals, Merge(p)
      PROVE  TypeOK'
  <2>1. main' \in [Targets -> Values]
    BY <1>8, ProposalIs DEF Merge, TypeOK
  <2>2. QED
    BY <1>7, <1>8, <1>b, <2>1 DEF Merge, TypeOK
<1>9. ASSUME NEW p \in Proposals, Decline(p)
      PROVE  TypeOK'
  BY <1>7, <1>9, <1>b DEF Decline, TypeOK
<1>10. ASSUME NEW p \in Proposals, DeleteBranch(p)
       PROVE  TypeOK'
  BY <1>10, <1>b DEF DeleteBranch, TypeOK, history
<1>11. CASE EditMain
  <2>1. main' \in [Targets -> Values]
    BY <1>11, BoundsAssumption DEF EditMain, TypeOK
  <2>2. QED
    BY <1>11, <1>b, <2>1, BoundsAssumption DEF EditMain, TypeOK, history
<1>12. CASE UNCHANGED vars
  BY <1>12 DEF vars, TypeOK
<1>13. QED
  BY <1>1, <1>2, <1>3, <1>4, <1>5, <1>6, <1>8, <1>9, <1>10, <1>11, <1>12
     DEF Next, Pipeline, People

(* Only the push makes a branch, for a change that passed the gates; a PR   *)
(* is opened for a branch that is there, and closed before it goes.        *)
LEMMA BranchStep ==
    ASSUME Inv, [Next]_vars
    PROVE  BranchesPassedGates' /\ OpenHasBranch'
<1> USE DEF Inv, Typed, BranchesPassedGates, OpenHasBranch
<1>a. branch \in [Proposals -> Values \cup {Absent}] /\ pr \in [Proposals -> BOOLEAN]
  BY DEF TypeOK
<1>1. CASE Push
  <2>1. /\ run.p \in Proposals /\ run.base \in Values
        /\ Allowed(run.p) /\ Fits(run.p, ~run.blind)
        /\ run.p.target \in Present /\ (Protected(run.p) => run.p.value > run.base)
    BY <1>1 DEF Push, Passed, Places
  <2>2. CASE Pushed
    <3>1. branch'[run.p] = run.base /\ \A q \in Proposals \ {run.p} : branch'[q] = branch[q]
      BY <1>a, <2>1, <2>2 DEF Pushed
    <3>2. /\ run.p \in blind' \/ ~run.blind
          /\ \A q \in Proposals \ {run.p} : q \in blind => q \in blind'
      BY <2>2 DEF Pushed
    <3>3. pr' = pr /\ run.base # Absent
      BY <1>1, <2>1, AbsentAssumption DEF Push
    <3>4. QED
      BY <1>a, <2>1, <3>1, <3>2, <3>3 DEF Allowed, Fits
  <2>3. CASE branch' = branch /\ blind' = blind
    BY <1>1, <2>3 DEF Push
  <2>4. QED
    BY <1>1, <2>2, <2>3 DEF Push
<1>2. CASE OpenPR
  <2>1. run.p \in Proposals /\ branch' = branch /\ blind' = blind
    BY <1>2 DEF OpenPR, Passed, Places
  <2>2. CASE pr' = pr
    BY <2>1, <2>2
  <2>3. CASE Openable(run.p) /\ pr' = [pr EXCEPT ![run.p] = TRUE]
    BY <1>a, <2>1, <2>3 DEF Openable
  <2>4. QED
    BY <1>2, <2>2, <2>3 DEF OpenPR, Opens
<1>3. ASSUME NEW p \in Proposals, Closed(p), blind' = blind
      PROVE  BranchesPassedGates' /\ OpenHasBranch'
  <2>1. pr'[p] = FALSE /\ \A q \in Proposals \ {p} : pr'[q] = pr[q]
    BY <1>3, <1>a DEF Closed
  <2>2. /\ branch'[p] \in {branch[p], Absent}
        /\ \A q \in Proposals \ {p} : branch'[q] = branch[q]
    BY <1>3, <1>a DEF Closed
  <2>3. QED
    BY <1>3, <2>1, <2>2
<1>4. ASSUME NEW p \in Proposals, DeleteBranch(p)
      PROVE  BranchesPassedGates' /\ OpenHasBranch'
  BY <1>4, <1>a DEF DeleteBranch
<1>5. CASE UNCHANGED <<branch, pr, blind>>
  BY <1>5
<1>6. QED
  BY <1>1, <1>2, <1>3, <1>4, <1>5
     DEF Next, Pipeline, People, Schedule, AskAgent, Gates, Clone, FindAndApply, CheckExisting,
         Notify, Raise, Kill, Merge, Decline, EditMain, remote, vars

(* The run that opened a PR holds on to the news until it is told or lost. *)
LEMMA AnnouncedStep ==
    ASSUME Inv, [Next]_vars
    PROVE  OpenedIsAnnounced'
<1> USE DEF Inv, Typed, OpenedIsAnnounced
<1>a. pr \in [Proposals -> BOOLEAN] /\ told \subseteq Proposals /\ unheard \subseteq Proposals
  BY DEF TypeOK
<1>1. CASE OpenPR
  <2>1. run.p \in Proposals /\ ~run.opened
    BY <1>1 DEF OpenPR, Passed, Places
  <2>2. CASE Goto("raise") /\ UNCHANGED <<pr, told, unheard>>
    BY <2>1, <2>2, GotoIs DEF Places
  <2>3. ASSUME NEW w \in {"notify", "raise"}, Opens, run' = [run EXCEPT !.pc = w, !.opened = TRUE]
        PROVE  OpenedIsAnnounced'
    <3>1. run'.opened = TRUE /\ run'.p = run.p
      BY <2>3 DEF Run
    <3>2. \A q \in Proposals \ {run.p} : pr'[q] = pr[q]
      BY <1>a, <2>1, <2>3 DEF Opens
    <3>3. QED
      BY <2>1, <2>3, <3>1, <3>2 DEF Opens
  <2>4. QED
    BY <1>1, <2>2, <2>3 DEF OpenPR, history
<1>2. CASE Notify \/ Raise
  BY <1>2 DEF Notify, Raise, Unannounced, remote
<1>3. CASE Kill
  BY <1>3 DEF Kill, Unannounced, remote
<1>4. ASSUME NEW p \in Proposals, Closed(p), UNCHANGED run
      PROVE  OpenedIsAnnounced'
  BY <1>4, <1>a DEF Closed
<1>5. CASE UNCHANGED <<pr, told, unheard, run>>
  BY <1>5
<1>6. ASSUME ~run.opened, UNCHANGED <<pr, told, unheard>>
      PROVE  OpenedIsAnnounced'
  BY <1>6
<1>7. CASE Schedule \/ AskAgent \/ Gates \/ Clone \/ FindAndApply \/ CheckExisting \/ Push
  <2>1. run.pc \notin {"notify", "raise"} /\ UNCHANGED <<pr, told, unheard>>
    BY <1>7 DEF Schedule, AskAgent, Gates, Clone, FindAndApply, CheckExisting, Push, remote,
                history
  <2>2. QED
    BY <1>6, <2>1 DEF Passed
<1>8. QED
  BY <1>1, <1>2, <1>3, <1>4, <1>5, <1>7
     DEF Next, Pipeline, People, Merge, Decline, DeleteBranch, EditMain, history, vars

-----------------------------------------------------------------------------

(* The invariant holds in every state.                                     *)
LEMMA Invariance == Spec => []Inv
<1>1. Init => Inv
  <2> SUFFICES ASSUME Init PROVE Inv
    OBVIOUS
  <2>1. Typed
    BY IdleIs, BoundsAssumption DEF Init, Typed, TypeOK, Idle
  <2>2. Passed
    BY IdleIs DEF Init, Passed
  <2>3. BranchesPassedGates /\ OpenHasBranch /\ OpenedIsAnnounced
    BY DEF Init, BranchesPassedGates, OpenHasBranch, OpenedIsAnnounced
  <2>4. QED
    BY <2>1, <2>2, <2>3 DEF Inv
<1>2. Inv /\ [Next]_vars => Inv'
  BY PassedStep, TypeStep, BranchStep, AnnouncedStep DEF Inv, Typed
<1>3. QED
  BY <1>1, <1>2, PTL DEF Spec

(* doer_pipeline.py:12, 390-415, 457-518: in every state what is on GitHub  *)
(* has passed the gates, whatever failed on the way, but for a limit whose  *)
(* headroom could not be had, and an open PR was announced unless its run   *)
(* was killed, its POST raised after GitHub opened it, or its mail failed.  *)
THEOREM OnlySoundIsPublished == Spec => []PublishedSound
<1>1. Inv => PublishedSound
  BY DEF Inv, Typed, PublishedSound
<1>2. QED
  BY <1>1, Invariance, PTL

(* doer_pipeline.py:222-234, 310-314: the guards look at a clone that may   *)
(* be stale, and still no merge of a doer's PR lowers a protected value.    *)
THEOREM MergesRaise == Spec => MergeRaises
<1>1. Inv /\ [Next]_vars =>
        [\A p \in Proposals :
           Protected(p) /\ pr[p] /\ ~pr'[p] => main'[p.target] >= main[p.target]]_vars
  <2> SUFFICES ASSUME Inv, [Next]_vars, NEW p \in Proposals, Protected(p), pr[p], ~pr'[p]
               PROVE  main'[p.target] >= main[p.target]
    OBVIOUS
  <2>a. /\ main \in [Targets -> Values] /\ pr \in [Proposals -> BOOLEAN]
        /\ Values \subseteq Nat /\ p.target \in Targets /\ p.value \in Nat
    BY ProposalIs, BoundsAssumption DEF Inv, Typed, TypeOK
  <2>1. ASSUME NEW q \in Proposals, Merge(q)
        PROVE  main'[p.target] >= main[p.target]
    <3>1. q = p
      BY <2>1, <2>a DEF Merge, Closed
    <3>2. main'[p.target] = p.value /\ main[p.target] \in {branch[p], p.value}
      BY <2>1, <2>a, <3>1 DEF Merge
    <3>3. main[p.target] = branch[p] => p.value > branch[p]
      BY <2>a, AbsentAssumption DEF Inv, BranchesPassedGates
    <3>4. main[p.target] \in Nat
      BY <2>a
    <3>5. QED
      BY <2>a, <3>2, <3>3, <3>4
  <2>2. CASE main' = main
    <3>1. main[p.target] \in Nat
      BY <2>a
    <3>2. QED
      BY <2>2, <3>1
  <2>3. CASE pr' = pr
    BY <2>3
  <2>4. QED
    BY <2>1, <2>2, <2>3
       DEF Next, Pipeline, People, Schedule, AskAgent, Gates, Clone, FindAndApply, CheckExisting,
           Push, OpenPR, Notify, Raise, Kill, Decline, DeleteBranch, EditMain, remote, vars
<1>2. QED
  BY <1>1, Invariance, PTL DEF Spec, MergeRaises

(* doer_pipeline.py:492-499: no run rewrites the branch of an open PR,      *)
(* because a push over a branch that exists is rejected.                    *)
THEOREM ReviewedMerged == Spec => ReviewedIsMerged
<1>1. Inv /\ [Next]_vars =>
        [\A p \in Proposals : pr[p] /\ pr'[p] => branch'[p] = branch[p]]_vars
  <2> SUFFICES ASSUME Inv, [Next]_vars, NEW p \in Proposals, pr[p], pr'[p]
               PROVE  branch'[p] = branch[p]
    OBVIOUS
  <2>a. branch \in [Proposals -> Values \cup {Absent}] /\ pr \in [Proposals -> BOOLEAN]
    BY DEF Inv, Typed, TypeOK
  <2>1. CASE Push
    BY <2>1, <2>a DEF Push, Pushed, Inv, OpenHasBranch
  <2>2. ASSUME NEW q \in Proposals, Closed(q)
        PROVE  branch'[p] = branch[p]
    BY <2>2, <2>a DEF Closed
  <2>3. ASSUME NEW q \in Proposals, DeleteBranch(q)
        PROVE  branch'[p] = branch[p]
    BY <2>3, <2>a DEF DeleteBranch
  <2>4. CASE branch' = branch
    BY <2>4
  <2>5. QED
    BY <2>1, <2>2, <2>3, <2>4
       DEF Next, Pipeline, People, Schedule, AskAgent, Gates, Clone, FindAndApply, CheckExisting,
           OpenPR, Notify, Raise, Kill, Merge, Decline, EditMain, remote, vars
<1>2. QED
  BY <1>1, Invariance, PTL DEF Spec, ReviewedIsMerged

(* doer_pipeline.py:492-493, 501-518: a branch left without a PR stays so,  *)
(* whatever later runs do, until it is deleted.                             *)
THEOREM LeftBlocks == Spec => LeftBranchBlocks
<1>1. Inv /\ [Next]_vars =>
        [\A p \in Proposals : Left(p) => Left(p)' \/ branch'[p] = Absent]_vars
  <2> SUFFICES ASSUME Inv, [Next]_vars, NEW p \in Proposals, Left(p), branch'[p] # Absent
               PROVE  Left(p)'
    OBVIOUS
  <2>a. branch \in [Proposals -> Values \cup {Absent}] /\ pr \in [Proposals -> BOOLEAN]
    BY DEF Inv, Typed, TypeOK
  <2>b. branch[p] # Absent /\ ~pr[p] /\ ~(run.pc = "open" /\ run.p = p)
    BY DEF Left
  <2>1. ASSUME ~pr'[p], ~(run'.pc = "open" /\ run'.p = p)
        PROVE  Left(p)'
    BY <2>1 DEF Left
  <2>2. CASE Push
    <3>1. CASE branch[run.p] = Absent /\ Goto("open")
      <4>1. run'.p # p
        BY <2>b, <3>1, GotoIs DEF Inv, Places
      <4>2. QED
        BY <2>1, <2>2, <2>b, <4>1 DEF Push
    <3>2. CASE Goto("raise")
      BY <2>1, <2>2, <2>b, <3>2, GotoIs DEF Inv, Push, Places
    <3>3. QED
      BY <2>2, <3>1, <3>2 DEF Push
  <2>3. CASE OpenPR
    <3>1. run.p \in Proposals /\ run.p # p
      BY <2>3, <2>b DEF OpenPR, Inv, Passed, Places
    <3>2. ~pr'[p]
      BY <2>3, <2>a, <2>b, <3>1 DEF OpenPR, Opens
    <3>3. run'.pc # "open"
      <4>1. CASE Goto("raise")
        BY <4>1, GotoIs DEF Inv, Places
      <4>2. ASSUME NEW w \in {"notify", "raise"}, run' = [run EXCEPT !.pc = w, !.opened = TRUE]
            PROVE  run'.pc # "open"
        BY <4>2 DEF Inv, Typed, Run
      <4>3. QED
        BY <2>3, <4>1, <4>2 DEF OpenPR
    <3>4. QED
      BY <2>1, <3>2, <3>3
  <2>4. ASSUME run'.pc # "open", pr' = pr
        PROVE  Left(p)'
    BY <2>1, <2>4, <2>b
  <2>5. ASSUME NEW w \in Places \ {"open"}, Goto(w), pr' = pr
        PROVE  Left(p)'
    BY <2>4, <2>5, GotoIs DEF Inv
  <2>6. CASE Silent /\ pr' = pr
    BY <2>4, <2>6, IdleIs DEF Silent
  <2>7. CASE Schedule
    BY <2>4, <2>7 DEF Schedule, Idle, remote
  <2>8. CASE AskAgent
    <3>1. ASSUME NEW q \in Proposals, run' = [run EXCEPT !.pc = "gates", !.p = q]
          PROVE  run'.pc # "open"
      BY <3>1 DEF Inv, Typed, Run
    <3>2. QED
      BY <2>4, <2>6, <2>8, <3>1 DEF AskAgent, remote
  <2>9. CASE Gates \/ FindAndApply \/ CheckExisting
    <3>1. ASSUME NEW b, run' = [run EXCEPT !.pc = "clone", !.blind = b]
          PROVE  run'.pc # "open"
      BY <3>1 DEF Inv, Typed, Run
    <3>2. CASE Gates
      BY <2>4, <2>6, <3>1, <3>2 DEF Gates, remote
    <3>3. QED
      BY <2>5, <2>6, <2>9, <3>2 DEF FindAndApply, CheckExisting, remote, Places
  <2>10. CASE Clone
    <3>1. CASE run' = [run EXCEPT !.pc = "apply", !.base = main[run.p.target], !.cloned = TRUE]
      <4>1. run'.pc = "apply"
        BY <3>1 DEF Inv, Typed, Run
      <4>2. QED
        BY <2>4, <2>10, <4>1 DEF Clone, remote
    <3>2. QED
      BY <2>5, <2>10, <3>1 DEF Clone, remote, Places
  <2>11. CASE Notify
    BY <2>6, <2>11 DEF Notify, remote
  <2>12. CASE Raise \/ Kill
    <3>1. run.cloned \in BOOLEAN /\ (run.cloned \/ run.pc = "clone") \in BOOLEAN
      BY DEF Inv, Typed, TypeOK
    <3>2. CASE \E c \in BOOLEAN : NextAttempt(c) /\ pr' = pr
      BY <2>4, <3>2, NextAttemptIs DEF Inv
    <3>3. QED
      BY <2>6, <2>12, <3>1, <3>2 DEF Raise, Kill, remote
  <2>13. ASSUME UNCHANGED run, ~pr'[p]
         PROVE  Left(p)'
    BY <2>1, <2>13, <2>b
  <2>14. CASE People
    BY <2>13, <2>14, <2>a, <2>b DEF People, EditMain, Merge, Decline, Closed, DeleteBranch
  <2>15. CASE UNCHANGED vars
    BY <2>13, <2>15, <2>b DEF vars
  <2>16. QED
    BY <2>2, <2>3, <2>7, <2>8, <2>9, <2>10, <2>11, <2>12, <2>14, <2>15 DEF Next, Pipeline
<1>2. QED
  BY <1>1, Invariance, PTL DEF Spec, LeftBranchBlocks
=============================================================================
