---------------------------- MODULE DoerPipeline ----------------------------
(***************************************************************************)
(* doer_pipeline: a CronJob asks an agent for one change of configuration, *)
(* gates it, edits a fresh clone of the repository, pushes a branch named  *)
(* after the change and opens a pull request.  People merge, decline and   *)
(* edit meanwhile.  Every remote call may fail before or after its effect, *)
(* and the pod may be killed between any two of them.                      *)
(***************************************************************************)
EXTENDS Naturals

CONSTANTS
    Proposals,       \* what agents propose: [action, target, value, wellFormed]
    AllowedActions,  \* ALLOWED_ACTIONS
    Targets, Values, \* the fields proposals name, and their values in order
    Present,         \* targets with exactly one field to edit in the repository
    NodeMax,         \* allocatable of the largest node, in the unit of Values
    Headroom,        \* what the cluster's pods leave unrequested, in the same unit
    HasToken,        \* GITHUB_PR_TOKEN is set
    Attempts,        \* backoffLimit + 1
    Starts,          \* what main may hold at first
    Edited,          \* the targets people edit on main
    MaxRuns,         \* bound on the scheduled runs
    MaxEdits         \* bound on the edits people make to main

ASSUME BoundsAssumption ==
    /\ Values \subseteq Nat /\ {NodeMax, Headroom, MaxRuns, MaxEdits} \subseteq Nat
    /\ Attempts \in Nat \ {0} /\ Present \subseteq Targets
    /\ Starts \subseteq [Targets -> Values] /\ Edited \subseteq Targets

\* extract_proposal yields the fields of the schema; which names and values
\* they hold is for validate and the edits to judge.
ASSUME ProposalsAssumption ==
    Proposals \subseteq
        [action : STRING, target : Targets, value : Values, wellFormed : BOOLEAN]

Absent == 0
ASSUME AbsentAssumption == Absent \notin Values

VARIABLES
    main,    \* the value of each target on main
    branch,  \* per proposal: the value its remote branch was cut from, or Absent
    pr,      \* per proposal: whether a PR of its branch is open
    run,     \* the Job: pc, attempt, the proposal p, the clone's value, opened, whether
             \* its pod's /tmp holds a clone, and whether the headroom was not known
    runs, edits,
    told,    \* history: open PRs the mail of the run that opened them spoke of
    unheard, \* history: PRs whose run was killed, or whose POST or mail failed
    blind    \* history: branches with a limit that was not compared with the headroom

vars == <<main, branch, pr, run, runs, edits, told, unheard, blind>>
remote == <<main, branch, pr, edits, blind>>
history == <<told, unheard>>

NoProposal == [action |-> "none", target |-> "none", value |-> Absent, wellFormed |-> FALSE]

Idle == [pc |-> "idle", attempt |-> 0, p |-> NoProposal, base |-> Absent, opened |-> FALSE,
         cloned |-> FALSE, blind |-> FALSE]

Init ==
    /\ main \in Starts
    /\ branch = [p \in Proposals |-> Absent]
    /\ pr = [p \in Proposals |-> FALSE]
    /\ run = Idle /\ runs = 0 /\ edits = 0
    /\ told = {} /\ unheard = {} /\ blind = {}

-----------------------------------------------------------------------------

Goto(where) == run' = [run EXCEPT !.pc = where]

\* main returned: the Job is complete, whether or not anything was done.
Silent == run' = Idle

\* The CronJob starts its Job; Forbid keeps it alone.
Schedule ==
    /\ run.pc = "idle" /\ runs < MaxRuns
    /\ run' = [Idle EXCEPT !.pc = "ask", !.attempt = 1]
    /\ runs' = runs + 1
    /\ UNCHANGED <<remote, history>>

\* ask_agent and extract_proposal: a proposal, or nothing to parse (no fix, a
\* backend down through the requeue window, prose).
AskAgent ==
    /\ run.pc = "ask"
    /\ \/ Silent
       \/ \E p \in Proposals : run' = [run EXCEPT !.pc = "gates", !.p = p]
    /\ UNCHANGED <<remote, runs, history>>

\* validate: the action and path allowlists and the form of the value.
Validate(p) == p.action \in AllowedActions /\ p.wellFormed

\* Mutant: an unreachable Prometheus allows the limit.
CapacityFailOpen(p, node, free) ==
    p.action = "set_limit" =>
        /\ node # Absent => 10 * p.value <= 9 * node
        /\ free # Absent => p.value <= free

\* _capacity_check: refused when the largest node is not known; the headroom
\* is compared only when its query succeeds.
Capacity(p, node, free) ==
    p.action = "set_limit" =>
        /\ node # Absent /\ 10 * p.value <= 9 * node
        /\ free # Absent => p.value <= free

\* main's gates before the clone, each a silent return.
Gates ==
    /\ run.pc = "gates"
    /\ \E node \in {NodeMax, Absent}, free \in {Headroom, Absent} :
         IF Validate(run.p) /\ Capacity(run.p, node, free) /\ HasToken
           THEN run' = [run EXCEPT !.pc = "clone", !.blind = run.p.action = "set_limit" /\ free = Absent]
           ELSE Silent
    /\ UNCHANGED <<remote, runs, history>>

\* git clone --depth 1 takes main as it is, or raises: always when an earlier
\* container of the pod has left a clone in /tmp, which outlives it.
Clone ==
    /\ run.pc = "clone"
    /\ \/ /\ ~run.cloned
          /\ run' = [run EXCEPT !.pc = "apply", !.base = main[run.p.target], !.cloned = TRUE]
       \/ Goto("raise")
    /\ UNCHANGED <<remote, runs, history>>

\* Mutant: the guard of the retention lets a decrease through.
RefusedLimitOnly(p, cur) == p.action = "set_limit" /\ p.value < cur

\* _guard_retain_increase_only and the comparison of _apply_limit raise.
Refused(p, cur) ==
    \/ p.action = "set_retain" /\ p.value <= cur
    \/ p.action = "set_limit" /\ p.value < cur

\* find_and_apply and the action's edit of the target's field: nothing to do
\* when the field is not there, not unique or already right.
Edit(p, cur) ==
    IF p.target \notin Present THEN "noop"
    ELSE IF Refused(p, cur) THEN "raise"
    ELSE IF p.value = cur THEN "noop" ELSE "edit"

FindAndApply ==
    /\ run.pc = "apply"
    /\ LET e == Edit(run.p, run.base) IN
         \/ e = "noop" /\ Silent
         \/ e = "raise" /\ Goto("raise")
         \/ e = "edit" /\ Goto("existing")
    /\ UNCHANGED <<remote, runs, history>>

\* The branch of the run's change, cut from what it cloned.
Pushed ==
    /\ branch' = [branch EXCEPT ![run.p] = run.base]
    /\ blind' = IF run.blind THEN blind \cup {run.p} ELSE blind \ {run.p}

\* Mutant: the branch of a PR already open is cut anew from main.
CheckExistingRefresh ==
    /\ run.pc = "existing"
    /\ Pushed
    /\ IF pr[run.p] THEN Silent ELSE Goto("open")
    /\ UNCHANGED <<main, pr, edits, runs, history>>

\* GET of the open PRs of the branch: there is one, none, or the call raises.
CheckExisting ==
    /\ run.pc = "existing"
    /\ \/ pr[run.p] /\ Silent
       \/ ~pr[run.p] /\ Goto("push")
       \/ Goto("raise")
    /\ UNCHANGED <<remote, runs, history>>

\* Mutant: the push is forced.
PushForced ==
    /\ run.pc = "push"
    /\ Pushed /\ Goto("open")
    /\ UNCHANGED <<main, pr, edits, runs, history>>

\* Commit and git push: a branch that exists has another history, so the push
\* is rejected; a push that fails may have taken effect.
Push ==
    /\ run.pc = "push"
    /\ \/ /\ branch[run.p] = Absent
          /\ Pushed
          /\ Goto("open") \/ Goto("raise")
       \/ Goto("raise") /\ UNCHANGED <<branch, blind>>
    /\ UNCHANGED <<main, pr, edits, runs, history>>

\* GitHub takes a PR for a branch that is still there.
Openable(p) == branch[p] # Absent

Opens ==
    /\ pr' = [pr EXCEPT ![run.p] = TRUE]
    /\ told' = told \ {run.p} /\ unheard' = unheard \ {run.p}

\* POST of the PR: opened; opened though the response is lost; or refused.
OpenPR ==
    /\ run.pc = "open"
    /\ \/ /\ Openable(run.p) /\ Opens
          /\ run' = [run EXCEPT !.pc = "notify", !.opened = TRUE]
       \/ /\ Openable(run.p) /\ Opens
          /\ run' = [run EXCEPT !.pc = "raise", !.opened = TRUE]
       \/ Goto("raise") /\ UNCHANGED <<pr, history>>
    /\ UNCHANGED <<main, branch, edits, runs, blind>>

\* The run ends without a word of the PR it may have opened.
Unannounced ==
    /\ unheard' = IF run.opened THEN unheard \cup {run.p} ELSE unheard
    /\ UNCHANGED told

\* The mail of an opened PR, and main returns; notify never raises, and a failed
\* send leaves the news untold.
Notify ==
    /\ run.pc = "notify"
    /\ \/ told' = told \cup {run.p} /\ UNCHANGED unheard
       \/ Unannounced
    /\ Silent
    /\ UNCHANGED <<remote, runs>>

\* The Job makes another attempt after a failure, or fails.
NextAttempt(cloned) ==
    run' = IF run.attempt < Attempts
             THEN [Idle EXCEPT !.pc = "ask", !.attempt = run.attempt + 1, !.cloned = cloned]
             ELSE Idle

\* The except clauses: the FAILED mail, which gives the exception and not the PR,
\* and exit 1; the container restarts in its pod.
Raise ==
    /\ run.pc = "raise"
    /\ Unannounced /\ NextAttempt(run.cloned)
    /\ UNCHANGED <<remote, runs>>

\* The container is killed and restarted in its pod, with what the clone left
\* in /tmp; or the pod is evicted and a new one starts with an empty /tmp; or
\* activeDeadlineSeconds ends the Job.
Kill ==
    /\ run.pc # "idle"
    /\ \/ \E cloned \in {run.cloned, run.cloned \/ run.pc = "clone", FALSE} : NextAttempt(cloned)
       \/ Silent
    /\ Unannounced
    /\ UNCHANGED <<remote, runs>>

\* A closed PR's branch is deleted or left behind.
Closed(p) ==
    /\ pr[p]
    /\ pr' = [pr EXCEPT ![p] = FALSE]
    /\ told' = told \ {p} /\ unheard' = unheard \ {p}
    /\ branch' \in {branch, [branch EXCEPT ![p] = Absent]}

\* Robert merges: git applies the line's change when main still has the line
\* the branch was cut from.
Merge(p) ==
    /\ Closed(p)
    /\ main[p.target] \in {branch[p], p.value}
    /\ main' = [main EXCEPT ![p.target] = p.value]
    /\ UNCHANGED <<run, runs, edits, blind>>

Decline(p) == Closed(p) /\ UNCHANGED <<main, run, runs, edits, blind>>

DeleteBranch(p) ==
    /\ branch[p] # Absent /\ ~pr[p]
    /\ branch' = [branch EXCEPT ![p] = Absent]
    /\ UNCHANGED <<main, pr, run, runs, edits, history, blind>>

EditMain ==
    /\ edits < MaxEdits
    /\ \E t \in Edited, v \in Values : main' = [main EXCEPT ![t] = v]
    /\ edits' = edits + 1
    /\ UNCHANGED <<branch, pr, run, runs, history, blind>>

Pipeline ==
    \/ Schedule \/ AskAgent \/ Gates \/ Clone \/ FindAndApply \/ CheckExisting
    \/ Push \/ OpenPR \/ Notify \/ Raise

People == EditMain \/ \E p \in Proposals : Merge(p) \/ Decline(p) \/ DeleteBranch(p)

Next == Pipeline \/ Kill \/ People

Spec == Init /\ [][Next]_vars

-----------------------------------------------------------------------------

\* The values the state can take.
TypeOK ==
    /\ main \in [Targets -> Values]
    /\ branch \in [Proposals -> Values \cup {Absent}]
    /\ pr \in [Proposals -> BOOLEAN]
    /\ run.p \in Proposals \cup {NoProposal} /\ {run.opened, run.cloned, run.blind} \subseteq BOOLEAN
    /\ run.attempt \in 0..Attempts /\ run.base \in Values \cup {Absent}
    /\ runs \in 0..MaxRuns /\ edits \in 0..MaxEdits
    /\ told \subseteq Proposals /\ unheard \subseteq Proposals /\ blind \subseteq Proposals

Protected(p) == p.action \in {"set_retain", "set_limit"}

\* What the gates stop does not reach GitHub, whatever failed on the way: a
\* branch is of an allowed, well-formed change to one field of the repository, a
\* limit in it fits the largest node, and a protected value is above the one it
\* was cut from (doer_pipeline.py:390-415, 457-487).  A limit also fits the free
\* headroom, unless the query for it failed: such a limit goes through, against
\* "FAIL-CLOSED: if capacity can't be verified, refuse" (doer_pipeline.py:393).
BranchesPassedGates ==
    \A p \in Proposals : branch[p] # Absent =>
        /\ Validate(p) /\ p.target \in Present
        /\ p.action = "set_limit" =>
              10 * p.value <= 9 * NodeMax /\ (p \in blind \/ p.value <= Headroom)
        /\ Protected(p) => p.value > branch[p]

\* "never a bad merge": the increase-only guards look at a clone, and people
\* edit main before they merge; still the merge of a doer's PR never lowers a
\* retention or a limit (doer_pipeline.py:222-234, 310-314).
MergeRaises ==
    [][\A p \in Proposals :
         Protected(p) /\ pr[p] /\ ~pr'[p] => main'[p.target] >= main[p.target]]_vars

\* What Robert reviews is what he merges: no run rewrites the branch of an open
\* PR, though later runs propose the same change again (doer_pipeline.py:492-499).
ReviewedIsMerged ==
    [][\A p \in Proposals : pr[p] /\ pr'[p] => branch'[p] = branch[p]]_vars

\* "a PR-opened or a hard failure emails Robert" (doer_pipeline.py:12): since a
\* later run is silent about a PR already open, the run that opened it is the
\* only one to tell.  It does, unless it was killed, the mail failed, or the POST
\* raised after GitHub had opened the PR: the FAILED mail of that run names no PR,
\* so of such a one nobody is ever told.
OpenedIsAnnounced ==
    \A p \in Proposals : pr[p] =>
        p \in told \cup unheard \/ (run.opened /\ run.p = p)

\* In every state of GitHub and the runs: what is there passed the gates, and an
\* open PR was announced unless its run could not.
PublishedSound == TypeOK /\ BranchesPassedGates /\ OpenedIsAnnounced

\* A branch without an open PR that no run is about to open.
Left(p) == branch[p] # Absent /\ ~pr[p] /\ ~(run.pc = "open" /\ run.p = p)

\* A branch is named after its change and never pushed over.  So once a run
\* failed between the push and the PR, or people closed the PR and kept its
\* branch, no later run opens a PR for the same change, whatever it retries:
\* each ends in a FAILED mail until someone deletes the branch
\* (doer_pipeline.py:492-493, 501-518).
LeftBranchBlocks ==
    [][\A p \in Proposals : Left(p) => Left(p)' \/ branch'[p] = Absent]_vars
=============================================================================
