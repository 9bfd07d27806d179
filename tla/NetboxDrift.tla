---------------------------- MODULE NetboxDrift ----------------------------
(***************************************************************************)
(* network-drift: the daily sweep that compares the live network with      *)
(* NetBox and emails new drift only.  A run reads Omada, then NetBox, then *)
(* the config repository and the cluster, each at its own moment; it       *)
(* compares what it read, subtracts the acknowledged and the already seen  *)
(* fingerprints, emails the rest and saves the new baseline.  Reads and    *)
(* emails may fail, and the job may die at any step.                       *)
(***************************************************************************)
EXTENDS Naturals, FiniteSets

CONSTANTS
    Items,       \* what a feed can report and NetBox can record, in NetBox's order
    OmadaFeeds,  \* the feed read before NetBox
    GithubFeeds, \* files read after NetBox over one connection: dhcpd, DNS zones
    ClusterFeeds,\* lists read last: nodes, load balancers, address pools
    NetboxPage,  \* the limit of netbox_get_all
    DigestCap,   \* items a digest has room for: DIGEST_ITEM_CAP and 3500 characters
    Ackable,     \* fingerprints that may be put on the ack list
    MaxOutages,  \* bound on failed reads
    MaxCrashes   \* bound on runs that die, a failed email included

Feeds == OmadaFeeds \cup GithubFeeds \cup ClusterFeeds
Sources == Feeds \cup {"netbox", "github"}

\* A fingerprint is the category and key of a drift.
Missing(f, i) == <<f, i>>
Unreadable(s) == <<s, 0>>
Fingerprints == (Feeds \X Items) \cup {Unreadable(s) : s \in Sources}

ASSUME FeedsAssumption == {"netbox", "github"} \cap Feeds = {}
ASSUME ItemsAssumption == Items \subseteq Nat \ {0} /\ IsFiniteSet(Items)
ASSUME AckableAssumption == Ackable \subseteq Fingerprints
ASSUME BoundsAssumption == MaxOutages \in Nat /\ MaxCrashes \in Nat
ASSUME PageAssumption == NetboxPage \in Nat \ {0} /\ DigestCap \in Nat \ {0}

VARIABLES
    live,      \* what each feed would report now
    record,    \* what NetBox records now
    acked,     \* acked.txt
    seen,      \* seen.json
    run,       \* the sweep in progress
    mailed,    \* history: the fingerprints ever emailed
    cut,       \* history: the fingerprints a digest had no room for, until emailed
    told,      \* history: drift emailed since it last began
    repeated,  \* history: drift emailed again although it had never gone away
    outages,   \* failed reads so far
    crashes    \* dead runs so far

world == <<live, record, acked>>
history == <<mailed, cut, told, repeated>>
vars == <<world, seen, run, history, outages, crashes>>

IdleRun ==
    [pc |-> "idle", todo |-> {}, got |-> [f \in Feeds |-> {}], rec |-> {},
     offset |-> 0, failed |-> {}, active |-> {}, new |-> {}, kept |-> {}]

\* A drift of the network itself: reported by the feed, not recorded.
Real(f, i) == i \in live[f] /\ i \notin record

RealDrift == {p \in Feeds \X Items : Real(p[1], p[2])}

Init ==
    /\ live \in [Feeds -> SUBSET Items]
    /\ record \in SUBSET Items
    /\ acked = {}
    /\ seen = {}
    /\ run = IdleRun
    /\ mailed = {} /\ cut = {} /\ told = {} /\ repeated = {}
    /\ outages = 0
    /\ crashes = 0

-----------------------------------------------------------------------------
(* The network, the NetBox editor and the ack list.                        *)

\* Drift that has just ended is news when it begins again.
ForgetEnded == told' = told \ ((Feeds \X Items) \ RealDrift')

FeedChanges(f, i) ==
    /\ live' = [live EXCEPT ![f] = (@ \cup {i}) \ (@ \cap {i})]
    /\ UNCHANGED record
    /\ ForgetEnded
    /\ UNCHANGED <<acked, seen, run, mailed, cut, repeated, outages, crashes>>

RecordChanges(i) ==
    /\ record' = (record \cup {i}) \ (record \cap {i})
    /\ UNCHANGED live
    /\ run' = [run EXCEPT !.kept = @ \cap record']
    /\ ForgetEnded
    /\ UNCHANGED <<acked, seen, mailed, cut, repeated, outages, crashes>>

AckChanges(p) ==
    /\ acked' = (acked \cup {p}) \ (acked \cap {p})
    /\ told' = told \ {p}
    /\ UNCHANGED <<live, record, seen, run, mailed, cut, repeated, outages, crashes>>

-----------------------------------------------------------------------------
(* compute_drifts.                                                         *)

Start ==
    /\ run.pc = "idle"
    /\ run' = [IdleRun EXCEPT !.pc = "omada", !.todo = OmadaFeeds, !.kept = record]
    /\ UNCHANGED <<world, seen, history, outages, crashes>>

\* A successful read ends the outage of its source.
ReadOk(s) == told' = told \ {Unreadable(s)}

ReadFeed(f) ==
    /\ f \in run.todo
    /\ run' = [run EXCEPT !.got[f] = live[f], !.todo = @ \ {f}]
    /\ ReadOk(f)
    /\ UNCHANGED <<world, seen, mailed, cut, repeated, outages, crashes>>

Outage ==
    /\ outages < MaxOutages
    /\ outages' = outages + 1

\* A feed that cannot be read contributes nothing and is itself a finding.
ReadFeedFails(f) ==
    /\ f \in run.todo
    /\ Outage
    /\ run' = [run EXCEPT !.failed = @ \cup {f}, !.todo = @ \ {f}]
    /\ UNCHANGED <<world, seen, history, crashes>>

\* The position of i in the listing of the items S.
Rank(S, i) == Cardinality({k \in S : k <= i})

\* The page of S at an offset.
PageAt(S, offset) == {i \in S : Rank(S, i) > offset /\ Rank(S, i) <= offset + NetboxPage}

\* netbox_get_all reads the record a page at a time, by offset, while it has a
\* next page.
ReadNetbox ==
    /\ run.pc = "omada" /\ run.todo = {}
    /\ LET page == PageAt(record, run.offset)
           next == run.offset + NetboxPage
           more == page # {} /\ Cardinality(record) > next
       IN  /\ run' = IF more
                      THEN [run EXCEPT !.rec = @ \cup page, !.offset = next]
                      ELSE [run EXCEPT !.rec = @ \cup page, !.pc = "connect"]
           /\ IF more THEN UNCHANGED told ELSE ReadOk("netbox")
    /\ UNCHANGED <<world, seen, mailed, cut, repeated, outages, crashes>>

\* Without NetBox the other feeds are not read at all.
ReadNetboxFails ==
    /\ run.pc = "omada" /\ run.todo = {}
    /\ Outage
    /\ run' = [run EXCEPT !.failed = @ \cup {"netbox"}, !.pc = "cluster"]
    /\ UNCHANGED <<world, seen, history, crashes>>

\* gh_sources.run connects once for its files ...
ConnectGithub ==
    /\ run.pc = "connect"
    /\ run' = [run EXCEPT !.pc = "github", !.todo = GithubFeeds]
    /\ ReadOk("github")
    /\ UNCHANGED <<world, seen, mailed, cut, repeated, outages, crashes>>

\* ... and without the connection reads none of them.
ConnectGithubFails ==
    /\ run.pc = "connect"
    /\ Outage
    /\ run' = [run EXCEPT !.failed = @ \cup {"github"}, !.pc = "github"]
    /\ UNCHANGED <<world, seen, history, crashes>>

\* k8s_api.run follows.
EnterCluster ==
    /\ run.pc = "github" /\ run.todo = {}
    /\ run' = [run EXCEPT !.pc = "cluster", !.todo = ClusterFeeds]
    /\ UNCHANGED <<world, seen, history, outages, crashes>>

\* The comparators: what a feed showed and NetBox did not.
Compared == {p \in Feeds \X Items : p[2] \in run.got[p[1]] \ run.rec}

\* One finding for every source that could not be read.
SourceFindings == {Unreadable(s) : s \in run.failed}

\* Mutant: the comparators run although NetBox could not be read.
DriftsUnguarded == Compared \cup SourceFindings

\* A feed that was not read showed nothing; without NetBox nothing is compared.
Drifts == (IF "netbox" \in run.failed THEN {} ELSE Compared) \cup SourceFindings

-----------------------------------------------------------------------------
(* main.                                                                   *)

\* An email is sent only when there is something new; the baseline is saved
\* either way.
AfterGate(new) == IF new = {} THEN "save" ELSE "notify"

\* load_acked, load_seen, and the lists of active and new drift.
Gate ==
    /\ run.pc = "cluster" /\ run.todo = {}
    /\ LET active == Drifts \ acked
           new == active \ seen
       IN  run' = [run EXCEPT !.active = active, !.new = new,
                              !.pc = AfterGate(new)]
    /\ UNCHANGED <<world, seen, history, outages, crashes>>

\* build_digest: what is new, or as much of it as the digest has room for; the
\* rest is a number at its end and a line of the log.  Which drifts come first
\* by category and key is left open.
Digests(new) ==
    IF Cardinality(new) <= DigestCap THEN {new}
    ELSE {S \in SUBSET new : Cardinality(S) = DigestCap}

\* notify: the digest is sent.
Notify ==
    /\ run.pc = "notify"
    /\ run' = [run EXCEPT !.pc = "save"]
    /\ \E shown \in Digests(run.new) :
         /\ mailed' = mailed \cup shown
         /\ cut' = (cut \cup run.new) \ shown
         /\ repeated' = repeated \cup (shown \cap told)
         /\ told' = told \cup (shown \cap (RealDrift \cup {Unreadable(s) : s \in Sources}))
    /\ UNCHANGED <<world, seen, outages, crashes>>

\* Mutant: a failed email does not stop the run.
NotifyFailsSilently ==
    /\ run.pc = "notify"
    /\ crashes < MaxCrashes
    /\ crashes' = crashes + 1
    /\ run' = [run EXCEPT !.pc = "save"]
    /\ UNCHANGED <<world, seen, history, outages>>

\* notify raises: the job fails before it saves anything.
NotifyFails ==
    /\ run.pc = "notify"
    /\ crashes < MaxCrashes
    /\ crashes' = crashes + 1
    /\ run' = IdleRun
    /\ UNCHANGED <<world, seen, history, outages>>

\* Mutant: the baseline accumulates the new drift only.
NextSeenNewOnly == run.new

\* save_seen(active_fps): what is no longer active is dropped.
NextSeen == run.active

SaveSeen ==
    /\ run.pc = "save"
    /\ seen' = NextSeen
    /\ run' = IdleRun
    /\ UNCHANGED <<world, history, outages, crashes>>

\* The pod is killed between two steps; seen.json is replaced atomically.
Crash ==
    /\ run.pc # "idle"
    /\ crashes < MaxCrashes
    /\ crashes' = crashes + 1
    /\ run' = IdleRun
    /\ UNCHANGED <<world, seen, history, outages>>

SweepStep ==
    \/ Start
    \/ \E f \in Feeds : ReadFeed(f)
    \/ ReadNetbox \/ ConnectGithub \/ EnterCluster
    \/ Gate \/ Notify \/ SaveSeen

Next ==
    \/ \E f \in Feeds, i \in Items : FeedChanges(f, i)
    \/ \E i \in Items : RecordChanges(i)
    \/ \E p \in Ackable : AckChanges(p)
    \/ SweepStep
    \/ \E f \in Feeds : ReadFeedFails(f)
    \/ ReadNetboxFails \/ ConnectGithubFails \/ NotifyFails \/ Crash

Spec == Init /\ [][Next]_vars

\* The CronJob starts a run every day and a run that does not fail goes on.
FairSpec == Spec /\ WF_vars(SweepStep)

-----------------------------------------------------------------------------

\* The values the state can take: a sweep is at one of main's steps, and what it
\* gates, emails and saves are fingerprints.
TypeOK ==
    /\ live \in [Feeds -> SUBSET Items]
    /\ record \subseteq Items
    /\ acked \subseteq Fingerprints /\ seen \subseteq Fingerprints
    /\ mailed \subseteq Fingerprints /\ cut \subseteq Fingerprints
    /\ told \subseteq Fingerprints /\ repeated \subseteq Fingerprints
    /\ outages \in 0..MaxOutages /\ crashes \in 0..MaxCrashes
    /\ run \in [pc : {"idle", "omada", "connect", "github", "cluster", "notify", "save"},
                todo : SUBSET Feeds, got : [Feeds -> SUBSET Items],
                rec : SUBSET Items, offset : Nat, failed : SUBSET Sources,
                active : SUBSET Fingerprints, new : SUBSET Fingerprints,
                kept : SUBSET Items]

\* "A crash never advances the baseline": a fingerprint is in seen.json only if
\* it has been emailed or a digest that was sent had no room for it, so no
\* failed email or killed run silences a drift.  The drifts beyond the room of
\* their digest are silenced although nobody was told which they are.
SeenWasMailed == seen \subseteq mailed \cup cut

\* "A half-read sweep never emits phantom missing-in-NetBox items": a run never
\* reports an item that NetBox recorded from the run's start to its end.
NoPhantom ==
    \A f \in Feeds, i \in run.kept :
        Missing(f, i) \notin run.new

\* "A drift that is already known stays SILENT on later runs": no drift is
\* emailed twice without having gone away in between, as long as every read
\* succeeded and no run died between its email and save_seen.
SilentWhileHealthy == outages = 0 /\ crashes = 0 => repeated = {}

\* Every drift that persists and is not acknowledged is emailed at some time, or
\* counted by a digest that had no room for it: from then on it is silent.
DriftIsMailed ==
    \A f \in Feeds, i \in Items :
        Real(f, i) ~> \/ Missing(f, i) \in mailed \cup cut \cup acked
                      \/ ~Real(f, i)
=============================================================================
