------------------------ MODULE NetworkDriftProofs -------------------------
(***************************************************************************)
(* Theorems about network-drift.  NetboxDrift, for any feeds, items and    *)
(* ack list and any number of failed reads, failed emails and killed runs; *)
(* then NetboxWriteback, for any network, any number of invocations of the *)
(* CLI beside the nightly job and any failures.                            *)
(***************************************************************************)
EXTENDS NetboxDrift, NetboxWriteback, FiniteSetTheorems, FunctionTheorems, TLAPS

(* Whatever a run has read, the comparators return category and key pairs. *)
LEMMA DriftsAreFingerprints == TypeOK => Drifts \subseteq Fingerprints
  BY DEF TypeOK, Drifts, Compared, SourceFindings, Fingerprints

(* The type invariant is inductive: at every step of a sweep the feeds     *)
(* still to read, the lists of drift and seen.json are of their kind.      *)
THEOREM TypeCorrect == Spec => []TypeOK
<1>1. Init => TypeOK
  BY BoundsAssumption DEF Init, TypeOK, IdleRun
<1>2. TypeOK /\ [Next]_vars => TypeOK'
  <2> SUFFICES ASSUME TypeOK, [Next]_vars
               PROVE  TypeOK'
    OBVIOUS
  <2> USE AckableAssumption, BoundsAssumption, PageAssumption DEF TypeOK
  <2>1. ASSUME NEW f \in Feeds, NEW i \in Items, FeedChanges(f, i)
        PROVE  TypeOK'
    BY <2>1 DEF FeedChanges, ForgetEnded
  <2>2. ASSUME NEW i \in Items, RecordChanges(i)
        PROVE  TypeOK'
    BY <2>2 DEF RecordChanges, ForgetEnded
  <2>3. ASSUME NEW p \in Ackable, AckChanges(p)
        PROVE  TypeOK'
    BY <2>3 DEF AckChanges
  <2>4. CASE Start
    BY <2>4 DEF Start, IdleRun, Feeds, world, history
  <2>5. ASSUME NEW f \in Feeds, ReadFeed(f)
        PROVE  TypeOK'
    BY <2>5 DEF ReadFeed, ReadOk, world
  <2>6. CASE ReadNetbox
    <3>1. PageAt(record, run.offset) \subseteq Items
      BY DEF PageAt
    <3>2. run.offset + NetboxPage \in Nat
      OBVIOUS
    <3>3. QED
      BY <2>6, <3>1, <3>2 DEF ReadNetbox, ReadOk, world
  <2>7. CASE Gate
    BY <2>7, DriftsAreFingerprints DEF Gate, AfterGate, world, history
  <2>8. CASE Notify
    BY <2>8 DEF Notify, Digests, world
  <2>9. CASE SaveSeen
    BY <2>9 DEF SaveSeen, NextSeen, IdleRun, world, history
  <2>10. ASSUME NEW f \in Feeds, ReadFeedFails(f)
        PROVE  TypeOK'
    <3>1. outages' \in 0..MaxOutages
      BY <2>10 DEF ReadFeedFails, Outage
    <3>2. run.failed \cup {f} \subseteq Sources
      BY DEF Sources
    <3>3. QED
      BY <2>10, <3>1, <3>2 DEF ReadFeedFails, world, history
  <2>11. CASE ReadNetboxFails
    <3>1. outages' \in 0..MaxOutages
      BY <2>11 DEF ReadNetboxFails, Outage
    <3>2. run.failed \cup {"netbox"} \subseteq Sources
      BY DEF Sources
    <3>3. QED
      BY <2>11, <3>1, <3>2 DEF ReadNetboxFails, world, history
  <2>12. CASE ConnectGithub
    BY <2>12 DEF ConnectGithub, ReadOk, Feeds, world
  <2>13. CASE EnterCluster
    BY <2>13 DEF EnterCluster, Feeds, world, history
  <2>14. CASE ConnectGithubFails
    <3>1. outages' \in 0..MaxOutages
      BY <2>14 DEF ConnectGithubFails, Outage
    <3>2. run.failed \cup {"github"} \subseteq Sources
      BY DEF Sources
    <3>3. QED
      BY <2>14, <3>1, <3>2 DEF ConnectGithubFails, world, history
  <2>15. CASE NotifyFails
    BY <2>15 DEF NotifyFails, IdleRun, world, history
  <2>16. CASE Crash
    BY <2>16 DEF Crash, IdleRun, world, history
  <2>17. CASE UNCHANGED vars
    BY <2>17 DEF vars, world, history
  <2>18. QED
    BY <2>1, <2>2, <2>3, <2>4, <2>5, <2>6, <2>7, <2>8, <2>9, <2>10, <2>11,
       <2>12, <2>13, <2>14, <2>15, <2>16, <2>17 DEF Next, SweepStep
<1>3. QED
  BY <1>1, <1>2, PTL DEF Spec

-----------------------------------------------------------------------------

\* What main knows of the drift it is about to save: what is not new was in
\* the baseline it loaded, and what is new has been emailed or had no room in the
\* digest that was sent.
Baseline ==
    /\ run.pc \in {"notify", "save"} => run.active \subseteq run.new \cup seen
    /\ run.pc = "save" => run.new \subseteq mailed \cup cut

(* notify runs before save_seen and raises out of main, so seen.json never *)
(* holds a drift no digest was sent for, whatever fails or is killed: each *)
(* one was emailed, or it was among the cut of a digest without room for   *)
(* it (DIGEST_ITEM_CAP), of which the email gives the number only.         *)
THEOREM SeenIsMailed == Spec => []SeenWasMailed
<1>1. Init => SeenWasMailed /\ Baseline
  BY DEF Init, SeenWasMailed, Baseline, IdleRun
<1>2. /\ TypeOK /\ SeenWasMailed /\ Baseline
      /\ [Next]_vars
      => SeenWasMailed' /\ Baseline'
  <2> SUFFICES ASSUME TypeOK, SeenWasMailed, Baseline, [Next]_vars
               PROVE  SeenWasMailed' /\ Baseline'
    OBVIOUS
  <2> USE DEF TypeOK, SeenWasMailed, Baseline
  <2>1. ASSUME NEW f \in Feeds, NEW i \in Items, FeedChanges(f, i)
        PROVE  SeenWasMailed' /\ Baseline'
    BY <2>1 DEF FeedChanges, ForgetEnded
  <2>2. ASSUME NEW i \in Items, RecordChanges(i)
        PROVE  SeenWasMailed' /\ Baseline'
    BY <2>2 DEF RecordChanges, ForgetEnded
  <2>3. ASSUME NEW p \in Ackable, AckChanges(p)
        PROVE  SeenWasMailed' /\ Baseline'
    BY <2>3 DEF AckChanges
  <2>4. CASE Start
    BY <2>4 DEF Start, IdleRun, world, history
  <2>5. ASSUME NEW f \in Feeds, ReadFeed(f)
        PROVE  SeenWasMailed' /\ Baseline'
    BY <2>5 DEF ReadFeed, ReadOk, world
  <2>6. CASE ReadNetbox
    BY <2>6 DEF ReadNetbox, ReadOk, world
  <2>7. CASE Gate
    BY <2>7 DEF Gate, AfterGate, world, history
  <2>8. CASE Notify
    BY <2>8 DEF Notify, Digests, world
  <2>9. CASE SaveSeen
    BY <2>9 DEF SaveSeen, NextSeen, IdleRun, world, history
  <2>10. ASSUME NEW f \in Feeds, ReadFeedFails(f)
        PROVE  SeenWasMailed' /\ Baseline'
    BY <2>10 DEF ReadFeedFails, Outage, world, history
  <2>11. CASE ReadNetboxFails
    BY <2>11 DEF ReadNetboxFails, Outage, world, history
  <2>12. CASE ConnectGithub
    BY <2>12 DEF ConnectGithub, ReadOk, world
  <2>13. CASE EnterCluster
    BY <2>13 DEF EnterCluster, world, history
  <2>14. CASE ConnectGithubFails
    BY <2>14 DEF ConnectGithubFails, Outage, world, history
  <2>15. CASE NotifyFails
    BY <2>15 DEF NotifyFails, IdleRun, world, history
  <2>16. CASE Crash
    BY <2>16 DEF Crash, IdleRun, world, history
  <2>17. CASE UNCHANGED vars
    BY <2>17 DEF vars, world, history
  <2>18. QED
    BY <2>1, <2>2, <2>3, <2>4, <2>5, <2>6, <2>7, <2>8, <2>9, <2>10, <2>11,
       <2>12, <2>13, <2>14, <2>15, <2>16, <2>17 DEF Next, SweepStep
<1>3. QED
  BY <1>1, <1>2, TypeCorrect, PTL DEF Spec

-----------------------------------------------------------------------------

\* An item NetBox has recorded since the run began is recorded now, and in
\* the copy of NetBox the run compares with, if it has read one.
Recorded ==
    /\ run.kept \subseteq record
    /\ run.pc \in {"connect", "github", "cluster"} =>
           "netbox" \in run.failed \/ run.kept \subseteq run.rec
    /\ run.pc = "omada" => run.offset = 0
    /\ run.pc \notin {"notify", "save"} => run.new = {}

(* A record that fits in one page of netbox_get_all is that page, and has  *)
(* no next one.                                                            *)
LEMMA OnePage ==
    ASSUME Cardinality(Items) <= NetboxPage, NEW S \in SUBSET Items
    PROVE  PageAt(S, 0) = S /\ ~(Cardinality(S) > 0 + NetboxPage)
<1>1. /\ IsFiniteSet(S) /\ Cardinality(S) <= Cardinality(Items)
      /\ Cardinality(S) \in Nat /\ Cardinality(Items) \in Nat
  BY ItemsAssumption, FS_Subset, FS_CardinalityType
<1>2. ASSUME NEW i \in S
      PROVE  Rank(S, i) > 0 /\ Rank(S, i) <= 0 + NetboxPage
  <2> DEFINE T == {k \in S : k <= i}
  <2>1. /\ IsFiniteSet(T) /\ Cardinality(T) <= Cardinality(S)
        /\ Cardinality(T) \in Nat
    BY <1>1, FS_Subset, FS_CardinalityType
  <2>2. T # {}
    BY ItemsAssumption
  <2>3. Cardinality(T) # 0
    BY <2>1, <2>2, FS_EmptySet
  <2>4. QED
    BY <1>1, <2>1, <2>3, PageAssumption DEF Rank
<1>3. QED
  BY <1>1, <1>2, PageAssumption DEF PageAt

(* The comparators run only when NetBox was read, so no interleaving of    *)
(* failed reads with changes of the network reports as missing an item     *)
(* that NetBox recorded all along, if NetBox answers in a single page.     *)
THEOREM NothingPhantom ==
    Cardinality(Items) <= NetboxPage => (Spec => []NoPhantom)
<1> SUFFICES ASSUME Cardinality(Items) <= NetboxPage
             PROVE  Spec => []NoPhantom
  OBVIOUS
<1>1. Init => NoPhantom /\ Recorded
  BY DEF Init, NoPhantom, Recorded, IdleRun
<1>2. /\ TypeOK /\ NoPhantom /\ Recorded
      /\ [Next]_vars
      => NoPhantom' /\ Recorded'
  <2> SUFFICES ASSUME TypeOK, NoPhantom, Recorded, [Next]_vars
               PROVE  NoPhantom' /\ Recorded'
    OBVIOUS
  <2> USE FeedsAssumption, ItemsAssumption
      DEF TypeOK, NoPhantom, Recorded, Missing, Unreadable
  <2>1. ASSUME NEW f \in Feeds, NEW i \in Items, FeedChanges(f, i)
        PROVE  NoPhantom' /\ Recorded'
    BY <2>1 DEF FeedChanges, ForgetEnded
  <2>2. ASSUME NEW i \in Items, RecordChanges(i)
        PROVE  NoPhantom' /\ Recorded'
    BY <2>2 DEF RecordChanges, ForgetEnded
  <2>3. ASSUME NEW p \in Ackable, AckChanges(p)
        PROVE  NoPhantom' /\ Recorded'
    BY <2>3 DEF AckChanges
  <2>4. CASE Start
    BY <2>4 DEF Start, IdleRun, world, history
  <2>5. ASSUME NEW f \in Feeds, ReadFeed(f)
        PROVE  NoPhantom' /\ Recorded'
    BY <2>5 DEF ReadFeed, ReadOk, world
  <2>6. CASE ReadNetbox
    <3>1. PageAt(record, run.offset) = record
      BY <2>6, OnePage DEF ReadNetbox
    <3>2. ~(Cardinality(record) > run.offset + NetboxPage)
      BY <2>6, OnePage DEF ReadNetbox
    <3>3. QED
      BY <2>6, <3>1, <3>2 DEF ReadNetbox, world
  <2>7. CASE Gate
    BY <2>7 DEF Gate, AfterGate, Drifts, Compared, SourceFindings, world, history
  <2>8. CASE Notify
    BY <2>8 DEF Notify, Digests, world
  <2>9. CASE SaveSeen
    BY <2>9 DEF SaveSeen, NextSeen, IdleRun, world, history
  <2>10. ASSUME NEW f \in Feeds, ReadFeedFails(f)
        PROVE  NoPhantom' /\ Recorded'
    BY <2>10 DEF ReadFeedFails, Outage, world, history
  <2>11. CASE ReadNetboxFails
    BY <2>11 DEF ReadNetboxFails, Outage, world, history
  <2>12. CASE ConnectGithub
    BY <2>12 DEF ConnectGithub, ReadOk, world
  <2>13. CASE EnterCluster
    BY <2>13 DEF EnterCluster, world, history
  <2>14. CASE ConnectGithubFails
    BY <2>14 DEF ConnectGithubFails, Outage, world, history
  <2>15. CASE NotifyFails
    BY <2>15 DEF NotifyFails, IdleRun, world, history
  <2>16. CASE Crash
    BY <2>16 DEF Crash, IdleRun, world, history
  <2>17. CASE UNCHANGED vars
    BY <2>17 DEF vars, world, history
  <2>18. QED
    BY <2>1, <2>2, <2>3, <2>4, <2>5, <2>6, <2>7, <2>8, <2>9, <2>10, <2>11,
       <2>12, <2>13, <2>14, <2>15, <2>16, <2>17 DEF Next, SweepStep
<1>3. QED
  BY <1>1, <1>2, TypeCorrect, PTL DEF Spec

-----------------------------------------------------------------------------

\* No read has failed and no run has died.
Healthy == outages = 0 /\ crashes = 0

\* The feeds that the run in progress has read for good.
FeedsRead ==
    CASE run.pc = "omada" -> OmadaFeeds \ run.todo
      [] run.pc = "connect" -> OmadaFeeds
      [] run.pc = "github" -> OmadaFeeds \cup (GithubFeeds \ run.todo)
      [] run.pc = "cluster" -> OmadaFeeds \cup GithubFeeds \cup (ClusterFeeds \ run.todo)
      [] OTHER -> {}

\* A drift that was told and has lasted is in what the run has read of it.
InSight ==
    run.pc \in {"omada", "connect", "github", "cluster"} =>
        \A p \in told :
            /\ p[2] \notin run.rec
            /\ p[1] \in FeedsRead => p[2] \in run.got[p[1]]

\* A drift that was told and is not acknowledged is in the baseline, or will be.
Remembered ==
    IF run.pc \in {"notify", "save"} THEN told \ acked \subseteq run.active
                                     ELSE told \ acked \subseteq seen

\* Findings are of the network, and what will be emailed was not told.
Fresh ==
    /\ run.failed = {}
    /\ run.active \subseteq Feeds \X Items /\ run.new \subseteq run.active
    /\ run.pc = "notify" => run.new \cap told = {}

\* What holds while nothing has failed.
Quiet == repeated = {} /\ told \subseteq RealDrift /\ Fresh /\ InSight /\ Remembered

(* The network and NetBox change under a run: drift that ends is           *)
(* forgotten, so what is left has not changed.                             *)
LEMMA WorldKeepsQuiet ==
    ASSUME TypeOK, Quiet, ForgetEnded, UNCHANGED <<acked, seen, repeated>>,
           run' = run \/ \E k \in SUBSET Items : run' = [run EXCEPT !.kept = k]
    PROVE  Quiet'
<1>1. /\ told' \subseteq told
      /\ told' \subseteq RealDrift'
  BY DEF ForgetEnded, Quiet, RealDrift
<1>2. /\ run'.pc = run.pc /\ run'.todo = run.todo /\ run'.got = run.got /\ run'.rec = run.rec
      /\ run'.failed = run.failed /\ run'.active = run.active /\ run'.new = run.new
  BY DEF TypeOK
<1>3. FeedsRead' = FeedsRead
  BY <1>2 DEF FeedsRead
<1>4. Fresh' /\ InSight' /\ Remembered'
  BY <1>1, <1>2, <1>3 DEF Quiet, Fresh, InSight, Remembered
<1>5. QED
  BY <1>1, <1>4 DEF Quiet

(* An outage is told only when a read has failed.                          *)
LEMMA NoOutageTold ==
    ASSUME TypeOK, Quiet, NEW s \in Sources
    PROVE  told \ {Unreadable(s)} = told
BY ItemsAssumption DEF Quiet, RealDrift, Unreadable

(* A drift that was told is found again: by the time the lists are         *)
(* compared every feed and NetBox have been read.                          *)
LEMMA ToldIsFound ==
    ASSUME TypeOK, Quiet, run.pc = "cluster", run.todo = {}
    PROVE  /\ told \subseteq Drifts /\ Drifts \subseteq Feeds \X Items
<1>1. Drifts = Compared
  BY DEF Drifts, Quiet, Fresh, SourceFindings
<1>2. FeedsRead = Feeds
  BY DEF FeedsRead, Feeds
<1>3. ASSUME NEW p \in told
      PROVE  p \in Compared
  <2>1. p \in Feeds \X Items
    BY DEF Quiet, RealDrift
  <2>2. p[2] \notin run.rec /\ p[2] \in run.got[p[1]]
    BY <1>2, <2>1 DEF Quiet, InSight
  <2>3. QED
    BY <2>1, <2>2 DEF Compared
<1>4. QED
  BY <1>1, <1>3 DEF Compared

(* The steps of a sweep that read a source.                                *)
LEMMA ReadingKeepsQuiet ==
    ASSUME TypeOK, Quiet,
           Start \/ (\E f \in Feeds : ReadFeed(f)) \/ ReadNetbox \/ ConnectGithub \/ EnterCluster
    PROVE  Quiet'
<1>a. told \subseteq RealDrift /\ repeated = {} /\ Fresh /\ InSight /\ Remembered
  BY DEF Quiet
<1>b. ASSUME UNCHANGED <<live, record, told, repeated>>, Fresh', InSight', Remembered'
      PROVE  Quiet'
  BY <1>a, <1>b DEF Quiet, RealDrift, Real
<1>1. CASE Start
  <2>1. run'.pc = "omada" /\ run'.todo = OmadaFeeds /\ run'.rec = {} /\ run'.failed = {}
        /\ run'.active = {} /\ run'.new = {}
    BY <1>1 DEF Start, IdleRun
  <2>2. UNCHANGED <<live, record, acked, seen, told, repeated>> /\ run.pc = "idle"
    BY <1>1 DEF Start, world, history
  <2>3. FeedsRead' = {}
    BY <2>1 DEF FeedsRead
  <2>4. QED
    BY <1>a, <1>b, <2>1, <2>2, <2>3 DEF Fresh, InSight, Remembered
<1>2. ASSUME NEW f \in Feeds, ReadFeed(f)
      PROVE  Quiet'
  <2>1. /\ run'.pc = run.pc /\ run'.todo = run.todo \ {f} /\ run'.rec = run.rec
        /\ run'.failed = run.failed /\ run'.active = run.active /\ run'.new = run.new
        /\ run'.got = [run.got EXCEPT ![f] = live[f]]
    BY <1>2 DEF ReadFeed, TypeOK
  <2>2. UNCHANGED <<live, record, acked, seen, told, repeated>>
    BY <1>2, NoOutageTold DEF ReadFeed, ReadOk, world, Sources
  <2>3. FeedsRead' \subseteq FeedsRead \cup {f}
    BY <2>1 DEF FeedsRead
  <2>4. \A p \in told : p \in Feeds \X Items /\ p[2] \in live[p[1]]
    BY <1>a DEF RealDrift, Real
  <2>5. InSight'
    BY <1>a, <2>1, <2>2, <2>3, <2>4 DEF InSight, TypeOK
  <2>6. QED
    BY <1>a, <1>b, <2>1, <2>2, <2>5 DEF Fresh, Remembered
<1>3. CASE ReadNetbox
  <2>1. /\ run'.pc \in {"omada", "connect"} /\ run'.todo = run.todo /\ run'.got = run.got
        /\ run'.failed = run.failed /\ run'.active = run.active /\ run'.new = run.new
        /\ run'.rec = run.rec \cup PageAt(record, run.offset)
    BY <1>3 DEF ReadNetbox, TypeOK
  <2>2. UNCHANGED <<live, record, acked, seen, told, repeated>>
    BY <1>3, NoOutageTold DEF ReadNetbox, ReadOk, world, Sources
  <2>3. run.pc = "omada" /\ run.todo = {} /\ PageAt(record, run.offset) \subseteq record
    BY <1>3 DEF ReadNetbox, PageAt
  <2>4. FeedsRead = OmadaFeeds /\ FeedsRead' = OmadaFeeds
    BY <2>1, <2>3 DEF FeedsRead
  <2>5. \A p \in told : p[2] \notin record
    BY <1>a DEF RealDrift, Real
  <2>6. InSight'
    BY <1>a, <2>1, <2>2, <2>3, <2>4, <2>5 DEF InSight
  <2>7. QED
    BY <1>a, <1>b, <2>1, <2>2, <2>3, <2>6 DEF Fresh, Remembered
<1>4. CASE ConnectGithub \/ EnterCluster
  <2>1. /\ run'.got = run.got /\ run'.rec = run.rec /\ run'.failed = run.failed
        /\ run'.active = run.active /\ run'.new = run.new
        /\ \/ run.pc = "connect" /\ run'.pc = "github" /\ run'.todo = GithubFeeds
           \/ /\ run.pc = "github" /\ run.todo = {}
              /\ run'.pc = "cluster" /\ run'.todo = ClusterFeeds
    BY <1>4 DEF ConnectGithub, EnterCluster, TypeOK
  <2>2. UNCHANGED <<live, record, acked, seen, told, repeated>>
    BY <1>4, NoOutageTold DEF ConnectGithub, EnterCluster, ReadOk, world, history, Sources
  <2>3. FeedsRead' \subseteq FeedsRead
    BY <2>1 DEF FeedsRead
  <2>4. InSight'
    BY <1>a, <2>1, <2>2, <2>3 DEF InSight
  <2>5. QED
    BY <1>a, <1>b, <2>1, <2>2, <2>4 DEF Fresh, Remembered
<1>5. QED
  BY <1>1, <1>2, <1>3, <1>4

(* The steps of main: the gate, the email and the save.                    *)
LEMMA MainKeepsQuiet ==
    ASSUME TypeOK, Quiet, Gate \/ Notify \/ SaveSeen
    PROVE  Quiet'
<1>a. told \subseteq RealDrift /\ repeated = {} /\ Fresh /\ InSight /\ Remembered
  BY DEF Quiet
<1>1. CASE Gate
  <2> DEFINE active == Drifts \ acked
             new == active \ seen
  <2>1. /\ run.pc = "cluster" /\ run.todo = {}
        /\ run'.pc \in {"notify", "save"} /\ run'.active = active /\ run'.new = new
        /\ run'.failed = run.failed
    BY <1>1 DEF Gate, AfterGate, TypeOK
  <2>2. UNCHANGED <<live, record, acked, seen, told, repeated>>
    BY <1>1 DEF Gate, world, history
  <2>3. told \subseteq Drifts /\ Drifts \subseteq Feeds \X Items
    BY <2>1, ToldIsFound
  <2>4. told \ acked \subseteq active /\ new \cap told = {}
    BY <1>a, <2>1, <2>3 DEF Remembered
  <2>5. Fresh' /\ InSight' /\ Remembered'
    BY <1>a, <2>1, <2>2, <2>3, <2>4 DEF Fresh, InSight, Remembered
  <2>6. QED
    BY <1>a, <2>2, <2>5 DEF Quiet, RealDrift, Real
<1>2. CASE Notify
  <2>1. /\ run.pc = "notify" /\ run'.pc = "save" /\ run'.active = run.active
        /\ run'.new = run.new /\ run'.failed = run.failed
    BY <1>2 DEF Notify, TypeOK
  <2>2. UNCHANGED <<live, record, acked, seen>> /\ RealDrift' = RealDrift
    BY <1>2 DEF Notify, world, RealDrift, Real
  <2>3. repeated' = {}
    BY <1>2, <1>a DEF Notify, Digests, Fresh
  <2>4. told' \subseteq RealDrift /\ told' \subseteq told \cup run.active
    <3>1. run.new \cap {Unreadable(s) : s \in Sources} = {}
      BY <1>a, ItemsAssumption DEF Fresh, Unreadable
    <3>2. QED
      BY <1>2, <1>a, <3>1 DEF Notify, Digests, Fresh
  <2>5. Fresh' /\ InSight' /\ Remembered'
    BY <1>a, <2>1, <2>2, <2>4 DEF Fresh, InSight, Remembered
  <2>6. QED
    BY <2>2, <2>3, <2>4, <2>5 DEF Quiet
<1>3. CASE SaveSeen
  <2>1. /\ run.pc = "save" /\ seen' = run.active /\ run'.pc = "idle" /\ run'.failed = {}
        /\ run'.active = {} /\ run'.new = {}
        /\ UNCHANGED <<live, record, acked, told, repeated>>
    BY <1>3 DEF SaveSeen, NextSeen, IdleRun, world, history
  <2>2. Fresh' /\ InSight' /\ Remembered'
    BY <1>a, <2>1 DEF Fresh, InSight, Remembered
  <2>3. QED
    BY <1>a, <2>1, <2>2 DEF Quiet, RealDrift, Real
<1>4. QED
  BY <1>1, <1>2, <1>3

(* While every read succeeds and no run dies, known drift stays silent:    *)
(* none is emailed a second time unless it went away or its acknowledgment *)
(* changed in between, however the network, NetBox and the ack list change *)
(* under the reads of a sweep (netbox_sync.py:491-531).                    *)
THEOREM KnownStaysSilent == Spec => []SilentWhileHealthy
<1>1. Init => (Healthy => Quiet)
  BY DEF Init, Quiet, Fresh, InSight, Remembered, IdleRun
<1>2. TypeOK /\ (Healthy => Quiet) /\ [Next]_vars => (Healthy => Quiet)'
  <2> SUFFICES ASSUME TypeOK, Healthy => Quiet, [Next]_vars, Healthy'
               PROVE  Quiet'
    OBVIOUS
  <2>a. outages \in Nat /\ crashes \in Nat
    BY BoundsAssumption DEF TypeOK
  <2>1. ~(\/ \E f \in Feeds : ReadFeedFails(f)
          \/ ReadNetboxFails \/ ConnectGithubFails \/ NotifyFails \/ Crash)
    <3>1. ~(outages' = outages + 1) /\ ~(crashes' = crashes + 1)
      BY <2>a DEF Healthy
    <3>2. \A f \in Feeds : ~ReadFeedFails(f)
      BY <3>1, Zenon DEF ReadFeedFails, Outage
    <3>3. ~ReadNetboxFails /\ ~ConnectGithubFails /\ ~NotifyFails /\ ~Crash
      BY <3>1, Zenon DEF ReadNetboxFails, ConnectGithubFails, Outage, NotifyFails, Crash
    <3>4. QED
      BY <3>2, <3>3
  <2>2. ASSUME NEW f \in Feeds, NEW i \in Items, FeedChanges(f, i)
        PROVE  Quiet'
    <3>1. Quiet
      BY <2>2 DEF FeedChanges, Healthy
    <3>2. QED
      BY <2>2, <3>1, WorldKeepsQuiet DEF FeedChanges
  <2>3. ASSUME NEW i \in Items, RecordChanges(i)
        PROVE  Quiet'
    <3>1. Quiet
      BY <2>3 DEF RecordChanges, Healthy
    <3>2. \E k \in SUBSET Items : run' = [run EXCEPT !.kept = k]
      <4>1. run.kept \cap record' \in SUBSET Items
        BY DEF TypeOK
      <4>2. QED
        BY <2>3, <4>1 DEF RecordChanges
    <3>3. QED
      BY <2>3, <3>1, <3>2, WorldKeepsQuiet DEF RecordChanges
  <2>4. ASSUME NEW p \in Ackable, AckChanges(p)
        PROVE  Quiet'
    <3>1. Quiet
      BY <2>4 DEF AckChanges, Healthy
    <3>2. /\ told' = told \ {p} /\ acked' = (acked \cup {p}) \ (acked \cap {p})
          /\ UNCHANGED <<live, record, seen, run, repeated>>
      BY <2>4 DEF AckChanges
    <3>3. told' \subseteq told /\ told' \ acked' \subseteq told \ acked
      BY <3>2
    <3>4. FeedsRead' = FeedsRead
      BY <3>2 DEF FeedsRead
    <3>5. QED
      BY <3>1, <3>2, <3>3, <3>4 DEF Quiet, RealDrift, Real, Fresh, InSight, Remembered
  <2>5. CASE SweepStep
    <3>1. Healthy
      BY <2>5 DEF SweepStep, Start, ReadFeed, ReadNetbox, ConnectGithub, EnterCluster, Gate,
         Notify, SaveSeen, Healthy
    <3>2. QED
      BY <2>5, <3>1, ReadingKeepsQuiet, MainKeepsQuiet DEF SweepStep
  <2>6. CASE UNCHANGED vars
    <3>1. FeedsRead' = FeedsRead
      BY <2>6 DEF vars, FeedsRead
    <3>2. QED
      BY <2>6, <3>1 DEF vars, world, history, Healthy, Quiet, RealDrift, Real, Fresh, InSight,
         Remembered
  <2>7. QED
    BY <2>1, <2>2, <2>3, <2>4, <2>5, <2>6 DEF Next
<1>3. (Healthy => Quiet) => SilentWhileHealthy
  BY DEF Healthy, Quiet, SilentWhileHealthy
<1>4. QED
  BY <1>1, <1>2, <1>3, TypeCorrect, PTL DEF Spec

-----------------------------------------------------------------------------
(* The write-back.                                                         *)

(* The values of the nightly job and of a writer's operation in full; the  *)
(* record the job has read is of addresses only.                           *)
AddrObjects == {o \in Objects : o.key \in Addrs}
JobType ==
    [pc : {"idle", "zone", "lb", "tag", "items"}, rec : SUBSET AddrObjects,
     todo : SUBSET Candidates, tagOk : BOOLEAN, balanced : SUBSET Addrs,
     moved : SUBSET Addrs, gone : SUBSET Keys]
OpType ==
    [pc : {"idle", "get", "write", "done"}, target : Targets \cup {NoObject},
     seen : Objects \cup {NoObject}, overtaken : BOOLEAN]
WritebackShapes == job \in JobType /\ op \in [Writers -> OpType]

InHand(w) == op[w].pc \in {"get", "write"}

(* What a look-up found is still of the target's key under its id, unless  *)
(* it has been deleted; ids are not used again.                            *)
FoundIsTarget ==
    \A w \in Writers : op[w].pc = "write" /\ op[w].seen # NoObject =>
        /\ op[w].seen.key = op[w].target.key /\ op[w].seen.id <= lastId
        /\ \A o \in objs : o.id = op[w].seen.id => o.key = op[w].seen.key

(* A look-up that found nothing is still right, unless it was overtaken.   *)
NothingIsThere ==
    \A w \in Writers : op[w].pc = "write" /\ op[w].seen = NoObject =>
        op[w].overtaken \/ Matching(op[w].target) = {}

(* What the nightly job has in hand: an upsert of an unprotected address   *)
(* under the mode it was started with.                                     *)
NightlyInBounds ==
    /\ op[Nightly].pc \in {"idle", "get", "write"}
    /\ InHand(Nightly) =>
         /\ job.pc = "items" /\ op[Nightly].target.verb = "upsert"
         /\ op[Nightly].target.key \in Addrs \ Protected
         /\ op[Nightly].target.apply = (mode = "apply")
    /\ op[Nightly].pc = "write" => mode = "apply"

(* The job's reasons to touch an address: it balances load, or NetBox held *)
(* it when it was read; if it no longer does, it was deleted since.        *)
Grounds == job.balanced \cup job.gone \cup Held(objs)

NightlyHasGrounds ==
    /\ job.pc \in {"zone", "lb"} =>
         job.balanced = {} /\ Held(job.rec) \subseteq Held(objs) \cup job.gone
    /\ \A d \in job.todo : d.key \in Grounds
    /\ InHand(Nightly) => op[Nightly].target.key \in Grounds

(* A name the job would write is the zone's, unless the zone has changed.  *)
Served(k, n) == n # NoName => k \in job.moved \/ n \in zone[k]

NamesAreServed ==
    /\ job.pc = "zone" => job.todo = {}
    /\ \A d \in job.todo : Served(d.key, d.name)
    /\ InHand(Nightly) => Served(op[Nightly].target.key, op[Nightly].target.name)

WritebackInv ==
    /\ WritebackTypeOK /\ WritebackShapes
    /\ FoundIsTarget /\ NothingIsThere /\ NoDuplicates
    /\ NightlyInBounds /\ NightlyHasGrounds /\ NamesAreServed

(* Ids are what objects are told apart by, and no object is NoObject.      *)
LEMMA ObjectsHaveIds == \A o \in Objects : o # NoObject /\ o.id \in Nat /\ o.id > 0
  BY WritebackBoundsAssumption DEF Objects, NoObject

(* The objects of a rebuilt NetBox are numbered from one.                  *)
LEMMA WritebackInitInv == WritebackInit => WritebackInv
<1> SUFFICES ASSUME WritebackInit PROVE WritebackInv
  OBVIOUS
<1>1. PICK w \in Worlds :
        /\ zone = w.zone /\ lb = w.lb
        /\ lastId = Cardinality(w.held)
        /\ LET nth == CHOOSE f \in Bijection(w.held, 1..lastId) : TRUE
           IN  objs = {[id |-> nth[k], key |-> k, mask |-> "net", name |-> NoName] : k \in w.held}
  BY DEF WritebackInit
<1> DEFINE nth == CHOOSE f \in Bijection(w.held, 1..lastId) : TRUE
<1>2. /\ w.zone \in [Addrs -> SUBSET Names] /\ w.lb \subseteq Addrs /\ w.held \subseteq Addrs
      /\ IsFiniteSet(w.held) /\ Cardinality(w.held) <= MaxIds
  BY WorldsAssumption
<1>3. lastId \in Nat /\ ExistsBijection(1..lastId, w.held)
  BY <1>1, <1>2, FS_CardinalityType
<1>4. ExistsBijection(w.held, 1..lastId)
  BY <1>3, Fun_ExistsBijSymmetric
<1>5. \E f : f \in Bijection(w.held, 1..lastId)
  BY <1>4, Fun_ExistsBij
<1>6. nth \in Bijection(w.held, 1..lastId)
  BY <1>5
<1>7. objs = {[id |-> nth[k], key |-> k, mask |-> "net", name |-> NoName] : k \in w.held}
  BY <1>1
<1> HIDE DEF nth
<1>8. nth \in [w.held -> 1..lastId] /\ \A a, b \in w.held : nth[a] = nth[b] => a = b
  BY <1>6 DEF Bijection, Injection, IsInjective
<1>9. objs \subseteq Objects /\ lastId \in 0..MaxIds
  BY <1>1, <1>2, <1>3, <1>8, <1>7, WritebackBoundsAssumption DEF Objects, Masks, Keys
<1>10. /\ \A o \in objs : o.id <= lastId
       /\ \A o, p \in objs : (o.id = p.id \/ o.key = p.key) => o = p
  BY <1>3, <1>8, <1>7
<1>11. op = [v \in Writers |-> IdleOp] /\ job = IdleJob
  BY DEF WritebackInit
<1>12. WritebackShapes
  BY <1>11 DEF WritebackShapes, JobType, OpType, IdleJob, IdleOp
<1>13. WritebackTypeOK
  BY <1>1, <1>2, <1>9, <1>10, <1>11, WritebackBoundsAssumption
  DEF WritebackInit, WritebackTypeOK, IdleJob, IdleOp
<1>14. NoDuplicates
  BY <1>10 DEF NoDuplicates
<1>15. FoundIsTarget /\ NothingIsThere
  BY <1>11 DEF FoundIsTarget, NothingIsThere, IdleOp
<1>16. op[Nightly].pc = "idle" /\ job.pc = "idle" /\ job.todo = {}
  BY <1>11 DEF IdleOp, IdleJob, Writers
<1>17. NightlyInBounds /\ NightlyHasGrounds /\ NamesAreServed
  BY <1>16 DEF NightlyInBounds, NightlyHasGrounds, NamesAreServed, InHand
<1> QED
  BY <1>12, <1>13, <1>14, <1>15, <1>17 DEF WritebackInv

(* An operation in progress is unaffected while NetBox stays as it is.     *)
LEMMA LookUpsStay ==
  ASSUME WritebackInv, UNCHANGED <<objs, lastId, raced>>,
         \A w \in Writers : op'[w].pc = "write" => op'[w] = op[w]
  PROVE  FoundIsTarget' /\ NothingIsThere' /\ NoDuplicates'
<1>1. FoundIsTarget'
  BY DEF WritebackInv, FoundIsTarget
<1>2. NothingIsThere'
  BY DEF WritebackInv, NothingIsThere, Matching
<1>3. NoDuplicates'
  BY DEF WritebackInv, NoDuplicates
<1> QED
  BY <1>1, <1>2, <1>3

(* The zone changes: what the job has read of it may be out of date.       *)
LEMMA ZoneChangesInv ==
  ASSUME WritebackInv, NEW k \in Addrs, NEW names \in SUBSET Names, ZoneChanges(k, names)
  PROVE  WritebackInv'
<1> USE DEF WritebackInv, ZoneChanges, Edit
<1>1. WritebackShapes' /\ job' = [job EXCEPT !.moved = job.moved \cup {k}]
  BY DEF WritebackShapes, JobType
<1>2. /\ job'.moved = job.moved \cup {k}
      /\ job'.pc = job.pc /\ job'.todo = job.todo /\ job'.rec = job.rec
      /\ job'.balanced = job.balanced /\ job'.gone = job.gone
  BY DEF WritebackShapes, JobType
<1>3. WritebackTypeOK'
  BY <1>2, WritebackBoundsAssumption DEF WritebackTypeOK
<1>4. FoundIsTarget' /\ NothingIsThere' /\ NoDuplicates'
  BY LookUpsStay
<1>5. NightlyInBounds' /\ NightlyHasGrounds'
  BY <1>2 DEF NightlyInBounds, NightlyHasGrounds, InHand, Grounds, Held
<1>6. \A a, n : Served(a, n) => Served(a, n)'
  BY <1>2 DEF Served, WritebackTypeOK
<1>7. NamesAreServed'
  BY <1>2, <1>6 DEF NamesAreServed, InHand
<1> QED
  BY <1>1, <1>3, <1>4, <1>5, <1>7

(* The rest of the network.                                                *)
LEMMA NetworkChangesInv ==
  ASSUME WritebackInv,
         \/ \E k \in Addrs : LbChanges(k)
         \/ \E t \in {"present", "creatable", "hidden"} : TagChanges(t)
  PROVE  WritebackInv'
<1> USE DEF WritebackInv
<1>1. /\ lb' \subseteq Addrs /\ tag' \in {"present", "creatable", "hidden"}
      /\ edits' \in 0..MaxEdits
      /\ UNCHANGED <<zone, objs, lastId, mode, job, op, raced, faults>>
  BY WritebackBoundsAssumption DEF LbChanges, TagChanges, Edit, WritebackTypeOK
<1>2. WritebackTypeOK'
  BY <1>1 DEF WritebackTypeOK
<1>3. FoundIsTarget' /\ NothingIsThere' /\ NoDuplicates'
  BY <1>1, LookUpsStay
<1>4. NightlyInBounds' /\ NightlyHasGrounds'
  BY <1>1 DEF NightlyInBounds, NightlyHasGrounds, InHand, Grounds, Held
<1>5. NamesAreServed' /\ WritebackShapes'
  BY <1>1 DEF NamesAreServed, InHand, Served, WritebackShapes
<1> QED
  BY <1>2, <1>3, <1>4, <1>5

(* The job takes a step while it has no operation in hand: what remains to *)
(* be shown of it is that its plans are well founded.                      *)
LEMMA JobStepInv ==
  ASSUME WritebackInv, job' \in JobType,
         UNCHANGED <<zone, lb, objs, lastId, mode, op, raced, edits>>,
         tag' \in {"present", "creatable", "hidden"}, faults' \in 0..MaxFaults,
         op[Nightly].pc = "idle", job'.pc = "zone" => job'.todo = {},
         \A d \in job'.todo : d.key \in Grounds' /\ Served(d.key, d.name)',
         job'.pc \in {"zone", "lb"} =>
            job'.balanced = {} /\ Held(job'.rec) \subseteq Held(objs) \cup job'.gone
  PROVE  WritebackInv'
<1>1. WritebackTypeOK'
  BY DEF WritebackInv, WritebackTypeOK, JobType
<1>2. WritebackShapes'
  BY DEF WritebackInv, WritebackShapes
<1>3. FoundIsTarget' /\ NothingIsThere' /\ NoDuplicates'
  BY LookUpsStay
<1>4. NightlyInBounds'
  BY DEF NightlyInBounds, InHand
<1>5. NightlyHasGrounds'
  BY DEF NightlyHasGrounds, InHand, Held
<1>6. NamesAreServed'
  BY DEF NamesAreServed, InHand
<1> QED
  BY <1>1, <1>2, <1>3, <1>4, <1>5, <1>6 DEF WritebackInv

(* A run starts with what NetBox holds now, and with nothing planned.      *)
LEMMA ReadRecordInv == ASSUME WritebackInv, ReadRecord PROVE WritebackInv'
<1> USE DEF WritebackInv, ReadRecord, network
<1>1. op[Nightly].pc = "idle"
  BY DEF NightlyInBounds, InHand
<1>2. tag' \in {"present", "creatable", "hidden"} /\ faults' \in 0..MaxFaults
  BY DEF WritebackTypeOK
<1>3. CASE job' = job
  <2>1. Grounds' = Grounds /\ \A k, n : Served(k, n)' = Served(k, n)
    BY <1>3 DEF Grounds, Served, Held
  <2>2. job' \in JobType
    BY <1>3 DEF WritebackShapes
  <2> QED
    BY <1>1, <1>2, <1>3, <2>1, <2>2, JobStepInv
       DEF NightlyHasGrounds, NamesAreServed
<1>4. CASE job' = [IdleJob EXCEPT !.pc = "zone", !.rec = {o \in objs : o.key \in Addrs}]
  <2>1. /\ job'.pc = "zone" /\ job'.rec = {o \in objs : o.key \in Addrs}
        /\ job'.todo = {} /\ job'.balanced = {} /\ job'.gone = {}
    BY <1>4 DEF IdleJob
  <2>2. job' \in JobType
    BY <1>4 DEF IdleJob, JobType, AddrObjects, WritebackTypeOK
  <2>3. Held(job'.rec) \subseteq Held(objs)
    BY <2>1 DEF Held
  <2> QED
    BY <1>1, <1>2, <2>1, <2>2, <2>3, JobStepInv
<1> QED
  BY <1>3, <1>4

(* The names of addresses the record holds.                                *)
LEMMA DnsDriftsAreSound ==
  ASSUME WritebackInv, NEW first \in [Held(job.rec) -> job.rec],
         \A k \in DOMAIN first : first[k].key = k
  PROVE  /\ DnsDrifts(first) \subseteq Candidates
         /\ \A d \in DnsDrifts(first) : d.key \in Held(job.rec) /\ d.name \in zone[d.key]
<1>1. /\ job.rec \subseteq AddrObjects
      /\ \A k \in Held(job.rec) : first[k] \in AddrObjects /\ k \in Addrs
  BY DEF WritebackInv, WritebackShapes, JobType, AddrObjects, Held
<1>2. \A k \in Held(job.rec) : first[k].mask \in Masks
  BY <1>1 DEF AddrObjects, Objects
<1>3. ASSUME NEW d \in DnsDrifts(first)
      PROVE  d \in Candidates /\ d.key \in Held(job.rec) /\ d.name \in zone[d.key]
  <2>1. PICK q \in (DOMAIN first) \X Names :
          /\ q[2] \in zone[q[1]]
          /\ d = [cat |-> "dns", key |-> q[1], mask |-> first[q[1]].mask, name |-> q[2]]
    BY DEF DnsDrifts
  <2>2. q[1] \in Held(job.rec) /\ q[2] \in Names
    OBVIOUS
  <2> QED
    BY <1>1, <1>2, <2>1, <2>2 DEF Candidates
<1> QED
  BY <1>3

(* The zone is read: every name planned is one it serves at this moment.   *)
LEMMA ReadZoneInv == ASSUME WritebackInv, ReadZone PROVE WritebackInv'
<1> USE DEF WritebackInv, network
<1>1. PICK first \in [Held(job.rec) -> job.rec] :
        /\ \A k \in DOMAIN first : first[k].key = k
        /\ job' = [job EXCEPT !.pc = "lb", !.todo = DnsDrifts(first), !.moved = {}]
  BY DEF ReadZone
<1>2. /\ UNCHANGED <<zone, lb, objs, lastId, mode, op, raced, edits>>
      /\ tag' \in {"present", "creatable", "hidden"} /\ faults' \in 0..MaxFaults
      /\ op[Nightly].pc = "idle" /\ job.pc = "zone"
  BY DEF ReadZone, WritebackTypeOK, NightlyInBounds, InHand
<1>3. /\ DnsDrifts(first) \subseteq Candidates
      /\ \A d \in DnsDrifts(first) : d.key \in Held(job.rec) /\ d.name \in zone[d.key]
  BY <1>1, DnsDriftsAreSound
<1>4. /\ job' \in JobType
      /\ job'.pc = "lb" /\ job'.todo = DnsDrifts(first) /\ job'.rec = job.rec
      /\ job'.balanced = job.balanced /\ job'.gone = job.gone
  BY <1>1, <1>3 DEF WritebackShapes, JobType
<1>5. job.balanced = {} /\ Held(job.rec) \subseteq Held(objs) \cup job.gone
  BY <1>2 DEF NightlyHasGrounds
<1>6. \A d \in job'.todo : d.key \in Grounds' /\ Served(d.key, d.name)'
  BY <1>2, <1>3, <1>4, <1>5 DEF Grounds, Served, Held
<1> QED
  BY <1>2, <1>4, <1>5, <1>6, JobStepInv

(* The job settles what it will do: what it had found in the zone, and     *)
(* more addresses that balance load if the cluster could be read.          *)
LEMMA SettledInv ==
  ASSUME WritebackInv, job.pc = "lb", NEW new \in SUBSET Candidates, NEW bal \in SUBSET Addrs,
         \A d \in new : d.key \in bal /\ d.name = NoName,
         NEW pc \in {"tag", "items"},
         job' = [job EXCEPT !.todo = Safe(job.todo \cup new), !.balanced = bal, !.rec = {},
                            !.pc = pc],
         UNCHANGED <<zone, lb, objs, lastId, mode, op, raced, edits, tag>>,
         faults' \in 0..MaxFaults
  PROVE  WritebackInv'
<1> USE DEF WritebackInv
<1>1. Safe(job.todo \cup new) \subseteq job.todo \cup new
  BY DEF Safe
<1>2. /\ job' \in JobType /\ job'.pc = pc /\ job'.todo = Safe(job.todo \cup new)
      /\ job'.balanced = bal /\ job'.gone = job.gone /\ job'.moved = job.moved
  BY <1>1 DEF WritebackShapes, JobType
<1>3. \A d \in job.todo : d.key \in Held(objs) \cup job.gone /\ Served(d.key, d.name)
  BY DEF NightlyHasGrounds, Grounds, NamesAreServed
<1>4. \A d \in job'.todo : d.key \in Grounds' /\ Served(d.key, d.name)'
  BY <1>1, <1>2, <1>3 DEF Grounds, Served, Held
<1>5. op[Nightly].pc = "idle" /\ tag' \in {"present", "creatable", "hidden"}
  BY DEF NightlyInBounds, InHand, WritebackTypeOK
<1> QED
  BY <1>2, <1>4, <1>5, JobStepInv

(* The cluster is read: each address planned for it balances load.         *)
LEMMA ReadLbInv == ASSUME WritebackInv, ReadLb PROVE WritebackInv'
<1>1. /\ LbDrifts(job.rec) \subseteq Candidates
      /\ \A d \in LbDrifts(job.rec) : d.key \in lb /\ d.name = NoName
  BY DEF LbDrifts, Candidates, WritebackInv, WritebackTypeOK
<1>2. lb \in SUBSET Addrs /\ faults \in 0..MaxFaults
  BY DEF WritebackInv, WritebackTypeOK
<1> DEFINE pc == IF mode = "apply" THEN "tag" ELSE "items"
<1>3. pc \in {"tag", "items"}
  OBVIOUS
<1>4. job' = [job EXCEPT !.todo = Safe(job.todo \cup LbDrifts(job.rec)), !.balanced = lb,
                         !.rec = {}, !.pc = pc]
  BY DEF ReadLb
<1> HIDE DEF pc
<1> QED
  BY <1>1, <1>2, <1>3, <1>4, SettledInv DEF ReadLb, network

(* A source that cannot be read adds nothing to the plans.                 *)
LEMMA ReadFailsInv == ASSUME WritebackInv, ReadFails PROVE WritebackInv'
<1> USE DEF WritebackInv
<1>1. /\ UNCHANGED <<zone, lb, objs, lastId, mode, op, raced, edits, tag>>
      /\ faults' \in 0..MaxFaults
  BY WritebackBoundsAssumption DEF ReadFails, network, Fault, WritebackTypeOK
<1>2. CASE job.pc = "zone" /\ job' = [job EXCEPT !.pc = "lb"]
  <2>1. /\ job' \in JobType /\ job'.pc = "lb" /\ job'.todo = job.todo /\ job'.rec = job.rec
        /\ job'.balanced = job.balanced /\ job'.gone = job.gone /\ job'.moved = job.moved
    BY <1>2 DEF WritebackShapes, JobType
  <2>2. job'.todo = {}
    BY <1>2, <2>1 DEF NamesAreServed
  <2>3. job.balanced = {} /\ Held(job.rec) \subseteq Held(objs) \cup job.gone
    BY <1>2 DEF NightlyHasGrounds
  <2>4. op[Nightly].pc = "idle" /\ tag' \in {"present", "creatable", "hidden"}
    BY <1>1, <1>2 DEF NightlyInBounds, InHand, WritebackTypeOK
  <2> QED
    BY <1>1, <2>1, <2>2, <2>3, <2>4, JobStepInv
<1>3. CASE job.pc = "lb" /\ job' = [job EXCEPT !.todo = Safe(job.todo), !.rec = {},
                                   !.pc = IF mode = "apply" THEN "tag" ELSE "items"]
  <2> DEFINE pc == IF mode = "apply" THEN "tag" ELSE "items"
  <2>1. pc \in {"tag", "items"}
    OBVIOUS
  <2>2. job.balanced = {} /\ job \in JobType
    BY <1>3 DEF NightlyHasGrounds, WritebackShapes
  <2>3. PICK none : none = {}
    OBVIOUS
  <2>4. job' = [job EXCEPT !.todo = Safe(job.todo \cup none), !.balanced = none, !.rec = {},
                           !.pc = pc]
    BY <1>3, <2>2, <2>3 DEF JobType
  <2>5. /\ none \in SUBSET Candidates /\ none \in SUBSET Addrs
        /\ \A d \in none : d.key \in none /\ d.name = NoName
    BY <2>3
  <2>6. job.pc = "lb"
    BY <1>3
  <2> HIDE DEF pc, WritebackInv
  <2> QED
    BY <1>1, <2>1, <2>4, <2>5, <2>6, SettledInv
<1> QED
  BY <1>2, <1>3 DEF ReadFails

(* The tag is ensured, or not: the plans stay.                             *)
LEMMA EnsureTagInv == ASSUME WritebackInv, EnsureTag PROVE WritebackInv'
<1> USE DEF WritebackInv
<1>1. /\ UNCHANGED <<zone, lb, objs, lastId, mode, op, raced, edits>>
      /\ faults' \in 0..MaxFaults /\ tag' \in {"present", "creatable", "hidden"}
      /\ op[Nightly].pc = "idle"
  BY WritebackBoundsAssumption
     DEF EnsureTag, Fault, WritebackTypeOK, NightlyInBounds, InHand
<1>2. PICK ok \in BOOLEAN : job' = [job EXCEPT !.pc = "items", !.tagOk = ok]
  BY DEF EnsureTag
<1>3. /\ job' \in JobType /\ job'.pc = "items" /\ job'.todo = job.todo
      /\ job'.balanced = job.balanced /\ job'.gone = job.gone /\ job'.moved = job.moved
  BY <1>2 DEF WritebackShapes, JobType
<1>4. \A d \in job'.todo : d.key \in Grounds' /\ Served(d.key, d.name)'
  BY <1>1, <1>3 DEF NightlyHasGrounds, NamesAreServed, Grounds, Served, Held
<1> QED
  BY <1>1, <1>3, <1>4, JobStepInv

(* A run that has ended plans nothing.                                     *)
LEMMA RunEndsInv == ASSUME WritebackInv, RunEnds PROVE WritebackInv'
<1> USE DEF WritebackInv, RunEnds, network
<1>1. job' \in JobType /\ job'.todo = {} /\ job'.pc = "idle"
  BY DEF IdleJob, JobType
<1>2. tag' \in {"present", "creatable", "hidden"} /\ faults' \in 0..MaxFaults
  BY DEF WritebackTypeOK
<1> QED
  BY <1>1, <1>2, JobStepInv

(* What an operation must satisfy by itself to be in progress.             *)
FoundSound(o) ==
    /\ o.pc \in {"get", "write"} => o.target \in Targets
    /\ o.pc = "write" /\ o.seen # NoObject =>
         /\ o.seen.key = o.target.key /\ o.seen.id <= lastId
         /\ \A x \in objs : x.id = o.seen.id => x.key = o.seen.key
    /\ o.pc = "write" /\ o.seen = NoObject => o.overtaken \/ Matching(o.target) = {}

(* A writer takes a step that leaves NetBox alone; the nightly job's may   *)
(* only carry on with its target, or end.                                  *)
LEMMA OpStepInv ==
  ASSUME WritebackInv, NEW w \in Writers, NEW o \in OpType, op' = [op EXCEPT ![w] = o],
         FoundSound(o),
         UNCHANGED <<zone, lb, objs, lastId, tag, mode, job, raced, edits>>,
         faults' \in 0..MaxFaults,
         w = Nightly => \/ o.pc = "idle"
                        \/ /\ InHand(w) /\ o.pc \in {"get", "write"}
                           /\ o.target = op[w].target
                           /\ o.pc = "write" => mode = "apply"
  PROVE  WritebackInv'
<1> USE DEF WritebackInv
<1>1. op \in [Writers -> OpType] /\ op' \in [Writers -> OpType]
  BY DEF WritebackShapes
<1>2. op'[w] = o /\ \A v \in Writers : v # w => op'[v] = op[v]
  BY <1>1
<1>3. WritebackShapes'
  BY <1>1 DEF WritebackShapes
<1>4. WritebackTypeOK'
  BY <1>1, <1>2 DEF WritebackTypeOK, FoundSound, OpType
<1>5. FoundIsTarget'
  BY <1>2 DEF FoundIsTarget, FoundSound
<1>6. NothingIsThere'
  BY <1>2 DEF NothingIsThere, FoundSound, Matching
<1>7. NoDuplicates'
  BY DEF NoDuplicates
<1>8. Nightly \in Writers
  BY DEF Writers
<1>9. NightlyInBounds'
  BY <1>2, <1>8 DEF NightlyInBounds, InHand
<1>10. NightlyHasGrounds'
  BY <1>2, <1>8 DEF NightlyHasGrounds, InHand, Grounds, Held
<1>11. NamesAreServed'
  BY <1>2, <1>8 DEF NamesAreServed, InHand, Served
<1> QED
  BY <1>3, <1>4, <1>5, <1>6, <1>7, <1>9, <1>10, <1>11

(* An operation that has ended claims nothing.                             *)
LEMMA EndedIsSound ==
  \A w \in Writers : /\ Ended(w) \in OpType /\ FoundSound(Ended(w))
                     /\ w = Nightly => Ended(w).pc = "idle"
  BY DEF Ended, IdleOp, OpType, FoundSound

(* A request that never reaches NetBox ends its operation.                 *)
LEMMA RequestFailsInv ==
  ASSUME WritebackInv, NEW w \in Writers, RequestFails(w)
  PROVE  WritebackInv'
<1>1. faults' \in 0..MaxFaults
  BY WritebackBoundsAssumption DEF RequestFails, Fault, WritebackInv, WritebackTypeOK
<1> QED
  BY <1>1, EndedIsSound, OpStepInv DEF RequestFails, network

(* The operator calls the CLI.                                             *)
LEMMA CallInv ==
  ASSUME WritebackInv, NEW c \in Clis, NEW t \in Calls, Call(c, t)
  PROVE  WritebackInv'
<1> DEFINE o == [IdleOp EXCEPT !.pc = "get", !.target = t]
<1>1. t \in Targets /\ c \in Writers /\ c # Nightly
  BY CallsAssumption, WritersAssumption DEF Writers
<1>2. o \in OpType /\ FoundSound(o)
  BY <1>1 DEF IdleOp, OpType, FoundSound
<1>3. op' = [op EXCEPT ![c] = o]
  BY DEF Call
<1>4. faults' \in 0..MaxFaults
  BY DEF Call, WritebackInv, WritebackTypeOK
<1> HIDE DEF o
<1> QED
  BY <1>1, <1>2, <1>3, <1>4, OpStepInv DEF Call, network

(* A look-up: what it finds is the target's, what it misses is not there.  *)
LEMMA GetInv ==
  ASSUME WritebackInv, NEW w \in Writers, Get(w)
  PROVE  WritebackInv'
<1> DEFINE t == op[w].target
<1>1. op[w] \in OpType /\ op[w].pc = "get" /\ t \in Targets /\ faults' \in 0..MaxFaults
  BY DEF Get, WritebackInv, WritebackShapes, WritebackTypeOK
<1>2. UNCHANGED <<zone, lb, objs, lastId, tag, mode, job, raced, edits>>
  BY DEF Get, network
<1>3. \/ op' = [op EXCEPT ![w] = Ended(w)]
      \/ Matching(t) = {} /\ t.apply /\ op' = [op EXCEPT ![w].pc = "write", ![w].seen = NoObject]
      \/ \E x \in Matching(t) : t.apply /\ op' = [op EXCEPT ![w].pc = "write", ![w].seen = x]
  BY DEF Get
<1>4. CASE op' = [op EXCEPT ![w] = Ended(w)]
  BY <1>1, <1>2, <1>4, EndedIsSound, OpStepInv
<1>5. ASSUME t.apply, NEW x, op' = [op EXCEPT ![w].pc = "write", ![w].seen = x],
             \/ x = NoObject /\ Matching(t) = {}
             \/ x \in Matching(t)
      PROVE  WritebackInv'
  <2> DEFINE o == [op[w] EXCEPT !.pc = "write", !.seen = x]
  <2>1. op' = [op EXCEPT ![w] = o]
    BY <1>5 DEF WritebackInv, WritebackShapes
  <2>2. /\ x \in Objects \cup {NoObject}
        /\ x \in Matching(t) => /\ x # NoObject /\ x.key = t.key /\ x.id <= lastId
                                /\ \A y \in objs : y.id = x.id => y = x
    BY <1>5, ObjectsHaveIds DEF Matching, WritebackInv, WritebackTypeOK
  <2>3. /\ o \in OpType /\ o.pc = "write" /\ o.seen = x /\ o.target = t
    BY <1>1, <2>2 DEF OpType
  <2>4. FoundSound(o)
    BY <1>1, <1>5, <2>2, <2>3 DEF FoundSound
  <2>5. w = Nightly => InHand(w) /\ mode = "apply"
    BY <1>1, <1>5 DEF WritebackInv, NightlyInBounds, InHand
  <2> HIDE DEF o
  <2> QED
    BY <1>1, <1>2, <2>1, <2>3, <2>4, <2>5, OpStepInv
<1> QED
  BY <1>3, <1>4, <1>5

(* The job dies: its plans and its operation are gone with it.             *)
LEMMA JobDiesInv == ASSUME WritebackInv, JobDies PROVE WritebackInv'
<1> USE DEF WritebackInv, JobDies, network
<1>1. /\ job' \in JobType /\ job'.pc = "idle" /\ job'.todo = {} /\ faults' \in 0..MaxFaults
  BY WritebackBoundsAssumption DEF IdleJob, JobType, Fault, WritebackTypeOK
<1>2. /\ op' \in [Writers -> OpType] /\ op'[Nightly].pc = "idle"
      /\ \A w \in Writers : op'[w] = op[w] \/ op'[w] = IdleOp
  BY DEF WritebackShapes, Writers, OpType, IdleOp
<1>3. FoundIsTarget' /\ NothingIsThere' /\ NoDuplicates'
  BY <1>2, LookUpsStay DEF IdleOp
<1>4. WritebackTypeOK'
  BY <1>1, <1>2 DEF WritebackTypeOK, IdleOp
<1>5. WritebackShapes'
  BY <1>1, <1>2 DEF WritebackShapes
<1>6. NightlyInBounds' /\ NightlyHasGrounds' /\ NamesAreServed'
  BY <1>1, <1>2 DEF NightlyInBounds, NightlyHasGrounds, NamesAreServed, InHand
<1> QED
  BY <1>3, <1>4, <1>5, <1>6

(* The job takes up an item: the protected ranges are looked at again.     *)
LEMMA ApplyOneInv ==
  ASSUME WritebackInv, NEW d \in job.todo, ApplyOne(d)
  PROVE  WritebackInv'
<1> USE DEF WritebackInv
<1> DEFINE t == [verb |-> "upsert", key |-> d.key, mask |-> d.mask,
                 name |-> d.name, apply |-> mode = "apply", tag |-> TRUE]
           o == [IdleOp EXCEPT !.pc = "get", !.target = t]
<1>1. /\ job.pc = "items" /\ op[Nightly].pc = "idle"
      /\ UNCHANGED <<zone, lb, objs, lastId, tag, mode, raced, edits, faults>>
  BY DEF ApplyOne, network
<1>2. /\ job' \in JobType /\ job'.pc = "items" /\ job'.todo = job.todo \ {d}
      /\ job'.balanced = job.balanced /\ job'.gone = job.gone /\ job'.moved = job.moved
  BY <1>1 DEF ApplyOne, WritebackShapes, JobType
<1>3. /\ Grounds' = Grounds /\ \A k, n : Served(k, n)' = Served(k, n)
      /\ \A e \in job.todo : e.key \in Grounds /\ Served(e.key, e.name)
  BY <1>1, <1>2 DEF Grounds, Served, Held, NightlyHasGrounds, NamesAreServed
<1>4. CASE Excluded(d.key)
  <2>1. op' = op
    BY <1>4 DEF ApplyOne
  <2>2. /\ tag' \in {"present", "creatable", "hidden"} /\ faults' \in 0..MaxFaults
    BY <1>1 DEF WritebackTypeOK
  <2> HIDE DEF WritebackInv
  <2> QED
    BY <1>1, <1>2, <1>3, <2>1, <2>2, JobStepInv
<1>5. CASE ~Excluded(d.key)
  <2>1. d \in Candidates
    BY DEF WritebackTypeOK
  <2>2. d.key \in Addrs \ Protected /\ t \in Targets
    BY <1>5, <2>1 DEF Excluded, Candidates, Targets, Keys
  <2>3. o \in OpType /\ o.pc = "get" /\ o.target = t
    BY <2>2 DEF OpType, IdleOp
  <2>4. op' = [op EXCEPT ![Nightly] = o]
    BY <1>5 DEF ApplyOne
  <2> HIDE DEF o
  <2>5. /\ op' \in [Writers -> OpType] /\ op'[Nightly] = o
        /\ \A w \in Writers : w # Nightly => op'[w] = op[w]
    BY <2>3, <2>4 DEF WritebackShapes, Writers
  <2>6. FoundIsTarget' /\ NothingIsThere' /\ NoDuplicates'
    BY <1>1, <2>3, <2>5, LookUpsStay
  <2> HIDE DEF t
  <2>7. WritebackTypeOK'
    <3>1. \A w \in Writers : /\ op'[w].pc \in {"idle", "get", "write", "done"}
                             /\ op'[w].pc \in {"get", "write"} => op'[w].target \in Targets
                             /\ op'[w].seen # NoObject => op'[w].seen \in Objects
      BY <2>2, <2>3, <2>5 DEF WritebackTypeOK, OpType
    <3>2. job'.pc = "items" /\ job'.todo \subseteq Candidates
      BY <1>2 DEF WritebackTypeOK
    <3> QED
      BY <1>1, <3>1, <3>2 DEF WritebackTypeOK
  <2>8. WritebackShapes'
    BY <1>2, <2>5 DEF WritebackShapes
  <2>9. NightlyInBounds'
    BY <1>1, <1>2, <2>2, <2>3, <2>5 DEF NightlyInBounds, InHand, t
  <2>10. NightlyHasGrounds' /\ NamesAreServed'
    BY <1>2, <1>3, <2>3, <2>5 DEF NightlyHasGrounds, NamesAreServed, InHand, t
  <2> QED
    BY <2>6, <2>7, <2>8, <2>9, <2>10
<1> QED
  BY <1>4, <1>5

(* What a request makes of one object: its id, key and mask stay, and only *)
(* an object of the target is given a name.                                *)
Descends(p, o, t) ==
    /\ p.id = o.id /\ p.key = o.key /\ p.mask = o.mask
    /\ p = o \/ (p.key = t.key /\ p.name = t.name /\ t.name # NoName)

(* The object that a POST makes.                                           *)
Posted(w) ==
    [id |-> lastId + 1, key |-> op[w].target.key, name |-> op[w].target.name,
     mask |-> IF op[w].target.mask = "any" THEN "host" ELSE op[w].target.mask]

(* The three ways in which a request can change NetBox.                    *)
Posts(w) ==
    /\ op[w].seen = NoObject
    /\ objs' = objs \cup {Posted(w)} /\ lastId' = lastId + 1 /\ lastId < MaxIds
    /\ raced' = IF op[w].overtaken THEN raced \cup {op[w].target.key} ELSE raced
Deletes(w) ==
    /\ op[w].seen # NoObject /\ op[w].target.verb = "delete"
    /\ objs' = {o \in objs : o.id # op[w].seen.id}
    /\ lastId' = lastId /\ raced' = raced
Patches(w) ==
    /\ op[w].seen # NoObject /\ op[w].target.verb = "upsert"
    /\ objs' = {IF o.id = op[w].seen.id /\ op[w].target.name # NoName
                THEN [o EXCEPT !.name = op[w].target.name] ELSE o : o \in objs}
    /\ lastId' = lastId /\ raced' = raced

(* A request is refused, or does one of these.                             *)
LEMMA WriteIsOneOfThree ==
  ASSUME WritebackInv, NEW w \in Writers, Write(w)
  PROVE  \/ UNCHANGED <<objs, lastId, raced>>
         \/ Posts(w) \/ Deletes(w) \/ Patches(w)
<1>1. op[w].target \in Targets /\ op[w].target.verb \in {"upsert", "delete"}
  BY DEF Write, WritebackInv, WritebackTypeOK, Targets
<1>2. CASE ~Accepted(w)
  BY <1>2 DEF Write
<1>3. CASE Accepted(w) /\ op[w].seen = NoObject
  <2>1. objs' = objs \cup {Posted(w)}
    BY <1>3 DEF Write, Carried, Posted
  <2> QED
    BY <1>3, <2>1 DEF Write, Posts
<1>4. CASE Accepted(w) /\ op[w].seen # NoObject /\ op[w].target.verb = "delete"
  <2>1. objs' = {o \in objs : o.id # op[w].seen.id}
    BY <1>4 DEF Write, Carried
  <2> QED
    BY <1>4, <2>1 DEF Write, Deletes
<1>5. CASE Accepted(w) /\ op[w].seen # NoObject /\ op[w].target.verb = "upsert"
  <2>1. objs' = Carried(op[w].target, op[w].seen) /\ lastId' = lastId /\ raced' = raced
    BY <1>5 DEF Write
  <2>2. Carried(op[w].target, op[w].seen)
          = {IF o.id = op[w].seen.id /\ op[w].target.name # NoName
             THEN [o EXCEPT !.name = op[w].target.name] ELSE o : o \in objs}
    BY <1>5 DEF Carried
  <2> QED
    BY <1>5, <2>1, <2>2 DEF Patches
<1> QED
  BY <1>1, <1>2, <1>3, <1>4, <1>5

(* Every object after a request is a new one or descends from one before.  *)
LEMMA Ancestry ==
  ASSUME WritebackInv, NEW w \in Writers, Write(w)
  PROVE  /\ \A p \in objs' :
              \/ \E o \in objs : Descends(p, o, op[w].target)
              \/ Posts(w) /\ p = Posted(w)
         /\ \A o \in objs :
              \/ \E p \in objs' : Descends(p, o, op[w].target)
              \/ Deletes(w) /\ o.key = op[w].target.key
         /\ Posts(w) => \A p \in objs' : p.id = lastId + 1 => p = Posted(w)
         /\ ~Posts(w) => lastId' = lastId /\ raced' = raced
<1>1. /\ objs \subseteq Objects /\ lastId \in Nat
      /\ \A o \in objs : o.id <= lastId /\ o.id \in Nat
      /\ \A o, p \in objs : o.id = p.id => o = p
      /\ op[w].pc = "write" /\ op[w].target \in Targets
  BY ObjectsHaveIds, WritebackBoundsAssumption DEF WritebackInv, WritebackTypeOK, Write
<1>2. op[w].seen # NoObject => \A o \in objs : o.id = op[w].seen.id => o.key = op[w].target.key
  BY <1>1 DEF WritebackInv, FoundIsTarget
<1>3. \A o : Descends(o, o, op[w].target)
  BY DEF Descends
<1>4. CASE UNCHANGED <<objs, lastId, raced>>
  <2>1. ~Posts(w)
    BY <1>1, <1>4 DEF Posts
  <2> QED
    BY <1>3, <1>4, <2>1
<1>5. CASE Posts(w)
  <2>1. Posted(w).id = lastId + 1
    BY DEF Posted
  <2> QED
    BY <1>1, <1>3, <1>5, <2>1 DEF Posts
<1>6. CASE Deletes(w)
  BY <1>2, <1>3, <1>6 DEF Deletes, Posts
<1>7. CASE Patches(w)
  <2> DEFINE after(o) == IF o.id = op[w].seen.id /\ op[w].target.name # NoName
                         THEN [o EXCEPT !.name = op[w].target.name] ELSE o
  <2>1. objs' = {after(o) : o \in objs} /\ ~Posts(w)
    BY <1>7 DEF Patches, Posts
  <2>2. ASSUME NEW o \in objs PROVE Descends(after(o), o, op[w].target)
    <3>1. CASE o.id = op[w].seen.id /\ op[w].target.name # NoName
      <4>1. o \in Objects /\ after(o) = [o EXCEPT !.name = op[w].target.name]
        BY <1>1, <3>1
      <4>2. /\ after(o).id = o.id /\ after(o).key = o.key /\ after(o).mask = o.mask
            /\ after(o).name = op[w].target.name
        BY <4>1 DEF Objects
      <4> QED
        BY <1>2, <1>7, <3>1, <4>2 DEF Descends, Patches
    <3>2. CASE ~(o.id = op[w].seen.id /\ op[w].target.name # NoName)
      BY <1>3, <3>2
    <3> QED
      BY <3>1, <3>2
  <2> HIDE DEF after
  <2> QED
    BY <1>7, <2>1, <2>2 DEF Patches
<1> QED
  BY <1>4, <1>5, <1>6, <1>7, WriteIsOneOfThree

(* A request leaves objects with one id each.                              *)
LEMMA ObjectsStay ==
  ASSUME WritebackInv, NEW w \in Writers, Write(w)
  PROVE  /\ objs' \subseteq Objects /\ lastId' \in 0..MaxIds /\ lastId <= lastId'
         /\ \A o \in objs' : o.id <= lastId' /\ \A p \in objs' : o.id = p.id => o = p
<1>1. /\ objs \subseteq Objects /\ lastId \in 0..MaxIds /\ lastId \in Nat /\ MaxIds \in Nat
      /\ \A o \in objs : o.id <= lastId /\ o.id \in Nat
      /\ \A o, p \in objs : o.id = p.id => o = p
      /\ op[w].target \in Targets
  BY ObjectsHaveIds, WritebackBoundsAssumption DEF WritebackInv, WritebackTypeOK, Write
<1>2. CASE UNCHANGED <<objs, lastId, raced>>
  BY <1>1, <1>2
<1>3. CASE Posts(w)
  <2>1. lastId + 1 \in 1..MaxIds
    BY <1>1, <1>3 DEF Posts
  <2>2. Posted(w) \in Objects /\ Posted(w).id = lastId + 1
    BY <1>1, <2>1 DEF Posted, Objects, Targets, Masks
  <2> QED
    BY <1>1, <1>3, <2>1, <2>2 DEF Posts
<1>4. CASE Deletes(w)
  BY <1>1, <1>4 DEF Deletes
<1>5. CASE Patches(w)
  <2> DEFINE after(o) == IF o.id = op[w].seen.id /\ op[w].target.name # NoName
                         THEN [o EXCEPT !.name = op[w].target.name] ELSE o
  <2>1. objs' = {after(o) : o \in objs} /\ lastId' = lastId
    BY <1>5 DEF Patches
  <2>2. \A o \in objs : after(o) \in Objects /\ after(o).id = o.id
    BY <1>1 DEF Objects, Targets
  <2> HIDE DEF after
  <2> QED
    BY <1>1, <2>1, <2>2
<1> QED
  BY <1>2, <1>3, <1>4, <1>5, WriteIsOneOfThree

(* The other writers keep what they had looked up, and are told when the   *)
(* ground under them has changed.                                          *)
LEMMA OthersAreTold ==
  ASSUME WritebackInv, NEW w \in Writers, Write(w)
  PROVE  /\ op' \in [Writers -> OpType] /\ op'[w] = Ended(w)
         /\ \A v \in Writers : v # w =>
              /\ op'[v].pc = op[v].pc /\ op'[v].target = op[v].target
              /\ op'[v].seen = op[v].seen
              /\ op'[v].pc = "write" /\ ~op'[v].overtaken =>
                   ~op[v].overtaken /\ (op[v].target.key # op[w].target.key \/ objs' = objs)
<1>1. \A v \in Writers : op[v] \in OpType
  BY DEF WritebackInv, WritebackShapes
<1>2. op' = [v \in Writers |->
               IF v = w THEN Ended(w)
               ELSE [op[v] EXCEPT !.overtaken = op[v].overtaken
                       \/ (op[v].pc = "write" /\ op[v].target.key = op[w].target.key
                           /\ objs' # objs)]]
  BY DEF Write
<1>3. op'[w] = Ended(w) /\ op'[w] \in OpType
  BY <1>2, EndedIsSound
<1>4. ASSUME NEW v \in Writers, v # w
      PROVE  /\ op'[v] \in OpType
             /\ op'[v].pc = op[v].pc /\ op'[v].target = op[v].target
             /\ op'[v].seen = op[v].seen
             /\ op'[v].pc = "write" /\ ~op'[v].overtaken =>
                  ~op[v].overtaken /\ (op[v].target.key # op[w].target.key \/ objs' = objs)
  BY <1>1, <1>2, <1>4 DEF OpType
<1>5. op' \in [Writers -> OpType]
  BY <1>2, <1>3, <1>4
<1> QED
  BY <1>3, <1>4, <1>5

(* A request is carried out while others are between look-up and write.    *)
LEMMA WriteInv ==
  ASSUME WritebackInv, NEW w \in Writers, Write(w)
  PROVE  WritebackInv'
<1> DEFINE t == op[w].target
<1>1. /\ UNCHANGED <<zone, lb, tag, edits, mode, faults>> /\ op[w].pc = "write"
      /\ job' = [job EXCEPT !.gone = job.gone \cup (Held(objs) \ Held(objs'))]
  BY DEF Write, network
<1>2. /\ objs \subseteq Objects /\ objs' \subseteq Objects
      /\ lastId' \in 0..MaxIds /\ lastId <= lastId' /\ lastId \in Nat
      /\ \A o \in objs' : o.id <= lastId' /\ \A p \in objs' : o.id = p.id => o = p
  BY ObjectsStay, WritebackBoundsAssumption DEF WritebackInv, WritebackTypeOK
<1>3. /\ job' \in JobType /\ job'.gone = job.gone \cup (Held(objs) \ Held(objs'))
      /\ job'.pc = job.pc /\ job'.todo = job.todo /\ job'.rec = job.rec
      /\ job'.balanced = job.balanced /\ job'.moved = job.moved
  <2>1. job \in JobType
    BY DEF WritebackInv, WritebackShapes
  <2>2. Held(objs) \subseteq Keys
    BY <1>2 DEF Held, Objects
  <2>3. job.gone \cup (Held(objs) \ Held(objs')) \in SUBSET Keys
    BY <2>1, <2>2 DEF JobType
  <2> QED
    BY <1>1, <2>1, <2>3 DEF JobType
<1>4. /\ op' \in [Writers -> OpType] /\ op'[w] = Ended(w)
      /\ \A v \in Writers : v # w =>
           /\ op'[v].pc = op[v].pc /\ op'[v].target = op[v].target
           /\ op'[v].seen = op[v].seen
           /\ op'[v].pc = "write" /\ ~op'[v].overtaken =>
                ~op[v].overtaken /\ (op[v].target.key # t.key \/ objs' = objs)
  BY OthersAreTold
<1>5. Ended(w).pc \in {"idle", "done"} /\ (w = Nightly => Ended(w).pc = "idle")
      /\ Ended(w).seen = NoObject
  BY DEF Ended, IdleOp
<1>6. WritebackTypeOK'
  <2>1. \A v \in Writers : /\ op'[v].pc \in {"idle", "get", "write", "done"}
                           /\ op'[v].pc \in {"get", "write"} => op'[v].target \in Targets
                           /\ op'[v].seen # NoObject => op'[v].seen \in Objects
    BY <1>4, <1>5 DEF WritebackInv, WritebackTypeOK
  <2> QED
    BY <1>1, <1>2, <1>3, <2>1 DEF WritebackInv, WritebackTypeOK
<1>7. WritebackShapes'
  BY <1>3, <1>4 DEF WritebackShapes
<1>8. /\ \A p \in objs' : (\E o \in objs : Descends(p, o, t)) \/ (Posts(w) /\ p = Posted(w))
      /\ Posted(w).id = lastId + 1 /\ Posted(w).key = t.key
  BY Ancestry DEF Posted
<1>9. FoundIsTarget'
  <2> SUFFICES ASSUME NEW v \in Writers, op'[v].pc = "write", op'[v].seen # NoObject
               PROVE  /\ op'[v].seen.key = op'[v].target.key /\ op'[v].seen.id <= lastId'
                      /\ \A p \in objs' : p.id = op'[v].seen.id => p.key = op'[v].seen.key
    BY DEF FoundIsTarget
  <2>1. v # w /\ op[v].pc = "write" /\ op'[v].seen = op[v].seen /\ op'[v].target = op[v].target
    BY <1>4, <1>5
  <2>2. /\ op[v].seen.key = op[v].target.key /\ op[v].seen.id <= lastId
        /\ \A o \in objs : o.id = op[v].seen.id => o.key = op[v].seen.key
    BY <2>1 DEF WritebackInv, FoundIsTarget
  <2>3. op[v].seen.id \in Nat
    BY <2>1, ObjectsHaveIds DEF WritebackInv, WritebackTypeOK
  <2>4. ASSUME NEW p \in objs', p.id = op[v].seen.id PROVE p.key = op[v].seen.key
    <3>1. p.id # lastId + 1
      BY <1>2, <2>2, <2>3, <2>4
    <3> QED
      BY <1>8, <2>2, <2>4, <3>1 DEF Descends
  <2> QED
    BY <1>2, <2>1, <2>2, <2>3, <2>4
<1>10. NothingIsThere'
  <2> SUFFICES ASSUME NEW v \in Writers, op'[v].pc = "write", op'[v].seen = NoObject,
                      ~op'[v].overtaken, NEW p \in objs',
                      p.key = op'[v].target.key, op'[v].target.mask \in {"any", p.mask}
               PROVE  FALSE
    BY DEF NothingIsThere, Matching
  <2>1. /\ v # w /\ op[v].pc = "write" /\ op[v].seen = NoObject /\ op'[v].target = op[v].target
        /\ ~op[v].overtaken /\ (op[v].target.key # t.key \/ objs' = objs)
    BY <1>4, <1>5
  <2>2. \A o \in objs : ~(o.key = op[v].target.key /\ op[v].target.mask \in {"any", o.mask})
    BY <2>1 DEF WritebackInv, NothingIsThere, Matching
  <2>3. CASE objs' = objs
    BY <2>1, <2>2, <2>3
  <2>4. CASE op[v].target.key # t.key
    BY <1>8, <2>1, <2>2, <2>4 DEF Descends
  <2> QED
    BY <2>1, <2>3, <2>4
<1>11. NoDuplicates'
  <2> SUFFICES ASSUME NEW p \in objs', NEW q \in objs', p # q, p.key = q.key, p.mask = q.mask
               PROVE  p.key \in raced'
    BY DEF NoDuplicates
  <2>1. raced \subseteq raced'
    BY DEF Write
  <2>2. p.id # q.id
    BY <1>2
  <2>3. CASE \E o, x \in objs : Descends(p, o, t) /\ Descends(q, x, t)
    BY <2>1, <2>2, <2>3 DEF Descends, WritebackInv, NoDuplicates
  <2>4. ASSUME Posts(w), NEW o \in objs, o.key = t.key, o.mask = Posted(w).mask
        PROVE  t.key \in raced'
    <3>1. CASE op[w].overtaken
      BY <2>4, <3>1 DEF Posts
    <3>2. CASE ~op[w].overtaken
      <4>1. Matching(t) = {}
        BY <1>1, <2>4, <3>2 DEF Posts, WritebackInv, NothingIsThere
      <4>2. t.mask \in {"any", o.mask}
        BY <2>4 DEF Posted
      <4> QED
        BY <2>4, <4>1, <4>2 DEF Matching
    <3> QED
      BY <3>1, <3>2
  <2> HIDE DEF t
  <2>5. CASE Posts(w) /\ (p = Posted(w) \/ q = Posted(w))
    BY <1>8, <2>2, <2>4, <2>5 DEF Descends
  <2> QED
    BY <1>8, <2>3, <2>5
<1>12. NightlyInBounds'
  BY <1>1, <1>3, <1>4, <1>5 DEF NightlyInBounds, InHand, WritebackInv, Writers
<1>13. Held(objs) \subseteq Held(objs)' \cup job'.gone /\ Grounds \subseteq Grounds'
  BY <1>3 DEF Grounds, Held
<1>14. NightlyHasGrounds'
  BY <1>3, <1>4, <1>5, <1>13 DEF NightlyHasGrounds, InHand, WritebackInv, Writers, Held
<1>15. NamesAreServed'
  BY <1>1, <1>3, <1>4, <1>5 DEF NamesAreServed, InHand, WritebackInv, Writers, Served
<1> QED
  BY <1>6, <1>7, <1>9, <1>10, <1>11, <1>12, <1>14, <1>15 DEF WritebackInv

(* The nightly job and any number of invocations of the CLI, in any order. *)
LEMMA WritebackNextInv ==
  ASSUME WritebackInv, [WritebackNext]_writebackVars PROVE WritebackInv'
<1>1. CASE UNCHANGED writebackVars
  <2>1. /\ UNCHANGED <<zone, lb, objs, lastId, mode, op, raced, edits, job, tag, faults>>
    BY <1>1 DEF writebackVars
  <2> QED
    BY <2>1 DEF WritebackInv, WritebackTypeOK, WritebackShapes, FoundIsTarget, NothingIsThere,
                NoDuplicates, NightlyInBounds, NightlyHasGrounds, NamesAreServed,
                Matching, InHand, Grounds, Held, Served
<1>2. ASSUME NEW k \in Addrs, NEW names \in SUBSET Names \ {zone[k]}, ZoneChanges(k, names)
      PROVE  WritebackInv'
  BY <1>2, ZoneChangesInv
<1>3. CASE (\E k \in Addrs : LbChanges(k))
           \/ (\E t \in {"present", "creatable", "hidden"} : TagChanges(t))
  BY <1>3, NetworkChangesInv
<1>4. CASE AutoStep
  <2>1. Nightly \in Writers
    BY DEF Writers
  <2> QED
    BY <1>4, <2>1, ReadRecordInv, ReadZoneInv, ReadLbInv, EnsureTagInv, RunEndsInv, ApplyOneInv,
       GetInv, WriteInv DEF AutoStep
<1>5. CASE ReadFails \/ JobDies
  BY <1>5, ReadFailsInv, JobDiesInv
<1>6. ASSUME NEW c \in Clis, (\E t \in Calls : Call(c, t)) \/ Get(c) \/ Write(c)
      PROVE  WritebackInv'
  <2>1. c \in Writers
    BY DEF Writers
  <2> QED
    BY <1>6, <2>1, CallInv, GetInv, WriteInv
<1>7. CASE \E w \in Writers : RequestFails(w)
  BY <1>7, RequestFailsInv
<1> QED
  BY <1>1, <1>2, <1>3, <1>4, <1>5, <1>6, <1>7 DEF WritebackNext

(* The invariant of the write-back, along every behaviour.                 *)
LEMMA WritebackAlways == WritebackSpec => []WritebackInv
  BY WritebackInitInv, WritebackNextInv, PTL DEF WritebackSpec

(* MirrorSound: whatever dies, fails or is done twice, two objects stand   *)
(* for one address and mask only where a writer was overtaken between its  *)
(* look-up and its POST (netbox_writeback.py:142-160).                     *)
THEOREM MirrorStaysSound == WritebackSpec => []MirrorSound
<1>1. WritebackInv => MirrorSound
  BY DEF WritebackInv, MirrorSound
<1> QED
  BY <1>1, WritebackAlways, PTL

(* One request of the nightly job: it is made under apply, is not a        *)
(* DELETE, and is about its target only.                                   *)
LEMMA NightlyWriteKeepsFloor ==
  ASSUME WritebackInv, Write(Nightly), objs' # objs
  PROVE  /\ mode = "apply"
         /\ {o.key : o \in (objs \ objs') \cup (objs' \ objs)} \subseteq Addrs \ Protected
         /\ {o.id : o \in objs} \subseteq {o.id : o \in objs'}
         /\ Held(objs') \ Held(objs) \subseteq job.balanced \cup job.gone
<1> DEFINE t == op[Nightly].target
<1>1. Nightly \in Writers /\ op[Nightly].pc = "write"
  BY DEF Writers, Write
<1>2. /\ mode = "apply" /\ t.verb = "upsert" /\ t.key \in Addrs \ Protected
      /\ t.key \in Grounds
  BY <1>1 DEF WritebackInv, NightlyInBounds, NightlyHasGrounds, InHand
<1>3. ~Deletes(Nightly)
  BY <1>2 DEF Deletes
<1>4. /\ \A p \in objs' : (\E o \in objs : Descends(p, o, t)) \/ p = Posted(Nightly)
      /\ \A o \in objs : \E p \in objs' : Descends(p, o, t)
      /\ Posted(Nightly).key = t.key
  BY <1>1, <1>3, Ancestry DEF Posted
<1>5. {o.id : o \in objs} \subseteq {o.id : o \in objs'}
  BY <1>4 DEF Descends
<1>6. ASSUME NEW o \in objs, o \notin objs' PROVE o.key = t.key
  BY <1>4, <1>6 DEF Descends
<1>7. ASSUME NEW p \in objs', p \notin objs PROVE p.key = t.key
  BY <1>4, <1>7 DEF Descends
<1>8. Held(objs') \ Held(objs) \subseteq job.balanced \cup job.gone
  <2> SUFFICES ASSUME NEW p \in objs', p.key \notin Held(objs)
               PROVE  p.key \in job.balanced \cup job.gone
    BY DEF Held
  <2>1. p.key = t.key
    BY <1>7 DEF Held
  <2> QED
    BY <1>2, <2>1 DEF Grounds
<1> HIDE DEF t
<1> QED
  BY <1>2, <1>5, <1>6, <1>7, <1>8

(* FloorHolds: the nightly job keeps off the recovery path, deletes        *)
(* nothing, changes nothing in a dry run, and makes an object only for a   *)
(* load balancer or for an address it had found in NetBox                  *)
(* (autowrite.py:51-74, 90-108).                                           *)
THEOREM FloorIsKept == WritebackSpec => FloorHolds
<1>1. WritebackInv =>
        [Write(Nightly) /\ objs' # objs =>
           /\ mode = "apply"
           /\ {o.key : o \in (objs \ objs') \cup (objs' \ objs)} \subseteq Addrs \ Protected
           /\ {o.id : o \in objs} \subseteq {o.id : o \in objs'}
           /\ Held(objs') \ Held(objs) \subseteq job.balanced \cup job.gone]_writebackVars
  BY NightlyWriteKeepsFloor
<1> QED
  BY <1>1, WritebackAlways, PTL DEF FloorHolds

(* Two names make a set of more than one.                                  *)
LEMMA TwoNames ==
  ASSUME NEW S \in SUBSET Names, NEW a \in S, NEW b \in S, a # b
  PROVE  Cardinality(S) > 1
<1>1. IsFiniteSet(S) /\ Cardinality(S) \in Nat
  BY NamesAssumption, FS_Subset, FS_CardinalityType
<1>2. Cardinality(S) # 0
  BY <1>1, FS_EmptySet
<1>3. Cardinality(S) # 1
  BY <1>1, FS_Singleton
<1> QED
  BY <1>1, <1>2, <1>3

(* One request of the nightly job: a name it replaces is the zone's, and   *)
(* so was the one it puts there, unless the zone has changed.              *)
LEMMA NightlyWriteIsNoWorse ==
  ASSUME WritebackInv, Write(Nightly), NEW o \in objs, NEW p \in objs', o.id = p.id,
         o.key \in Addrs, o.name \in zone[o.key], p.name # o.name
  PROVE  o.key \in job.moved \/ Cardinality(zone[o.key]) > 1
<1> DEFINE t == op[Nightly].target
<1>1. Nightly \in Writers /\ op[Nightly].pc = "write"
  BY DEF Writers, Write
<1>2. zone[o.key] \in SUBSET Names /\ \A x \in objs : x.id <= lastId /\ x.id \in Nat
  BY ObjectsHaveIds DEF WritebackInv, WritebackTypeOK
<1>3. lastId \in Nat
  BY WritebackBoundsAssumption DEF WritebackInv, WritebackTypeOK
<1>4. p # Posted(Nightly)
  BY <1>2, <1>3 DEF Posted
<1>5. PICK x \in objs : Descends(p, x, t)
  BY <1>1, <1>4, Ancestry
<1>6. x = o
  BY <1>5 DEF Descends, WritebackInv, WritebackTypeOK
<1>7. p.key = o.key /\ p.key = t.key /\ p.name = t.name /\ t.name # NoName
  BY <1>5, <1>6 DEF Descends
<1>8. t.key \in job.moved \/ t.name \in zone[t.key]
  BY <1>1, <1>7 DEF WritebackInv, NamesAreServed, InHand, Served
<1> QED
  BY <1>2, <1>7, <1>8, TwoNames

(* MirrorGetsNoWorse: the job replaces a name that the zone serves only if *)
(* the zone serves two, or has moved since the job read it                 *)
(* (gh_sources.py:163-194, autowrite.py:60-74).                            *)
THEOREM MirrorIsMadeNoWorse == WritebackSpec => MirrorGetsNoWorse
<1>1. WritebackInv =>
        [Write(Nightly) =>
           \A o \in objs, p \in objs' :
              o.id = p.id /\ o.key \in Addrs /\ o.name \in zone[o.key] /\ p.name # o.name =>
                 o.key \in job.moved \/ Cardinality(zone[o.key]) > 1]_writebackVars
  BY NightlyWriteIsNoWorse
<1> QED
  BY <1>1, WritebackAlways, PTL DEF MirrorGetsNoWorse
=============================================================================
