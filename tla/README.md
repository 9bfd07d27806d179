# TLA+ models of the home-ops automation

home-ops is a GitOps repository: most of it is YAML that Flux applies. The
program code it carries is a set of small services and scheduled jobs, Python
and TypeScript, that live next to the manifests that deploy them. They are short,
they are hardly tested, and they are exactly the kind of program in which order
matters: jobs that read several services one after the other, threads that share
a dictionary, baselines saved after emails, deletions that are queued elsewhere.
This directory models the ones that keep state, checks them with TLC on small
instances and proves the most important facts with TLAPS for all instances.

Paths below are relative to `kubernetes/apps/`.

## 1. Inventory

| component | code | state | operations | who it interacts with |
|---|---|---|---|---|
| agent-callback | `ai/agent-callback/app/resources/server.py` | `_USED` (memory), a thread per request | GET and POST `/act` | mail clients, kagent over A2A |
| paperless RAG pipeline | `home/windmill/workflows/paperless-rag-fanout.ts`, `paperless-rag-tombstone.ts`, `lightrag-rag-tombstone.ts` | none of its own: the watermark is `max(last_modified)` in Qdrant | fan-out run, two sweeps | Paperless, Qdrant, LightRAG |
| network-drift detector | `ai/network-drift/app/resources/netbox_sync.py`, `gh_sources.py`, `k8s_api.py` | `seen.json`, `acked.txt` | daily sweep | Omada, NetBox, GitHub, cluster API, SMTP |
| esphome-reconciler | `home/esphome/reconciler/app/resources/esphome_reconcile.py` | a state file of config hashes in the esphome pod | daily run | the esphome pod, the devices, SMTP |
| rick-library-mcp | `media/rick-library-mcp/app/resources/server.py` | the music library, backups, `ledger.jsonl`, a cache of MusicBrainz answers | evaluate, apply, relocate, revert | the rick agent, importers, MusicBrainz |
| local-cron agents | `ai/local-cron/app/resources/` (`a2a_client.py`, `triage_run.py`, `doer_pipeline.py`) | git branches and pull requests; the Job's attempts and clock | triage run, doer pipeline | kagent, GitHub, Prometheus, notify-mcp |
| alert-agent-bridge | `ai/alert-agent-bridge/app/resources/bridge.py` | a semaphore, a thread per alert group | POST of AlertManager groups | AlertManager, Prometheus, kagent, notify-mcp |
| medikeep-ingest | `collab/medikeep-ingest/app/resources/ingest.py` | Medikeep's vitals and treatments | ingest run | two Google sheets, Medikeep |
| network-drift write-back | `ai/network-drift/app/resources/netbox_writeback.py`, `autowrite.py`, `writeback_cli.py` | NetBox objects and the owned tag | nightly autowrite, the operator's CLI | NetBox, the DNS zone, the cluster |
| windmill watchers | `home/windmill/workflows/windmill-failure-watcher.ts`, `workaround-watcher.ts` | Windmill state: last job seen | poll | Windmill, GitHub, SMTP |

The rest (linters, one-shot shell scripts, read-only MCP adapters, relays, beets
scans, the manifests) keeps no state that several steps could disturb; each is
listed in `PROJECT.json` with the reason it is left out.

What is hard, per component, and what makes it correct:

* **agent-callback.** `ThreadingHTTPServer` runs POSTs concurrently over an
  unlocked dictionary; verify and prune read the clock separately; the agent may
  receive an approval whose call timed out; a restart empties the ledger. Correct
  means: a confirmation page tells the truth; nothing is delivered that was not
  verified and consumed; no token is consumed for nothing; a token is delivered
  once; no thread waits for ever.
* **RAG pipeline.** A run is a sequence of calls to three services that change
  under it; LightRAG deletes in the background and ignores deletions while busy;
  runs die anywhere; pages shift. Correct means: below the watermark nothing is
  missing; Qdrant and LightRAG converge to Paperless; sweeps remove all orphans
  and nothing else.
* **network-drift.** Sources are read minutes apart and fail one by one; the
  email and the baseline are two steps. Correct means: nothing is silenced that
  nobody was told of; nothing is reported that is recorded; known drift is
  silent; every lasting drift is reported.
* **esphome-reconciler.** The dashboard's version is that of the last compile, not
  of the device; a timed-out exec goes on in the pod; the cap postpones devices.
  Correct means: a device that is out of date is found by the next run, however
  the runs before it ended; exclusion and dry-run gates hold; the fleet drains.
* **rick-library-mcp.** A tool call is a row of file operations with the ledger
  last, and may raise or be killed at each of them; reverts come in any order and
  repeatedly; every change alters the siblings by which the next album is judged;
  importers fill the places that moves have emptied. Correct means: what was
  delivered is never gone; what was recorded can be undone; a change of the sweep settles
  its album, and the sweep does not go round in circles.
* **alert-agent-bridge.** A thread per group makes a dozen calls that each fail, time
  out or return early, under one bounded semaphore; the agent works on after the
  caller has left. Correct means: permits add up on every path; a storm costs no more
  than the caps; the evidence covers the first distinct pods; every group ends.
* **triage run.** Two retries are nested, one for a backend that is down and one for
  a reply that breaks the contract, inside a budget, a window and the Job's deadline,
  all of wall-clock time. Correct means: only a finding is mailed, and a final one if
  there is time for it; calls keep their share; the retries do not eat each other; a first attempt is never killed.
* **doer pipeline.** Clone, push, PR and mail are separate remote effects, each of
  which may take effect and still fail, and people change the repository in between.
  Correct means: nothing is published that a gate should stop; an open PR was
  announced, if its run could know of it; a merge never lowers what is protected; what was reviewed is what is merged.
* **medikeep-ingest.** List-then-post against a server that may carry out a request
  whose response was lost, from sheets people are typing into while they are read tab by
  tab. Correct means: no row
  twice, one active dose, closed periods stay closed, Medikeep ends up equal to the
  sheets.
* **network-drift write-back.** Two writers look up and then write, on drift that was
  computed minutes before. Correct means: no duplicates but by a race; protected
  ranges are never written; the mirror gets no worse; safe drift is repaired.

## 2. Modules

| module | models | proofs | TLC instance |
|---|---|---|---|
| `AgentCallback` | agent-callback | `AgentCallbackProofs` | `MCAgentCallback` |
| `RagPipeline` | fan-out, both sweeps, and the services as they use them | `RagPipelineProofs` | `MCRagPipeline` |
| `NetboxDrift` | the drift sweep | `NetworkDriftProofs` | `MCNetboxDrift` |
| `EsphomeReconciler` | the reconciler | `EsphomeReconcilerProofs` | `MCEsphomeReconciler` |
| `RickLibrary` | rick-library-mcp, and the agent and importers around it | `RickLibraryProofs` | `MCRickLibrary` |
| `WorkerPool` | abstract: what a bounded pool promises | | through `AlertBridge` |
| `AlertBridge` | alert-agent-bridge; implements `WorkerPool` | `AlertBridgeProofs` | `MCAlertBridge` |
| `A2aClient` | `call_agent`, `is_backend_unavailable`; extended by `TriageRun` | | through `TriageRun` |
| `TriageRun` | the triage CronJob: `triage_run.py` and its Job | `TriageRunProofs` | `MCTriageRun` |
| `DoerPipeline` | the doer CronJobs, GitHub and the people around them | `DoerPipelineProofs` | `MCDoerPipeline` |
| `MedikeepIngest` | medikeep-ingest | TLC only | `MCMedikeepIngest` |
| `NetboxWriteback` | autowrite and writeback_cli on one NetBox | `NetworkDriftProofs` | `MCNetboxWriteback` |

A definition named like *Something-wrong* and commented `Mutant:` is not part of
the specification: it is the plausible bug used to check that a property can fail.

### AgentCallback

`used` is `_USED`, `pc[r]` the line of `do_POST` at which request `r`'s thread is.
A step is what the interpreter can interleave: the listing in `_prune`, each pop,
the test `jti in _USED`, the assignment, sending the A2A message, its return or
exception, each response write, the pop on the failure path. A token stands for
its `jti`; `Genuine` says whether signature, payload and agent name are accepted,
so the HMAC is not modelled. `wire` holds messages the agent has not received;
they survive a restart of the pod. `disturbed` records which of four disturbances
have happened (overlapping POSTs, a failure after the send, a hang-up on the
failure page, a restart); `Disturbances` says which may.

### RagPipeline

A document's version is its `modified` timestamp, 0 for absent. `fan` and
`tomb[s]` hold the local variables of a run, one HTTP call per step; locals that
are not read again are dropped. LightRAG is modelled from how the scripts use it:
deletions are accepted unless the pipeline is busy (and answered 200 either way),
carried out later, insertions are refused while the source is listed. `faults`
counts three kinds of fault: runs that die, failed or late LightRAG calls, a
failed watermark scroll (which the code takes for an empty collection). The Qdrant
sweep lists Paperless without an `ordering`, so a page of its listing shows any
documents of the archive (`LivePages`); `purged` records the documents it took for
orphans although Paperless had them, until they are indexed again. Both sweeps have
one page size here. Abstracted: chunking and embedding (one upsert), the paging of the Qdrant scroll
and of LightRAG's listing (one step each), and equal timestamps (every edit has
its own).

### NetboxDrift

A feed is a list a comparator looks up in NetBox; an item is what it looks up.
`run` holds the locals of `compute_drifts` and `main`: what each feed showed, what
NetBox showed page by page, the sources that failed, the active and new drift. A
fingerprint is the pair of category and key. `told` and `repeated` record which
drift was emailed since it last began and which was emailed again. A digest has room
for `DigestCap` drifts, which stands for `DIGEST_ITEM_CAP` and the cut at 3500 characters;
`cut` records what it had no room for. Abstracted: the parsers, the digest's wording, mismatch findings (same path as missing ones), and the
DNS comparator's extra condition that an address is known.

### EsphomeReconciler

`built[d]` is what a device's config was last compiled to, `firmware[d]` what it
runs, `baseline` the state file. Core drift is seen through `built`, as the
dashboard does; config drift through `baseline`. `Compiled` and `Flashed` may take
effect although the exec was given up on. `mishaps` counts failed calls and kills,
devices that drop off, a state file that is read or left empty (an exec that returns
nothing, or a write that was cut short and does not parse any more), and edits in mid-run;
`Edited` are the devices whose configs change at all;
`dryRuns` counts the runs with DRY_RUN. Hashes are the config revisions.

### RickLibrary

A place is an artist folder with an album directory in it; `lib` says which
recording is behind each file name there and what its `album_artist` is, the tag
the tools write. The tags that identify a recording are functions of it. `call`
holds the locals of the running tool: FastMCP runs these synchronous tools on its
event loop, so there is one at a time, and a step is one file operation (`Copy`,
`Move`, `Write`, `MoveBack`, `Restore`, `Record`). `Raises` ends a call between two
operations (an exception and a kill leave the same files), `KilledInWrite` in the
middle of one and leaves the file `Torn`; `WriteSwallowed` is relocate's
`except: pass`, `MustRaise` are the cases in which the code cannot go on.
`Assess` is `_assess` with MusicBrainz as two partial functions; a failed lookup
is cached as None for good, so `failed` is fixed at the start. `Related` stands for
the text normalisation, `SafeArtist` for the cleaning of a folder's name.

`alone` divides the life of the library: first requests with any of the names
`Requested`, confirmed or not, and reverts and mishaps; then only the weekly sweep,
which passes no names, confirms nothing and meets no faults, which is where
convergence is asked for. `owned` is what importers delivered, `orderly` says that
no change was cut short and that reverts went from the last change to the first
(`FromTheLast`; the last reverted may be reverted again).

Abstracted: tag formats and text normalisation; directories without audio and
multi-disc folders; the memo of album identities (the tags it is computed from do
not change here); a ledger line written in part. The ledger is a set, because
revert searches it by change_id only. An import never hits the two places of the
call that is running; `ReusesPlaces` says whether it may hit those of earlier ones.

### AlertBridge and WorkerPool

`sem` is `_sem`, `job[r]` the place of a request's handler and thread and what
`_pregather` has collected. A step is one turn of the loop over the alerts or one
outgoing call. Prometheus answers a node or nothing; the agent answers with text,
without, fails, or is still at it (`working`) when `AGENT_TIMEOUT` is spent
(`abandoned`). A thread that cannot be started leaves its permit taken (`leaked`).
`WorkerPool` knows three sets, those who wait, those who have a place and those who
were refused; `Pool` maps permits to places, and `PoolSpec` is `WorkerPool!Spec`
under that mapping.

### A2aClient and TriageRun

One clock, `now`; every step adds the time its request or sleep may take, from none
to its timeout. A reply is its class, as the tag, roster and marker patterns tell it
apart (`Gate`, `HasMarker`). `run` holds main's locals, `attempt` the container of
the Job; `Drain`, `Retry` and `Deadline` are the Job controller; a call goes on only while its
process does. `mails` are the replies that were mailed, each with the state of its task
and whether the call's time was spent. `outages` and `misses` count, per attempt, what the two retries are for.

### DoerPipeline

A proposal is an action, a target, a value and whether it is well formed; the branch
is named after it, so it stands for the branch. `branch[p]` is the value its branch
was cut from, which decides whether git can merge it. The five apply functions are
`Edit`: no target, refused, already right, or one line changed. Every remote call
has three outcomes: done, done but reported as failed, not done. `run.cloned` says
that `/tmp/repo` of the pod holds a clone, which survives a container restart. `blind`
records the branches whose limit was not compared with the headroom because that query
failed, `unheard` the PRs of which no mail spoke: the run was killed, its mail failed, or it
mailed FAILED, which names no PR.

### MedikeepIngest

The sheets are sequences of year tabs and these of rows, `Blank` where a cell is empty; a
reading is its key (the timestamp), a dose row its date and amount, and `Year` says which
tab a date belongs in. Each tab is read by a step of its own (`ReadReadings`, `ReadDoses`),
as the job fetches them one by one while people type. Bodyweights are payload and left out;
Medikeep's listing is one GET, taken to be complete. `vitals[k]` counts how often a
reading was written, `periods` are the treatment rows in the order of their ids.
`wire` is a request the client has given up on and the server carries out later.
`disturbed` records the three events after which the code promises less: such a late
request, a dose amended after it was first written, and a torn sheet, in which a run missed
a dose in a tab it had read and saw a later one in a tab after it.

### NetboxWriteback

`objs` are NetBox's objects with id, key, stored mask and name; `op[w]` is the
look-up and the write a writer is between, `job` the nightly job: the record it has
read, the drift it is working through, whether the tag is usable. A target with the
mask `any` is a bare address. `overtaken` marks a writer on whose key another one
wrote since its look-up; `raced` records the objects that were created that way. The
specification is `WritebackSpec`: its names keep clear of those of `NetboxDrift`, so that
one proof module extends both.

## 3. Runs

| run | result | what it shows |
|---|---|---|
| `callback` | pass | all disturbances, two requests, three tokens, expiry inside the run: pages tell the truth, deliveries were consumed first, the ledger is explained, POSTs end, and an orderly history is single-use |
| `callback_double_click` | violation | two POSTs pass the ledger check (206) before either marks (211) |
| `rag_fanout` | pass | one indexed document and one yet to come, two edits, one fault of each kind, cap 1, the Qdrant sweep beside the fan-out: but for what the sweep wrongly purged the watermark is complete and Qdrant converges; LightRAG keeps a copy |
| `rag_sweeps` | pass | both sweeps with one document to a page, the Qdrant sweep's pages in any order, one new document: present documents are spared by an ordered listing and by a single page, orphans go |
| `drift` | pass | an Omada and a GitHub feed, a digest with room for one drift, one outage, one crash, acks: the baseline was mailed or cut from a sent digest, no phantoms, silence while healthy, lasting drift is mailed or cut |
| `esphome` | pass | six devices, two of them unreachable and one forced but excluded, cap 2, one dry run, one mishap of each kind: candidates are found, gates hold, every device with a free place before it is brought up to date |
| `rick` | pass | two artists, three albums, requests under an alias, raises and kills at every file operation, reverts in any order, a failed lookup, then the sweep: nothing delivered is lost, orderly reverts restore everything, each change settles its album, the sweep comes to rest |
| `alerts` | pass | three posts for two permits, a group beyond both caps, every call failing or late, a thread that cannot start, a restart: permits, load and queries are bounded (`StormIsBounded`), the evidence is that of the first distinct pods, groups end, and the bridge implements the abstract pool (`PoolSpec`) |
| `triage` | pass | all answers and delays on a clock of 100 s units, drains and Job retries: `TriageSound` (only tagged findings are mailed, once unless a response was lost, of an unfinished task only when the call's time is spent; calls keep their budget), `FirstAttemptInTime`, `RetriesAreSeparate` |
| `doer` | pass | seven proposals, two runs of two attempts, kills, lost responses and failed capacity queries, one edit of main, merges, declines, deleted branches: `PublishedSound` (gates passed, PRs announced where the run could), `MergeRaises`, `ReviewedIsMerged`, `LeftBranchBlocks` |
| `medikeep` | pass | rows typed into two tabs during the run, one fault of any kind, a late request, amendments, torn sheets, dry runs: `RecordSound` (no row twice, one active dose, dry runs write nothing), `DerivedIsChanges` (the fold of `derive_dose_periods` against its definition), `ClosedStaysClosed`, `Converges` |
| `writeback` | pass | the nightly job and a CLI call on three addresses and a VLAN, one change of zone, cluster or tag, one fault: `MirrorSound` (duplicates only by a race), `FloorHolds`, `MirrorGetsNoWorse`, `Converges` |

Every property of a passing run is paired with a mutant of the code that breaks
it. Properties named `...Sound` or `...Bounded` are conjunctions of a module's type
invariant and named parts, each with a comment of its own; in `AgentCallback`,
`NetboxDrift` and `RickLibrary` the type invariant is left to TLAPS. The violation
contradicts a sentence of the code, quoted under `findings`.

**Bounds and why they are enough.** Two requests are needed for a race, a third
adds no new pair (the theorems cover any number). `MaxTime = 2` with `Exp = 1`
gives a time before, at and after expiry. Two documents give an order to
get wrong; `MaxClock` leaves two edits in `rag_fanout` (so that within a run one document can be
edited twice, or edited while the other is added) and one in `rag_sweeps`.
`MaxDocs = 1` makes the cap bite; `TombPage = 1` makes two documents two pages. One
fault of each kind can fall on any call, and fault kinds combine. In `drift` one
item in two feeds distinguishes per-feed from global mistakes and is one drift more
than `DigestCap = 1` has room for; paging is out of play there (`NetboxPage = 100`, as in
the code) and treated in the theorem. In `esphome` a cap of two and unreachable devices 2
and 5 give devices with a free place behind one unreachable device (3 and 4) and one behind
two of them (6), which need not drain; device 1 is forced and excluded. Only 3 and 4 are
edited; two revisions, two core versions, tracked and untracked devices give every route
through `classify`.

In `rick` the folder of A holds an album of A with one wrong label and one of B; B
has a slash in its name, A's files carry an alias, a compilation with B on it is
still to be imported, `MayFail` lets the lookup of B's id fail. Two files are
needed for a change that is cut between files; two changes on request
(`MaxManual`) for reverts in the wrong order; the sweep needs at most three more
(`MaxChanges = 5`), and if it needed more, `SweepSettles` would be violated, not cut
off. `FolderScanCap = 1` makes the cap bite.

In `alerts` three requests compete for two permits, so one is refused or waits for a
release; the storm names one pod and one node more than the caps allow, one pod twice
and one alert without a pod. In `triage` the times are those of the CronJobs divided by
100, window and deadline rounded up; `outages` is counted up to two. In `doer` two runs
suffice for everything a later run can do to an earlier one's branch, and one edit of
main for a guard that has become stale; `Headroom = 1` lies below the value that the
largest node still holds. In `medikeep` two tabs, with the last of the three dates in the second, make a
torn sheet possible, and three dose rows over three dates
give a change, a return to the earlier dose, a duplicate and an amendment. `MaxIds = 6`
in `writeback` is never reached.

**Deadlock** is checked except for `AgentCallback` and `AlertBridge`, where a finite
set of requests ends, `TriageRun`, where one Job ends, `DoerPipeline` and
`MedikeepIngest`, where the bounds on runs and rows are spent, and `RickLibrary`, where a
swept library has nothing left to do. The other jobs run for ever.

**Fairness.** A thread that can run runs (`WF` of a request's own steps), but no
fairness is assumed of clients, of the agent or of the clock. The CronJobs and
Windmill schedules keep starting runs and a run that does not fail goes on (`WF` of
its steps); LightRAG works off its queue; a device that dropped off comes back
unless it is in `Unreachable`. A running tool call goes on, and the weekly sweep
returns to every album, so it cannot for ever leave undone what it would do
(`RickLibrary!Fairness`, with the ENABLED predicate written out as `SweepIdle`). In
`AlertBridge` each thread goes on, because every call it makes has a timeout; in
`MedikeepIngest` the CronJob keeps running the job and a request on its way arrives; in
`NetboxWriteback` the nightly job goes on (its requests end within 30 s). Agents, clients,
people and restarts owe nothing. Faults, dry runs, edits, requests are bounded and never fair.

**Conditional properties.** Where the code does not keep a promise after a certain
event, the passing runs still let the event happen and state what remains true:
`LedgerIsExplained` until a hang-up, `SingleUseOnTime` while orderly,
the watermark's two halves and `QdrantConverges` until a failed scroll and up to what a
sweep wrongly purged, `LightragKeepsCopy` without faults, `SweepSparesPresent` for an
ordered listing or one page and unless a document is deleted during it, `SeenWasMailed` and
`DriftIsMailed` up to what a digest had no room for, `SilentWhileHealthy` without outages and
crashes, `ConfigChangeIsDetected` until the state file is read or left empty or a config is
edited in mid-run, `FleetDrains` under the same condition for devices with fewer than
`MAX_PER_RUN` unreachable or forced ones before them (and of the core without failures and
dry runs), `FullyRevertible` while orderly, `NothingLost` while importers keep off emptied
places, `LoadCapped` until a call is abandoned, one mail per triage Job unless a response was
lost, final replies only unless the call's time is spent (`GateHolds`), `NoDuplicates` of
Medikeep until a request comes late, `OneActive`, `ClosedStaysClosed` and `Converges` there
until a dose is amended or a sheet torn as well, `BranchesPassedGates` for the headroom
unless its query failed, `OpenedIsAnnounced` unless the run was killed, its mail failed or
its POST raised, `NoDuplicates` of NetBox up to raced keys, `MirrorGetsNoWorse` up to names
that moved. Where the exempted case contradicts a comment of the code, the comment over the
property quotes it and section 5 lists it; each such case occurs in the run unless section 5
names the switch that excludes it. The sharpest of them, the double click, is a violation
run of its own.

## 4. Proofs

Every theorem holds for all values of the constants under the assumptions that the
modules declare by name and that TLC evaluates in their runs. Most only give sets and
ranges. Those that say more, and why the code grants it: `IndexedAssumption` of
`RagPipeline` (earlier runs left nothing out, so the model starts where a sound history
ends); `ProposalsAssumption` of `DoerPipeline` (a proposal has the fields of the schema,
with any values); `AnswersAssumption` of `A2aClient` (texts are sorted into the classes
of `Texts`, and a task that has not ended has an id, as the A2A protocol has it); `FloorsAssumption` of `TriageRun` (30 s of a send are within 60 s of a call,
a poll may take some time, the backoff starts below its cap); `NamesAssumption` and
`WorldsAssumption` of `NetboxWriteback` (names are finitely many; what NetBox holds at the
start is numbered within the bound on ids). What a theorem needs
beyond that is written in its statement.

Each proof module states the inductive invariant (`Inv`, or a named strengthening) in
parts, proves that every action keeps each part, and derives the property from it. The
invariants were checked with TLC before they were proved.

`AgentCallbackProofs`:

* `TypeCorrect`: `TypeOK` is inductive.
* `CausalityHolds` (lemma): `Causality` says what a thread has established at each
  line of `do_POST`: before the mark it has verified, past the mark it is in
  `marked`, nothing is on the wire that is not marked, a reply of 200 implies
  receipt. `DeliveryIsConsumed` and `ConfirmationIsTrue` follow from it; neither of
  the two properties is inductive without it.
* `LedgerExplained`: inductive relative to `Causality`, which excludes a thread that
  answers 200 without a receipt.
* `SerialIsSingleUse`: needs two strengthenings while the history is orderly.
  `Serial`: one thread works at a time, a message is on the wire only while its
  thread awaits it, `stale` holds expired jtis only. `Remembered`: the jti of a
  received approval is in `used` or has expired, so a thread past an on-time check
  carries no token already received. That a history stays disturbed
  (`DisturbedGrows`) makes the condition usable in an induction.

`NetworkDriftProofs`, about `NetboxDrift`:

* `TypeCorrect`, resting on `DriftsAreFingerprints`.
* `SeenIsMailed`: strengthened by `Baseline`: what a run holds as active but not new
  is in `seen`, and once it is at the save its new drift has been mailed or cut from the
  digest that was sent, whatever room a digest has.
* `NothingPhantom`: for a NetBox that answers in one page
  (`Cardinality(Items) <= NetboxPage`, lemma `OnePage`), strengthened by what the run
  has read: it contains what has been recorded since the run began.
* `KnownStaysSilent`: while nothing has failed. `repeated = {}` alone says nothing about
  the email in preparation. `Quiet` adds that what was told is still drift, that the
  feeds and the pages read so far show it (`InSight`, with `FeedsRead` by the place of
  the run), that unless acknowledged it is in `seen` or in the list about to be saved
  (`Remembered`), and that the list about to be emailed has none of it (`Fresh`).

`NetworkDriftProofs`, about `NetboxWriteback`, three theorems from one invariant
`WritebackInv`, with one lemma per action and `Ancestry` for what a request does to
NetBox (an object after it is the one posted, or has the id, key and mask of one before):

* `MirrorStaysSound`: `NoDuplicates` needs that a look-up which found nothing is still
  right when its POST is sent, unless the writer was overtaken (`NothingIsThere`); a
  request of another writer can change that only under the same key, because what a
  look-up found keeps its key under its id (`FoundIsTarget`).
* `FloorIsKept`: `NightlyInBounds` carries the gates from `apply_one` over the look-up to
  the request; `NightlyHasGrounds` carries each planned address from the reads: it balances
  load, or NetBox held it when the run began and holds it still or has lost it since. The
  job has nothing in hand when it reads anew, else the reset of that record would break it.
* `MirrorIsMadeNoWorse`: every name in the plans or in hand was the zone's when it was
  read, and is unless the zone has moved (`NamesAreServed`); two different names then make
  `Cardinality(zone[k]) > 1`, for which names must be finitely many.

`RickLibraryProofs` (from `ConstantsAssumption` and `~ReusesPlaces`; section 5 tells what
happens without the latter):

* `NothingIsLost`. `NothingLost` is not inductive: a step that overwrites a file must
  know that the file is in a backup. `Inv` adds it in seven parts: a file that
  differs from what was delivered is in a backup as delivered (`ChangedIsSafe`), so
  is everything at the places the ledger names (`HandledIsSafe`), and so is a
  recording of which a backup holds a changed version (`BackupsAreSafe`); what was
  delivered is in a backup or still in the library (`OwnedIsSafe`); backups are
  written once, under a new change_id (`FreshBackups`); a call works on files that
  are there (`FilesAreThere`) and has covered those it has passed (`CallIsSafe`).
  `FirstIsOne` rests on the well-foundedness of `<` on the naturals. One lemma per
  action; `OneFile` and `OneMove` carry the part they share.
* `TypeCorrect`: part of the same induction, since what a step writes into the library
  is typed only if the call's files are there.
* `RevertsFully`: `FullyRevertible` says nothing until everything is reverted, so the
  invariant says at every moment what reverting would bring back. `View` reads what a
  place held before a change from the backups of the first later change that is live,
  and from the library (less what the running call has done to it, `Current`) if there is
  none. `StartsDelivered`: the view before all changes is what importers delivered.
  `EachFollows`: a live change and the next one see the same file names, in one of the
  two places of the change, in either, since a revert may be half done. `RevertedOnes`:
  the lowest reverted change, which may be reverted again, finds its backups in place or
  the change below it with the same files. `ChangeGoesWell` and `RevertGoesWell` say how
  far a running call has got. The step that carries it (`TopStep`): a revert writes only
  where the topmost live change has been, so no earlier view changes.
* `ChangesSettle`: `Settling` carries the ground of the verdict (`OnItsWay`: the
  target suits the folder, the grounds of the verdict still hold, the files written so far
  carry the target) from the assessment over the copies, the
  move and the writes to the end, where the next assessment finds the album at home by each
  of the routes of `_assess`. A relocated album comes among siblings the sweep has not
  looked at, so the case that they belong to somebody else is part of the proof. It needs
  `FoldersAreRelated`: a folder is recognised as that of the name it was made from. A name of
  nothing but punctuation with a slash in it normalises to nothing, and its folder would not
  be; the next sweep would want to move the album again, and find its target existing.

`AlertBridgeProofs`:

* `StormBounded` and `EvidenceFirst` from one invariant: `PermitsAccounted` (permits
  left, permits held and permits leaked add up to `MAX_INFLIGHT`, also when `_pregather`
  itself raises; a sum over the requests, kept by the counting lemmas on finite sets), `Replied` and `Awaited` (what is
  mailed was answered, what is being worked on is awaited or was abandoned), `Gathered`
  (at each turn of the loop the pods asked are the first distinct ones of the alerts
  passed, and five queries were spent on each).
* `ImplementsPool`: under `Inv` every step of the bridge is a step of `WorkerPool` or
  leaves the three sets alone; that a permit refused means a full pool is where
  `PermitsAccounted` is needed.

`DoerPipelineProofs`:

* `Passed` says what main knows at each line: past the gates the proposal is allowed, past
  the edit a protected value is above the one in the clone, and a limit that was not compared
  with the headroom is marked `blind`. With `OpenHasBranch` it gives
  `OnlySoundIsPublished`, and the action properties `MergesRaise` (git merges a branch only
  while main still has the value it was cut from, so a stale guard is not wrong),
  `ReviewedMerged` and `LeftBlocks`, each by one step per action.

`EsphomeReconcilerProofs`:

* `DetectionHolds` rests on `HashesAreHonest`: a hash that equals the current config's is
  the hash of what the firmware was built from, in the state file and in the copy a run
  carries; it needs what the run has done to the device in hand (compiled, flashed), and holds until
  the state file is read or left empty.
  That a batch is within the cap is a counting lemma (`BatchIsCapped`).
* `OnlyItsOwnIsTouched` rests on `Controlled` and `CarriesExcluded`: no excluded device is
  ever in a batch, no dry run gets past the compile, and the hashes of excluded devices
  are carried along.

`RagPipelineProofs`:

* `WatermarkHolds`: `Complete` (nothing at or below a version in Qdrant was left out) is
  kept because a page is worked off oldest first: `Ordered` says that rows are newer than
  all that Qdrant has and that what is older than a row is done or a row itself; `Fresh`
  that an edit after the listing is newer than every row; `FromWatermark` what a run knows
  before it lists; `Stamps` that timestamps are unique and grow. The hypothesis is needed:
  when a run turns a page after an edit, a document can slip to a page already read (152).
  What the Qdrant sweep removes is out of the account until it is indexed again (`purged`).
* `WatermarkHoldsWithFewShort`: when the hypothesis holds. `Enough` says that a
  page which has a next one holds more texts that are long enough than the run may still
  embed, so the run stops at its cap before it turns the page; with 50 and 20, fewer than
  30 short documents suffice, however large the archive.
* `SweepsSpare`: `Spares` relates the pages listed so far to the documents present since
  the start; ids only grow, so without a deletion no page shifts. The Qdrant sweep's later
  pages come in no order, and nothing is claimed of them.

`TriageRunProofs`:

* `TriageHolds`: `InCall` (a call keeps its share, however sends, sleeps and polls add up),
  `Waited` (a call that returned with a task not ended has spent its time, `Sendable` once it
  is about to be mailed) and `Mailed` (an attempt that is still running has sent only mails whose response was
  lost).
* `RetriesStaySeparate`, if two calls fit in the window (`2 * Longest < Window`;
  2 * 414 < 900 in the CronJobs), and `FirstAttemptIsInTime`, if the deadline has room for
  the window and two calls (`Window + 2 * Longest <= JobDeadline`; 900 + 828 <= 2100). Both
  rest on `Timely`, which bounds when the call in progress began by the retry that led to
  it, and on `Accounted`, which ties `misses` to `drift_retry_used`. `Longest` is a half of
  the budget plus the floor of a poll, less one: the theorems make exact what the comment
  at `triage_run.py:219-224` asks of the deadline.

Only model-checked: all liveness (`PostsEnd`, `QdrantConverges`,
`LightragKeepsCopy`, `OrphansPurged`, `DriftIsMailed`, `FleetDrains`, `SweepSettles`,
`JobsEnd`, both `Converges`), which is out of the prover's reach; what `DeriveDosePeriods` computes (an
induction over data); and the safety of `MedikeepIngest`, which but for
`DryRunWritesNothing` rests on what its folds compute: `NoDuplicates` on `DistinctKeys` dropping repeated keys, `OneActive` and
`ClosedStaysClosed` on the periods derived from a longer sheet continuing those of a
shorter one. To assume that would be to assume most of what the properties say.

## 5. Known limits of the code, met while modelling

Besides the violation run, the models reach these when their switches are set:

* agent-callback: an invocation that times out after the agent has received it
  releases the token (222) and the page says "It's safe to click Confirm again"
  (221), so the approval is delivered twice; exp falls between `verify` (84) and `_prune` (93), which then drops
  the very entry the request is about to look up, and the token is used twice; a
  client that disconnects before the 502 page leaves the token consumed for nothing; a 200
  with a JSON-RPC error in its body (120-121) is taken for a delivery.
* fan-out: a refresh skipped because LightRAG is busy (179) is never made up for: the
  document still enters Qdrant and the watermark passes it, against "bail if busy
  (leave the old copy; a future run refreshes it)" (170-171). A run that dies between LightRAG's deletion and insertion can lose the
  document from LightRAG; a failed watermark scroll (331) re-indexes old documents,
  and dying in mid-document then leaves a hole below the watermark; page numbers
  shift when a listed document is edited (152).
* sweeps: a document added and ingested between the two listings is condemned; in the
  Qdrant sweep also one that its unordered pages (51-54) miss. Purged below the watermark it
  does not come back to Qdrant until it is edited (this happens in `rag_fanout` and
  `rag_sweeps`); when
  a document of an earlier page is deleted between two pages of Paperless, a live
  one slips through the listing and is purged.
* network-drift: `save_seen(active_fps)` (531) runs unconditionally, against "otherwise
  keep the old baseline" (528-530): after one unreadable source the known drift of that
  source is emailed again. An object deleted between two NetBox pages hides another. New
  drift beyond the first 30 items (384) or 3500 characters (399) of a digest is saved as seen
  and never emailed (this happens in `drift`).
* reconciler: `esphome compile` (282) sets the core version the dashboard reports, so a
  run that ends before the upload (122, 293-299) hides a core upgrade for good, against
  "Catches an esphome core/image bump" (its README, 46-47); the batch is cut (340) before
  devices are probed, so `MAX_PER_RUN` offline or forced devices at its front starve the rest,
  against "the rest drain over subsequent runs" (22-23; device 6 in `esphome`). `save_state`
  truncates the file before it writes (193), and what is cut short reads as empty. A dry run compiles and so hides core drift; a config edited between
  compile and the second hash is recorded as deployed; a failed read of the state
  file is taken for an empty one, which also drops the baselines of excluded devices.
* rick-library-mcp: a call that raises or is killed half-way leaves files retagged or
  an album moved with no ledger entry, against "PRE-FLIGHTED for writability so a
  change can never half-apply" (29): the backup directory is there, but revert does
  not know of it; when the place an album was relocated from is taken again, revert
  still copies the backups over the files there (629) and overwrites an album imported
  in the meantime, against "NEVER A DELETE" (30); changes reverted from the first to the last leave the tags of the
  change in between.

* fan-out and detector: documents with one timestamp may be cut apart by the cap and
  the strict `modified__gt` (406); fingerprints are 48 bits of a hash (116). Neither is
  modelled yet.
* alert-agent-bridge: if `Thread.start` raises (329) its permit is gone until the pod
  restarts; the agent goes on after `AGENT_TIMEOUT`, so its load may exceed
  `MAX_INFLIGHT` (16, 242); up to 37 queries of 8 s each hold a permit.
* triage: a task still `working` when the budget ends returns its partial text, and if
  that leads with PROBLEM it is mailed, against "non-terminal -> silent (NEVER notifies)"
  (9, 230-231; this happens in `triage`); a failed task whose finding mentions "503" or "litellm" counts as an outage
  (144-168); a JSON-RPC error counts as an empty reply and is not requeued; a mail whose
  response is lost is sent again by the Job's retry (287); urllib's timeouts bound each
  socket operation, not the request.
* doer: a decrease of a retention or limit raises and sends a FAILED mail, though
  "rejected ... is logged and SILENT" (449-451); `_capacity_check` ignores a failed
  headroom query (408-415), though "FAIL-CLOSED" (393); a PR whose POST raised after GitHub
  had opened it is announced by nobody, because the FAILED mail (530, 534) names no PR and
  later runs find it open and stay silent (both happen in `doer`); a branch left behind by a failed
  POST or a declined PR makes every later run of the same change fail; an attempt that
  restarts in its pod finds `/tmp/repo` and fails at `git clone` (481), so the Job's
  retries after a failure past the clone are barren.
* medikeep-ingest: a POST carried out after its timeout makes a second row, and of two
  rows with one start only the last is ever closed (366); an amended amount with the
  same dates is never updated (390) and a period that is no longer derived stays; a
  failed weight source leaves the readings of that run without weights for good. The year
  tabs are fetched one by one (409-412, 426-429): from a torn sheet the later dose is posted
  as active, and the next run posts the missed one beside it and moves the end of the period
  before (this happens in `medikeep`). The listing is one GET (275-279) and no further page is
  asked for.
* write-back: two writers that both find nothing both POST; `upsert_ip` re-creates an
  object deleted since the sweep although a stale name is meant to be a PATCH of an
  existing one (`autowrite.py:21`); a PATCH with tags replaces the object's other tags;
  an address with two A records changes its name every night; the CLI never calls
  `ensure_tag`, so a missing tag is an HTTP 400 there; a CLI call with a subnet mask
  beside a load balancer's /32 makes a second object.

## 6. Plan

Done: the modules above, their runs, and proofs for nine of them, among them the
refinement of the pool. Next, in this order:

1. An abstract `SingleUseApproval` specification (a token is pending, approved or
   expired) with `AgentCallback` shown to implement it while orderly.
2. The composition of `NetboxDrift` and `NetboxWriteback`, in which drift that was
   written back goes silent.
3. Bulk edits with equal timestamps in `RagPipeline`; fingerprints over a small hash
   range in `NetboxDrift`.

## 7. Not modelled

* `windmill-failure-watcher.ts` and `workaround-watcher.ts`: polls whose only state is
  the last job seen, saved before the notification; the same question as `SeenWasMailed`.
* `crusher_review.py`, `crusher_weight_sync.py`, `arnold_queue_check.py`,
  `netbox_report_consistency.py`, memory-sync, lidarr-bridge and lidarr-sab-autoimport:
  linear passes or relays over HTTP APIs without state between their steps.
* `paperless-rag-ingest.ts` and `lightrag-rag-ingest.ts`: paused, replaced by the
  fan-out.
* calendar-mcp, rick-gonic-mcp, kagent-evals, `mcp_http.py`: read-only adapters and a
  transport.
* The beets scans, the linters and shell scripts under `tools/`, and the manifests:
  text matching, one-shot operator scripts and declarative YAML.
