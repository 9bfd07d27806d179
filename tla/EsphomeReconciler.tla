------------------------- MODULE EsphomeReconciler -------------------------
(***************************************************************************)
(* esphome-reconciler: the daily job that compiles and flashes out-of-date *)
(* ESPHome devices.  A device is out of date when the hash of its config   *)
(* differs from the saved baseline or when the core version the dashboard  *)
(* has for it, which is that of its last compile, differs from the current *)
(* one.  Every call into the esphome-0 pod is a step; configs, the core    *)
(* version and the devices' reachability change around the steps, and      *)
(* calls may fail or take effect after they were given up on.              *)
(***************************************************************************)
EXTENDS Naturals, FiniteSets

CONSTANTS
    Devices,       \* config files, numbered in the order of their names
    MaxConfig,     \* bound on the revisions of a config file
    MaxCore,       \* bound on the esphome core versions
    MaxPerRun,     \* MAX_PER_RUN
    Forced,        \* FORCE_DEVICES
    Excluded,      \* EXCLUDE_DEVICES
    Tracked,       \* the devices that have a baseline to begin with
    Unreachable,   \* devices that never come online
    Edited,        \* the devices whose configs are edited
    MaxDryRuns,    \* bound on the runs started with DRY_RUN
    MaxMishaps     \* bound on the mishaps of each kind: see Mishaps

\* A call that fails or a job that is killed, a device that drops off, a state
\* file that is read or left empty, an edit while a run is in progress.
Mishaps == {"call", "drop", "statefile", "edit"}

ASSUME DevicesAssumption ==
    /\ Devices \subseteq Nat /\ IsFiniteSet(Devices)
    /\ {Forced, Excluded, Tracked, Unreachable, Edited} \subseteq SUBSET Devices
ASSUME BoundsAssumption ==
    /\ MaxConfig \in Nat \ {0} /\ MaxCore \in Nat \ {0} /\ MaxPerRun \in Nat \ {0}
    /\ MaxDryRuns \in Nat /\ MaxMishaps \in [Mishaps -> Nat]

VARIABLES
    config,    \* /config/<file>: the revision of each device's config
    core,      \* current_version: the esphome version of the pod
    built,     \* the firmware each device's config was last compiled to
    firmware,  \* the firmware each device runs
    online,    \* the devices that accept connections
    baseline,  \* the state file: the hash recorded for each device, 0 if none
    run,       \* the run in progress
    dryRuns,   \* dry runs so far
    mishaps    \* mishaps of each kind so far

vars == <<config, core, built, firmware, online, baseline, run, dryRuns, mishaps>>

Image == [core : 1..MaxCore, config : 1..MaxConfig]

IdleRun == [pc |-> "idle", mode |-> "live", drifted |-> {}, state |-> <<>>,
            unhashed |-> {}, batch |-> {}]

Init ==
    /\ config = [d \in Devices |-> 1]
    /\ core = 1
    /\ built = [d \in Devices |-> [core |-> 1, config |-> 1]]
    /\ firmware = built
    /\ online = Devices \ Unreachable
    /\ baseline = [d \in Devices |-> IF d \in Tracked THEN 1 ELSE 0]
    /\ run = IdleRun
    /\ dryRuns = 0
    /\ mishaps = [k \in Mishaps |-> 0]

Mishap(k) ==
    /\ mishaps[k] < MaxMishaps[k]
    /\ mishaps' = [mishaps EXCEPT ![k] = @ + 1]

-----------------------------------------------------------------------------
(* The surroundings.                                                       *)

\* A merged pull request changes a device's config.
EditConfig(d) ==
    /\ d \in Edited /\ config[d] < MaxConfig
    /\ IF run.pc = "idle" THEN UNCHANGED mishaps ELSE Mishap("edit")
    /\ config' = [config EXCEPT ![d] = @ + 1]
    /\ UNCHANGED <<core, built, firmware, online, baseline, run, dryRuns>>

\* The esphome image is upgraded; the pod restarts, so no run is in progress.
BumpCore ==
    /\ core < MaxCore
    /\ run.pc = "idle"
    /\ core' = core + 1
    /\ UNCHANGED <<config, built, firmware, online, baseline, run, dryRuns, mishaps>>

GoOffline(d) ==
    /\ d \in online
    /\ Mishap("drop")
    /\ online' = online \ {d}
    /\ UNCHANGED <<config, core, built, firmware, baseline, run, dryRuns>>

ComeOnline(d) ==
    /\ d \notin online \cup Unreachable
    /\ online' = online \cup {d}
    /\ UNCHANGED <<config, core, built, firmware, baseline, run, dryRuns, mishaps>>

-----------------------------------------------------------------------------
(* One run.                                                                *)

\* fetch_devices: which devices the dashboard shows with an old core version.
FetchDevices(mode) ==
    /\ run.pc = "idle"
    /\ \/ mode = "live" /\ UNCHANGED dryRuns
       \/ mode = "dry" /\ dryRuns < MaxDryRuns /\ dryRuns' = dryRuns + 1
    /\ run' = [IdleRun EXCEPT !.pc = "load", !.mode = mode,
                              !.drifted = {d \in Devices : built[d].core # core}]
    /\ UNCHANGED <<config, core, built, firmware, online, baseline, mishaps>>

Unwritten == [d \in Devices |-> 0]

\* load_state; an exec without output is taken for an empty file.
LoadState ==
    /\ run.pc = "load"
    /\ \/ /\ run' = [run EXCEPT !.pc = "classify", !.state = baseline]
          /\ UNCHANGED mishaps
       \/ /\ Mishap("statefile")
          /\ run' = [run EXCEPT !.pc = "classify", !.state = Unwritten]
    /\ UNCHANGED <<config, core, built, firmware, online, baseline, dryRuns>>

\* Mutant: FORCE_DEVICES is looked at before EXCLUDE_DEVICES.
EligibleForced == (Devices \ Excluded) \cup Forced

\* EXCLUDE_DEVICES wins over everything.
Eligible == Devices \ Excluded

\* classify: forced, or changed since the baseline, or built with an old core.
Candidates(S) ==
    {d \in S : \/ d \in Forced
               \/ run.state[d] = 0 /\ d \in run.drifted
               \/ run.state[d] # 0 /\ (run.state[d] # config[d] \/ d \in run.drifted)}

\* classify: devices without a baseline that are neither forced nor drifted.
Untracked(S) == {d \in S : run.state[d] = 0 /\ d \notin Forced /\ d \notin run.drifted}

\* The state with the current hashes of S.
Recorded(state, S) == [d \in Devices |-> IF d \in S THEN config[d] ELSE state[d]]

\* save_state: in a live run, and a failure to save is only logged.  It may come
\* before the file is opened for writing, or leave a file that does not parse,
\* which load_state takes for an empty one.
Persist(state) ==
    \/ run.mode = "live" /\ baseline' = state /\ UNCHANGED mishaps
    \/ run.mode = "dry" /\ UNCHANGED <<baseline, mishaps>>
    \/ run.mode = "live" /\ Mishap("call") /\ UNCHANGED baseline
    \/ run.mode = "live" /\ Mishap("statefile") /\ baseline' = Unwritten

\* Mutant: the cap is applied to the fleet instead of the candidates.
FirstFew(S) == {d \in S : Cardinality({e \in Devices : e <= d}) <= MaxPerRun}

\* candidates[:MAX_PER_RUN], in the order of the names.
Batch(S) == {d \in S : Cardinality({e \in S : e <= d}) <= MaxPerRun}

\* The config of a device cannot be hashed, and classify leaves the device out.
HashFails(d) ==
    /\ run.pc = "classify"
    /\ d \in Eligible \ run.unhashed
    /\ Mishap("call")
    /\ run' = [run EXCEPT !.unhashed = @ \cup {d}]
    /\ UNCHANGED <<config, core, built, firmware, online, baseline, dryRuns>>

\* classify hashes the other configs one by one; the hashes are independent, so
\* they are taken in one step.
Classify ==
    /\ run.pc = "classify"
    /\ LET S == Eligible \ run.unhashed
           seeded == Untracked(S)
           state == Recorded(run.state, seeded)
           batch == Batch(Candidates(S))
       IN  /\ IF seeded = {} THEN UNCHANGED <<baseline, mishaps>> ELSE Persist(state)
           /\ run' = IF batch = {} THEN IdleRun
                     ELSE [run EXCEPT !.pc = "next", !.state = state, !.batch = batch]
    /\ UNCHANGED <<config, core, built, firmware, online, dryRuns>>

\* The device at the head of the batch.
Device == CHOOSE d \in run.batch : \A e \in run.batch : d <= e

Dropped(r) == IF r.batch = {Device} THEN IdleRun
              ELSE [r EXCEPT !.pc = "next", !.batch = @ \ {Device}]

\* is_reachable: an offline device is skipped.
Probe ==
    /\ run.pc = "next"
    /\ run' = IF Device \in online THEN [run EXCEPT !.pc = "compile"] ELSE Dropped(run)
    /\ UNCHANGED <<config, core, built, firmware, online, baseline, dryRuns, mishaps>>

Compiled == [built EXCEPT ![Device] = [core |-> core, config |-> config[Device]]]

\* Mutant: the hash is recorded when the compile is green, before the upload.
CompileRecords ==
    /\ run.pc = "compile"
    /\ built' = Compiled
    /\ run' = IF run.mode = "dry" THEN Dropped(run)
              ELSE [run EXCEPT !.pc = "upload", !.state = Recorded(@, {Device})]
    /\ baseline' = IF run.mode = "dry" THEN baseline ELSE Recorded(run.state, {Device})
    /\ UNCHANGED <<config, core, firmware, online, dryRuns, mishaps>>

\* esphome compile succeeds; a dry run goes on to the next device.
Compile ==
    /\ run.pc = "compile"
    /\ built' = Compiled
    /\ run' = IF run.mode = "dry" THEN Dropped(run) ELSE [run EXCEPT !.pc = "upload"]
    /\ UNCHANGED <<config, core, firmware, online, baseline, dryRuns, mishaps>>

\* It fails, or is given up on and finishes in the pod: the run stops.
CompileFails ==
    /\ run.pc = "compile"
    /\ Mishap("call")
    /\ built' \in {built, Compiled}
    /\ run' = IdleRun
    /\ UNCHANGED <<config, core, firmware, online, baseline, dryRuns>>

Flashed == [firmware EXCEPT ![Device] = built[Device]]

\* esphome upload succeeds.
Upload ==
    /\ run.pc = "upload"
    /\ Device \in online
    /\ firmware' = Flashed
    /\ run' = [run EXCEPT !.pc = "verify"]
    /\ UNCHANGED <<config, core, built, online, baseline, dryRuns, mishaps>>

\* It fails, or is given up on and finishes in the pod: the run stops.
UploadFails ==
    /\ run.pc = "upload"
    /\ \/ Device \notin online /\ UNCHANGED <<firmware, mishaps>>
       \/ Mishap("call") /\ firmware' \in {firmware, Flashed}
    /\ run' = IdleRun
    /\ UNCHANGED <<config, core, built, online, baseline, dryRuns>>

\* verify_online: back within VERIFY_TIMEOUT, or the run stops.
Verify ==
    /\ run.pc = "verify"
    /\ run' = IF Device \in online THEN [run EXCEPT !.pc = "record"] ELSE IdleRun
    /\ UNCHANGED <<config, core, built, firmware, online, baseline, dryRuns, mishaps>>

\* The config is hashed again and the hash saved; without a hash nothing is.
RecordHash ==
    /\ run.pc = "record"
    /\ \/ /\ Persist(Recorded(run.state, {Device}))
          /\ run' = Dropped([run EXCEPT !.state = Recorded(@, {Device})])
       \/ /\ Mishap("call")
          /\ run' = Dropped(run)
          /\ UNCHANGED baseline
    /\ UNCHANGED <<config, core, built, firmware, online, dryRuns>>

\* The job is killed, or an exec raises.
Crash ==
    /\ run.pc # "idle"
    /\ Mishap("call")
    /\ run' = IdleRun
    /\ UNCHANGED <<config, core, built, firmware, online, baseline, dryRuns>>

RunStep ==
    \/ FetchDevices("live") \/ FetchDevices("dry")
    \/ LoadState \/ Classify \/ Probe \/ Compile \/ Upload \/ UploadFails
    \/ Verify \/ RecordHash

Next ==
    \/ \E d \in Devices : EditConfig(d) \/ GoOffline(d) \/ ComeOnline(d) \/ HashFails(d)
    \/ BumpCore
    \/ RunStep \/ CompileFails \/ Crash

Spec == Init /\ [][Next]_vars

\* The CronJob starts a run every day, a run goes on while nothing fails, and
\* a device that drops off comes back unless it is one of Unreachable.
FairSpec ==
    /\ Spec
    /\ WF_vars(RunStep)
    /\ \A d \in Devices : WF_vars(ComeOnline(d))

-----------------------------------------------------------------------------

\* The values the state can take; a batch never exceeds MAX_PER_RUN.
TypeOK ==
    /\ config \in [Devices -> 1..MaxConfig]
    /\ core \in 1..MaxCore
    /\ built \in [Devices -> Image] /\ firmware \in [Devices -> Image]
    /\ online \subseteq Devices
    /\ baseline \in [Devices -> 0..MaxConfig]
    /\ run.pc \in {"idle", "load", "classify", "next", "compile", "upload", "verify", "record"}
    /\ run.mode \in {"live", "dry"}
    /\ run.drifted \subseteq Devices /\ run.batch \subseteq Devices
    /\ Cardinality(run.batch) <= MaxPerRun
    /\ run.unhashed \subseteq Devices
    /\ dryRuns \in 0..MaxDryRuns /\ \A k \in Mishaps : mishaps[k] \in 0..MaxMishaps[k]

\* What a run started now would find: the two kinds of out-of-date detection.
DetectedByHash(d) == baseline[d] # 0 /\ baseline[d] # config[d]
DetectedByCore(d) == built[d].core # core

\* The devices the job manages and has had a baseline for from the beginning.
Managed == Eligible \cap Tracked

\* "Content-hash catches any config change": between runs, a managed device
\* that does not run its current config is a candidate of the next run, however
\* the runs before were cut short, as long as the state file was read and
\* written whole each time and no config was edited in the middle of a run.
ConfigChangeIsDetected ==
    run.pc = "idle" /\ mishaps["statefile"] = 0 /\ mishaps["edit"] = 0 =>
        \A d \in Managed :
            firmware[d].config # config[d] => DetectedByHash(d) \/ DetectedByCore(d)

\* The state is well formed, a batch within its cap, and no config change gets
\* lost however runs are cut short.
DetectionSound == TypeOK /\ ConfigChangeIsDetected

\* EXCLUDE_DEVICES and DRY_RUN, over whole runs: the firmware of an excluded
\* device is never touched, also when it is forced or out of date, nor is its
\* baseline, unless the state file was read or left empty; and "DRY_RUN NEVER
\* uploads and NEVER writes state".
TouchesOnlyItsOwn ==
    [][/\ \A d \in Excluded :
          /\ firmware'[d] = firmware[d]
          /\ mishaps'["statefile"] = 0 => baseline'[d] = baseline[d]
       /\ run.mode = "dry" => UNCHANGED <<firmware, baseline>>]_vars

UpToDate(d) == firmware[d] = [core |-> core, config |-> config[d]]

\* The devices that take a place of the batch in every run once they are
\* candidates: the cap is applied before the probe, and a forced device is one
\* whatever its firmware.
Lingering == Eligible \cap (Unreachable \cup Forced)

\* Fewer than MAX_PER_RUN of them come before d.
HasItsTurn(d) == Cardinality({e \in Lingering : e < d}) < MaxPerRun

\* "MAX_PER_RUN caps each run and the rest drain over subsequent runs": when
\* edits stop, every managed device that can be reached and has fewer than
\* MAX_PER_RUN unreachable or forced devices before it ends up with its current
\* config, whatever dry runs there were, whatever call failed and whatever device
\* dropped off for a while, as long as the state file was read and written
\* whole each time and no config was edited in the middle of a run; and with the current core too if
\* there was no dry run and nothing failed.  A device behind MAX_PER_RUN such
\* devices is left out: it never drains, against that comment.
FleetDrains ==
    <>[](mishaps["statefile"] = 0 /\ mishaps["edit"] = 0 =>
            \A d \in {e \in Managed \ Unreachable : HasItsTurn(e)} :
                /\ firmware[d].config = config[d]
                /\ dryRuns = 0 /\ mishaps["call"] = 0 /\ mishaps["drop"] = 0 => UpToDate(d))
=============================================================================
