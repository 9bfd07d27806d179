---------------------- MODULE EsphomeReconcilerProofs ----------------------
(***************************************************************************)
(* Theorems about EsphomeReconciler, for any fleet, any cap, any exclusion *)
(* and force lists, any number of edits, core versions, dry runs and       *)
(* mishaps.                                                                *)
(***************************************************************************)
EXTENDS EsphomeReconciler, FiniteSetTheorems, WellFoundedInduction, TLAPS

\* From classify's result on: a batch is being worked off.
Flashing == {"next", "compile", "upload", "verify", "record"}

\* The hashes a run works with are there.
Loaded == {"classify"} \cup Flashing

States == [Devices -> 0..MaxConfig]

Run == [pc : {"idle", "load"} \cup Loaded, mode : {"live", "dry"}, drifted : SUBSET Devices,
        state : {<<>>} \cup States, unhashed : SUBSET Devices, batch : SUBSET Devices]

Typed == TypeOK /\ run \in Run /\ mishaps \in [Mishaps -> Nat]

\* A run that flashes has devices left, none of them excluded; a dry run never
\* gets past the compile; the hashes are those of a state file.
Controlled ==
    /\ run.pc \in Flashing => run.batch # {}
    /\ run.batch \subseteq Eligible
    /\ run.pc \in {"upload", "verify", "record"} => run.mode = "live"
    /\ run.pc \in Loaded => run.state \in States

\* The state file of excluded devices is carried along unchanged.
CarriesExcluded ==
    mishaps["statefile"] = 0 /\ run.pc \in Loaded =>
        \A d \in Excluded : run.state[d] = baseline[d]

Undisturbed == mishaps["statefile"] = 0 /\ mishaps["edit"] = 0

\* A hash that is that of the current config is that of the firmware.
Honest(state) ==
    \A d \in Managed :
        /\ state[d] # 0 /\ state[d] <= config[d]
        /\ state[d] = config[d] => firmware[d].config = config[d]

\* The hashes on file and in the run are honest; the device in hand has been
\* compiled, then flashed, with the current config.
HashesAreHonest ==
    Undisturbed =>
        /\ Honest(baseline)
        /\ run.pc \in Loaded => Honest(run.state)
        /\ run.pc = "upload" => built[Device].config = config[Device]
        /\ run.pc \in {"verify", "record"} => firmware[Device].config = config[Device]

\* The inductive invariant.
Inv == Typed /\ Controlled /\ CarriesExcluded /\ HashesAreHonest

-----------------------------------------------------------------------------
(* Batches.                                                                *)

(* A set of numbers that is not empty has a least one.                     *)
LEMMA LeastNumber ==
    ASSUME NEW S \in SUBSET Nat, S # {}
    PROVE  \E m \in S : \A k \in S : m <= k
<1>1. ASSUME NEW R, IsWellFoundedOn(R, Nat), \A k, m \in Nat : k < m => <<k, m>> \in R
      PROVE  \E m \in S : \A k \in S : m <= k
  <2>1. S \subseteq Nat /\ S # {} /\ IsWellFoundedOn(R, Nat)
    BY <1>1
  <2>2. PICK m \in S : \A k \in S : ~(<<k, m>> \in R)
    BY <2>1, WFMin, Zenon
  <2>3. \A k \in S : k \in Nat /\ m \in Nat /\ ~(k < m)
    BY <1>1, <2>1, <2>2, Zenon
  <2>4. QED
    BY <2>3
<1>2. \A k, m \in Nat : k < m => <<k, m>> \in OpToRel(<, Nat)
  BY DEF OpToRel
<1>3. QED
  BY <1>1, <1>2, NatLessThanWellFounded, Zenon

(* The loop over the batch has a device in hand.                           *)
LEMMA DeviceIs ==
    ASSUME run.batch \subseteq Devices, run.batch # {}
    PROVE  Device \in run.batch /\ Device \in Devices
<1>1. run.batch \subseteq Nat
  BY DevicesAssumption
<1>2. PICK m \in run.batch : \A k \in run.batch : m <= k
  BY <1>1, LeastNumber
<1>3. QED
  BY <1>2 DEF Device

(* candidates[:MAX_PER_RUN] has at most MAX_PER_RUN members.               *)
LEMMA BatchIsCapped ==
    ASSUME NEW S \in SUBSET Devices
    PROVE  Batch(S) \subseteq S /\ Cardinality(Batch(S)) <= MaxPerRun
<1> DEFINE Upto(d) == {e \in S : e <= d}
           n == [d \in S |-> Cardinality(Upto(d))]
<1>a. S \subseteq Nat /\ IsFiniteSet(S) /\ MaxPerRun \in Nat
  BY DevicesAssumption, BoundsAssumption, FS_Subset
<1>b. \A d \in S : IsFiniteSet(Upto(d)) /\ Cardinality(Upto(d)) \in Nat
  <2>1. \A d : Upto(d) \in SUBSET S
    OBVIOUS
  <2>2. QED
    BY <1>a, <2>1, FS_Subset, FS_CardinalityType
<1>c. n \in [S -> Nat] /\ Batch(S) = {d \in S : n[d] <= MaxPerRun}
  BY <1>b DEF Batch
<1>d. ASSUME NEW d \in S, NEW e \in S, d < e
      PROVE  n[d] < n[e]
  <2>1. d \in Nat /\ e \in Nat
    BY <1>a
  <2>2. Upto(d) \subseteq Upto(e)
    <3>1. \A x \in S : x \in Nat
      BY <1>a
    <3>2. \A x \in S : x <= d => x <= e
      BY <1>d, <2>1, <3>1
    <3>3. QED
      BY <3>2
  <2>3. e \in Upto(e) /\ e \notin Upto(d)
    BY <1>d, <2>1
  <2>4. /\ Cardinality(Upto(d)) <= Cardinality(Upto(e))
        /\ Cardinality(Upto(d)) # Cardinality(Upto(e))
    <3> HIDE DEF Upto
    <3>1. QED
      BY <1>b, <2>2, <2>3, FS_Subset
  <2>5. QED
    BY <1>b, <2>4
<1>e. \A d \in S : n[d] = Cardinality(Upto(d))
  OBVIOUS
<1> HIDE DEF n
<1>1. CASE Batch(S) = {}
  BY <1>1, <1>a, FS_EmptySet
<1>2. CASE Batch(S) # {}
  <2> DEFINE Room == {MaxPerRun - n[d] : d \in Batch(S)}
  <2>1. Room \in SUBSET Nat /\ Room # {}
    <3>1. \A d \in Batch(S) : n[d] \in Nat /\ n[d] <= MaxPerRun
      BY <1>c
    <3>2. \A d \in Batch(S) : MaxPerRun - n[d] \in Nat
      BY <1>a, <3>1
    <3>3. QED
      BY <1>2, <3>2
  <2>2. PICK m \in Room : \A k \in Room : m <= k
    BY <2>1, LeastNumber
  <2>3. PICK d \in Batch(S) : m = MaxPerRun - n[d]
    BY <2>2
  <2>4. ASSUME NEW e \in Batch(S) PROVE n[e] <= n[d]
    <3>1. MaxPerRun - n[d] <= MaxPerRun - n[e]
      BY <2>2, <2>3
    <3>2. n[d] \in Nat /\ n[e] \in Nat
      BY <1>c
    <3>3. QED
      BY <1>a, <3>1, <3>2
  <2>5. ASSUME NEW e \in Batch(S) PROVE e <= d
    <3>1. d \in Nat /\ e \in Nat /\ e \in S /\ d \in S /\ n[d] \in Nat /\ n[e] \in Nat
      BY <1>a, <1>c
    <3>2. ~(d < e)
      BY <1>d, <2>4, <3>1
    <3>3. QED
      BY <3>1, <3>2
  <2>6. d \in S /\ n[d] <= MaxPerRun /\ n[d] \in Nat /\ Batch(S) \subseteq Upto(d)
    BY <1>c, <2>5
  <2>7. /\ Cardinality(Batch(S)) <= Cardinality(Upto(d)) /\ IsFiniteSet(Batch(S))
        /\ Cardinality(Batch(S)) \in Nat
    <3> HIDE DEF Upto
    <3>1. QED
      BY <1>b, <2>6, FS_Subset, FS_CardinalityType
  <2>8. Cardinality(Batch(S)) <= MaxPerRun
    BY <1>a, <1>e, <2>6, <2>7
  <2>9. QED
    BY <1>c, <2>8
<1>3. QED
  BY <1>1, <1>2, <1>c

(* Going on to the next device: the run ends or has devices left.          *)
LEMMA DroppedIs ==
    ASSUME run \in Run, run.batch # {}, Cardinality(run.batch) <= MaxPerRun,
           NEW r \in Run, r.batch = run.batch
    PROVE  /\ Dropped(r) \in Run
           /\ Cardinality(Dropped(r).batch) <= MaxPerRun
           /\ Dropped(r).batch \subseteq run.batch
           /\ \/ Dropped(r) = IdleRun
              \/ /\ Dropped(r).pc = "next" /\ Dropped(r).batch # {}
                 /\ Dropped(r).mode = r.mode /\ Dropped(r).state = r.state
<1>1. IdleRun \in Run /\ IdleRun.batch = {}
  BY DEF IdleRun, Run
<1>2. Cardinality({}) <= MaxPerRun
  BY FS_EmptySet, BoundsAssumption
<1>3. CASE r.batch = {Device}
  BY <1>1, <1>2, <1>3 DEF Dropped
<1>4. CASE r.batch # {Device}
  <2>1. Dropped(r) = [r EXCEPT !.pc = "next", !.batch = @ \ {Device}]
    BY <1>4 DEF Dropped
  <2>2. /\ Dropped(r) \in Run /\ Dropped(r).pc = "next" /\ Dropped(r).mode = r.mode
        /\ Dropped(r).state = r.state /\ Dropped(r).batch = r.batch \ {Device}
    BY <2>1 DEF Run, Loaded, Flashing
  <2>3. r.batch \ {Device} # {}
    BY <1>4
  <2>4. IsFiniteSet(run.batch)
    BY DevicesAssumption, FS_Subset DEF Run
  <2>5. /\ Cardinality(run.batch \ {Device}) <= Cardinality(run.batch)
        /\ Cardinality(run.batch \ {Device}) \in Nat /\ Cardinality(run.batch) \in Nat
    BY <2>4, FS_RemoveElement, FS_Subset, FS_CardinalityType
  <2>6. Cardinality(run.batch \ {Device}) <= MaxPerRun
    BY <2>5, BoundsAssumption
  <2>7. QED
    BY <2>2, <2>3, <2>6
<1>5. QED
  BY <1>3, <1>4

-----------------------------------------------------------------------------
(* The run and its control.                                                *)

(* A mishap is counted, within its bound.                                  *)
LEMMA MishapIs ==
    ASSUME Typed, NEW k \in Mishaps, Mishap(k)
    PROVE  /\ mishaps' \in [Mishaps -> Nat] /\ mishaps'[k] # 0
           /\ \A j \in Mishaps : mishaps'[j] \in 0..MaxMishaps[j]
           /\ \A j \in Mishaps : mishaps'[j] = 0 => mishaps[j] = 0
<1>1. /\ mishaps \in [Mishaps -> Nat] /\ MaxMishaps \in [Mishaps -> Nat]
      /\ \A j \in Mishaps : mishaps[j] \in 0..MaxMishaps[j]
      /\ mishaps[k] < MaxMishaps[k] /\ mishaps' = [mishaps EXCEPT ![k] = mishaps[k] + 1]
  BY BoundsAssumption DEF Typed, TypeOK, Mishap
<1>2. mishaps' \in [Mishaps -> Nat]
  BY <1>1
<1>3. mishaps'[k] = mishaps[k] + 1 /\ \A j \in Mishaps \ {k} : mishaps'[j] = mishaps[j]
  BY <1>1
<1>4. mishaps[k] \in Nat /\ MaxMishaps[k] \in Nat
  BY <1>1
<1>5. mishaps'[k] # 0 /\ mishaps'[k] \in 0..MaxMishaps[k]
  BY <1>1, <1>3, <1>4
<1>6. QED
  BY <1>1, <1>2, <1>3, <1>5

(* What has gone wrong stays on record.                                    *)
LEMMA MishapsStep ==
    ASSUME Typed, [Next]_vars
    PROVE  /\ mishaps' \in [Mishaps -> Nat]
           /\ \A j \in Mishaps : mishaps'[j] \in 0..MaxMishaps[j]
           /\ \A j \in Mishaps : mishaps'[j] = 0 => mishaps[j] = 0
<1>1. CASE mishaps' = mishaps
  BY <1>1 DEF Typed, TypeOK
<1>2. CASE \E k \in Mishaps : Mishap(k)
  BY <1>2, MishapIs
<1>3. QED
  BY <1>1, <1>2
     DEF Next, RunStep, EditConfig, GoOffline, ComeOnline, HashFails, BumpCore, FetchDevices,
         LoadState, Classify, Probe, Compile, Upload, UploadFails, Verify, RecordHash,
         CompileFails, Crash, Persist, Mishaps, vars

(* The state between runs.                                                 *)
LEMMA IdleIs ==
    /\ IdleRun \in Run /\ IdleRun.pc = "idle" /\ IdleRun.batch = {}
    /\ IdleRun.mode = "live" /\ Cardinality(IdleRun.batch) <= MaxPerRun
  BY FS_EmptySet, BoundsAssumption DEF IdleRun, Run

(* The hashes of a run keep their type.                                    *)
LEMMA RecordedIs ==
    ASSUME Typed, NEW state \in States, NEW S \in SUBSET Devices
    PROVE  Recorded(state, S) \in States
  BY BoundsAssumption DEF Recorded, States, Typed, TypeOK

\* What the run' of a step must satisfy.
RunFine(r) ==
    /\ r \in Run /\ Cardinality(r.batch) <= MaxPerRun
    /\ r.pc \in Flashing => r.batch # {}
    /\ r.batch \subseteq Eligible
    /\ r.pc \in {"upload", "verify", "record"} => r.mode = "live"
    /\ r.pc \in Loaded => r.state \in States

(* Moving on with the same device.                                         *)
LEMMA PcOnly ==
    ASSUME NEW r, RunFine(r), r.pc \in Flashing, NEW where \in Flashing,
           where \in {"upload", "verify", "record"} => r.mode = "live"
    PROVE  /\ RunFine([r EXCEPT !.pc = where])
           /\ [r EXCEPT !.pc = where].pc = where /\ [r EXCEPT !.pc = where].batch = r.batch
           /\ [r EXCEPT !.pc = where].state = r.state
<1>1. /\ [r EXCEPT !.pc = where] \in Run /\ [r EXCEPT !.pc = where].pc = where
      /\ [r EXCEPT !.pc = where].batch = r.batch /\ [r EXCEPT !.pc = where].mode = r.mode
      /\ [r EXCEPT !.pc = where].state = r.state
  BY DEF RunFine, Run, Loaded
<1>2. QED
  BY <1>1 DEF RunFine, Loaded

(* Going on to the next device.                                            *)
LEMMA DroppedFine ==
    ASSUME RunFine(run), run.pc \in Flashing, NEW r, RunFine(r), r.batch = run.batch,
           r.pc \in Flashing
    PROVE  /\ RunFine(Dropped(r))
           /\ Dropped(r).pc \in {"idle", "next"}
           /\ Dropped(r).pc = "next" => Dropped(r).state = r.state
<1>1. /\ Dropped(r) \in Run /\ Cardinality(Dropped(r).batch) <= MaxPerRun
      /\ Dropped(r).batch \subseteq run.batch
      /\ \/ Dropped(r) = IdleRun
         \/ /\ Dropped(r).pc = "next" /\ Dropped(r).batch # {}
            /\ Dropped(r).mode = r.mode /\ Dropped(r).state = r.state
  BY DroppedIs DEF RunFine
<1>2. QED
  BY <1>1, IdleIs DEF RunFine, Loaded, Flashing

(* Every step leaves the run in order.                                     *)
LEMMA RunStepFine ==
    ASSUME Typed, Controlled, [Next]_vars
    PROVE  RunFine(run')
<1>a. RunFine(run)
  BY DEF Typed, TypeOK, Controlled, RunFine
<1>b. RunFine(IdleRun)
  BY IdleIs DEF RunFine, Loaded, Flashing
<1>c. "next" \in Flashing /\ "compile" \in Flashing /\ "upload" \in Flashing
      /\ "verify" \in Flashing /\ "record" \in Flashing
  BY DEF Flashing
<1>1. CASE FetchDevices("live") \/ FetchDevices("dry")
  <2>1. PICK mode \in {"live", "dry"} :
          run' = [IdleRun EXCEPT !.pc = "load", !.mode = mode,
                                 !.drifted = {d \in Devices : built[d].core # core}]
    BY <1>1 DEF FetchDevices
  <2> DEFINE D == {d \in Devices : built[d].core # core}
  <2>2. D \in SUBSET Devices
    OBVIOUS
  <2> HIDE DEF D
  <2>3. run' = [pc |-> "load", mode |-> mode, drifted |-> D, state |-> <<>>, unhashed |-> {},
                batch |-> {}]
    BY <2>1 DEF IdleRun, D
  <2>4. run' \in Run
    BY <2>2, <2>3 DEF Run
  <2>5. QED
    BY <2>3, <2>4, FS_EmptySet, BoundsAssumption DEF RunFine, Loaded, Flashing
<1>2. CASE LoadState
  <2>1. PICK st \in States : run' = [run EXCEPT !.pc = "classify", !.state = st]
    <3>1. baseline \in States /\ Unwritten \in States
      BY BoundsAssumption DEF Typed, TypeOK, States, Unwritten
    <3>2. QED
      BY <1>2, <3>1 DEF LoadState
  <2>2. /\ run' \in Run /\ run'.pc = "classify" /\ run'.state = st /\ run'.batch = run.batch
    BY <2>1 DEF Typed, Run, Loaded
  <2>3. QED
    BY <1>a, <2>2 DEF RunFine, Loaded, Flashing
<1>3. CASE Classify
  <2> DEFINE S == Eligible \ run.unhashed
             st == Recorded(run.state, Untracked(S))
             b == Batch(Candidates(S))
  <2>1. CASE run' = IdleRun
    BY <1>b, <2>1
  <2>2. CASE b # {} /\ run' = [run EXCEPT !.pc = "next", !.state = st, !.batch = b]
    <3>1. S \in SUBSET Devices /\ Untracked(S) \in SUBSET Devices
          /\ Candidates(S) \in SUBSET Devices /\ Candidates(S) \subseteq Eligible
      BY DEF Eligible, Untracked, Candidates
    <3>2. run.state \in States
      BY <1>3 DEF Classify, Controlled, Loaded
    <3>3. st \in States
      BY <3>1, <3>2, RecordedIs
    <3>4. b \in SUBSET Devices /\ b \subseteq Eligible /\ Cardinality(b) <= MaxPerRun
      BY <3>1, BatchIsCapped
    <3> HIDE DEF st, b
    <3>5. /\ run' \in Run /\ run'.pc = "next" /\ run'.state = st /\ run'.batch = b
      BY <2>2, <3>3, <3>4 DEF Typed, Run, Loaded, Flashing
    <3>6. QED
      BY <2>2, <3>3, <3>4, <3>5 DEF RunFine, Flashing
  <2>3. QED
    BY <1>3, <2>1, <2>2 DEF Classify
<1>4. CASE Probe
  <2>1. run.pc = "next"
    BY <1>4 DEF Probe
  <2>2. CASE run' = [run EXCEPT !.pc = "compile"]
    BY <1>a, <1>c, <2>1, <2>2, PcOnly
  <2>3. CASE run' = Dropped(run)
    BY <1>a, <1>c, <2>1, <2>3, DroppedFine
  <2>4. QED
    BY <1>4, <2>2, <2>3 DEF Probe
<1>5. CASE Compile
  <2>1. run.pc = "compile" /\ (run.mode = "dry" \/ run.mode = "live")
    BY <1>5 DEF Compile, Typed, TypeOK
  <2>2. CASE run.mode # "dry" /\ run' = [run EXCEPT !.pc = "upload"]
    BY <1>a, <1>c, <2>1, <2>2, PcOnly
  <2>3. CASE run' = Dropped(run)
    BY <1>a, <1>c, <2>1, <2>3, DroppedFine
  <2>4. QED
    BY <1>5, <2>2, <2>3 DEF Compile
<1>6. CASE Upload
  <2>1. run.pc = "upload" /\ run.mode = "live" /\ run' = [run EXCEPT !.pc = "verify"]
    BY <1>6 DEF Upload, Controlled
  <2>2. QED
    BY <1>a, <1>c, <2>1, PcOnly
<1>7. CASE Verify
  <2>1. run.pc = "verify" /\ run.mode = "live"
    BY <1>7 DEF Verify, Controlled
  <2>2. CASE run' = [run EXCEPT !.pc = "record"]
    BY <1>a, <1>c, <2>1, <2>2, PcOnly
  <2>3. QED
    BY <1>7, <1>b, <2>2 DEF Verify
<1>8. CASE RecordHash
  <2> DEFINE st == Recorded(run.state, {Device})
             r == [run EXCEPT !.state = st]
  <2>1. run.pc = "record" /\ run.mode = "live" /\ run.state \in States /\ run.batch # {}
    BY <1>8 DEF RecordHash, Controlled, Loaded, Flashing
  <2>2. {Device} \in SUBSET Devices
    BY <2>1, DeviceIs DEF Typed, TypeOK
  <2>3. st \in States
    BY <2>1, <2>2, RecordedIs
  <2> HIDE DEF st
  <2>4. /\ r \in Run /\ r.pc = "record" /\ r.state = st /\ r.batch = run.batch
        /\ r.mode = run.mode
    BY <2>1, <2>3 DEF Typed, Run
  <2> HIDE DEF r
  <2>5. RunFine(r)
    BY <1>a, <2>1, <2>3, <2>4 DEF RunFine
  <2>6. run' \in {Dropped(run), Dropped(r)}
    BY <1>8 DEF RecordHash, r, st
  <2>7. QED
    BY <1>a, <1>c, <2>1, <2>4, <2>5, <2>6, DroppedFine
<1>9. CASE UploadFails \/ CompileFails \/ Crash
  BY <1>9, <1>b DEF UploadFails, CompileFails, Crash
<1>10. ASSUME NEW d \in Devices, HashFails(d)
       PROVE  RunFine(run')
  <2>1. /\ run' \in Run /\ run'.pc = "classify" /\ run'.state = run.state
        /\ run'.batch = run.batch
    BY <1>10 DEF HashFails, Typed, Run
  <2>2. QED
    BY <1>10, <1>a, <2>1 DEF HashFails, RunFine, Loaded, Flashing
<1>11. CASE run' = run
  BY <1>11, <1>a
<1>12. QED
  BY <1>1, <1>2, <1>3, <1>4, <1>5, <1>6, <1>7, <1>8, <1>9, <1>10, <1>11
     DEF Next, RunStep, EditConfig, GoOffline, ComeOnline, BumpCore, vars

(* The fleet, the pod and the state file keep their types.                 *)
LEMMA TypeStep ==
    ASSUME Typed, Controlled, [Next]_vars
    PROVE  Typed'
<1> USE BoundsAssumption, DevicesAssumption
<1>a. RunFine(run')
  BY RunStepFine
<1>b. /\ run' \in Run /\ Cardinality(run'.batch) <= MaxPerRun
      /\ run'.pc \in {"idle", "load", "classify", "next", "compile", "upload", "verify", "record"}
      /\ run'.mode \in {"live", "dry"}
      /\ run'.drifted \subseteq Devices /\ run'.batch \subseteq Devices
      /\ run'.unhashed \subseteq Devices
  BY <1>a DEF RunFine, Run, Loaded, Flashing
<1>c. /\ mishaps' \in [Mishaps -> Nat]
      /\ \A k \in Mishaps : mishaps'[k] \in 0..MaxMishaps[k]
  BY MishapsStep
<1> SUFFICES /\ config' \in [Devices -> 1..MaxConfig]
             /\ core' \in 1..MaxCore
             /\ built' \in [Devices -> Image] /\ firmware' \in [Devices -> Image]
             /\ online' \subseteq Devices
             /\ baseline' \in [Devices -> 0..MaxConfig]
             /\ dryRuns' \in 0..MaxDryRuns
  BY <1>b, <1>c DEF Typed, TypeOK
<1>d. /\ config \in [Devices -> 1..MaxConfig]
      /\ core \in 1..MaxCore
      /\ built \in [Devices -> Image] /\ firmware \in [Devices -> Image]
      /\ online \subseteq Devices
      /\ baseline \in [Devices -> 0..MaxConfig]
      /\ dryRuns \in 0..MaxDryRuns
  BY DEF Typed, TypeOK
<1>e. ASSUME run.pc \in Flashing
      PROVE  /\ Device \in Devices /\ Compiled \in [Devices -> Image]
             /\ Flashed \in [Devices -> Image]
  <2>1. Device \in Devices
    BY <1>e, DeviceIs DEF Controlled, Typed, TypeOK
  <2>2. [core |-> core, config |-> config[Device]] \in Image
    BY <1>d, <2>1 DEF Image
  <2>3. built[Device] \in Image
    BY <1>d, <2>1
  <2>4. QED
    BY <1>d, <2>1, <2>2, <2>3 DEF Compiled, Flashed
<1>f. Unwritten \in [Devices -> 0..MaxConfig]
  BY DEF Unwritten
<1>1. ASSUME NEW d \in Devices, EditConfig(d)
      PROVE  config' \in [Devices -> 1..MaxConfig]
  BY <1>1, <1>d DEF EditConfig
<1>2. CASE \E d \in Devices : EditConfig(d)
  BY <1>1, <1>2, <1>d DEF EditConfig
<1>3. CASE \E d \in Devices : GoOffline(d) \/ ComeOnline(d) \/ HashFails(d)
  BY <1>3, <1>d DEF GoOffline, ComeOnline, HashFails
<1>4. CASE BumpCore
  BY <1>4, <1>d DEF BumpCore
<1>5. CASE FetchDevices("live") \/ FetchDevices("dry")
  BY <1>5, <1>d DEF FetchDevices
<1>6. CASE LoadState \/ Probe \/ Verify \/ Crash
  BY <1>6, <1>d DEF LoadState, Probe, Verify, Crash
<1>7. CASE Classify
  <2>1. Untracked(Eligible \ run.unhashed) \in SUBSET Devices
    BY DEF Eligible, Untracked
  <2>2. run.state \in States
    BY <1>7 DEF Classify, Controlled, Loaded
  <2>3. Recorded(run.state, Untracked(Eligible \ run.unhashed)) \in [Devices -> 0..MaxConfig]
    BY <2>1, <2>2, RecordedIs DEF States
  <2>4. baseline' \in {baseline, Recorded(run.state, Untracked(Eligible \ run.unhashed)), Unwritten}
    BY <1>7 DEF Classify, Persist
  <2>5. QED
    BY <1>7, <1>d, <1>f, <2>3, <2>4 DEF Classify
<1>8. CASE Compile \/ CompileFails
  <2>1. run.pc \in Flashing /\ built' \in {built, Compiled}
    BY <1>8 DEF Compile, CompileFails, Flashing
  <2>2. QED
    BY <1>8, <1>d, <1>e, <2>1 DEF Compile, CompileFails
<1>9. CASE Upload \/ UploadFails
  <2>1. run.pc \in Flashing /\ firmware' \in {firmware, Flashed}
    BY <1>9 DEF Upload, UploadFails, Flashing
  <2>2. QED
    BY <1>9, <1>d, <1>e, <2>1 DEF Upload, UploadFails
<1>10. CASE RecordHash
  <2>1. run.pc \in Flashing /\ run.state \in States
    BY <1>10 DEF RecordHash, Controlled, Flashing, Loaded
  <2>2. Recorded(run.state, {Device}) \in [Devices -> 0..MaxConfig]
    BY <1>e, <2>1, RecordedIs DEF States
  <2>3. baseline' \in {baseline, Recorded(run.state, {Device}), Unwritten}
    BY <1>10 DEF RecordHash, Persist
  <2>4. QED
    BY <1>10, <1>d, <1>f, <2>2, <2>3 DEF RecordHash
<1>11. CASE UNCHANGED vars
  BY <1>11, <1>d DEF vars
<1>12. QED
  BY <1>2, <1>3, <1>4, <1>5, <1>6, <1>7, <1>8, <1>9, <1>10, <1>11 DEF Next, RunStep

-----------------------------------------------------------------------------
(* What a step does to firmware, state file and the run's hashes.          *)

\* The device in hand is one the job may touch, in a live run.
Touchable == Device \in Eligible /\ Device \in Devices /\ run.mode = "live"

(* Past the compile of a live run the device in hand may be touched.       *)
LEMMA InHand ==
    ASSUME Typed, Controlled, run.pc \in {"upload", "verify", "record"}
    PROVE  Touchable
<1>1. Device \in run.batch /\ Device \in Devices
  BY DeviceIs DEF Typed, TypeOK, Controlled, Flashing
<1>2. QED
  BY <1>1 DEF Touchable, Controlled

(* Firmware changes only by an upload of the device in hand.               *)
LEMMA FirmwareStep ==
    ASSUME Typed, Controlled, [Next]_vars
    PROVE  firmware' = firmware \/ (run.pc = "upload" /\ Touchable /\ firmware' = Flashed)
<1>1. firmware' = firmware \/ (run.pc = "upload" /\ firmware' = Flashed)
  BY DEF Next, RunStep, EditConfig, GoOffline, ComeOnline, HashFails, BumpCore, FetchDevices,
         LoadState, Classify, Probe, Compile, Upload, UploadFails, Verify, RecordHash,
         CompileFails, Crash, vars
<1>2. QED
  BY <1>1, InHand

\* The hashes as classify and record leave them.
Seeded == Recorded(run.state, Untracked(Eligible \ run.unhashed))
Stamped == Recorded(run.state, {Device})

(* The state file changes only in a live run, to the hashes that run has   *)
(* seeded or stamped; the hashes of a run change in the same two places.   *)
LEMMA HashesStep ==
    ASSUME Typed, Controlled, [Next]_vars
    PROVE  \/ /\ baseline' = baseline
              /\ run'.pc \in Loaded => run.pc \in Loaded /\ run'.state = run.state
           \/ /\ run.pc = "load" /\ baseline' = baseline
              /\ run'.state = baseline \/ mishaps'["statefile"] # 0
           \/ /\ run.pc = "classify"
              /\ run'.pc \in Loaded => run'.state = Seeded
              /\ \/ baseline' = baseline
                 \/ run.mode = "live" /\ (baseline' = Seeded \/ mishaps'["statefile"] # 0)
           \/ /\ run.pc = "record" /\ Touchable
              /\ run'.pc \in Loaded => run'.state \in {run.state, Stamped}
              /\ baseline' \in {baseline, Stamped} \/ mishaps'["statefile"] # 0
<1>a. RunFine(run)
  BY DEF Typed, TypeOK, Controlled, RunFine
<1>b. IdleRun.pc \notin Loaded
  BY IdleIs DEF Loaded, Flashing
<1>c. \A r : RunFine(r) /\ r.batch = run.batch /\ r.pc \in Flashing /\ run.pc \in Flashing
            /\ Dropped(r).pc \in Loaded => Dropped(r).state = r.state
  BY <1>a, DroppedFine DEF Loaded, Flashing
<1>1. CASE FetchDevices("live") \/ FetchDevices("dry")
  <2>1. run'.pc = "load"
    BY <1>1 DEF FetchDevices, IdleRun
  <2>2. QED
    BY <1>1, <2>1 DEF FetchDevices, Loaded, Flashing
<1>2. CASE LoadState
  <2>1. CASE run' = [run EXCEPT !.pc = "classify", !.state = baseline]
    <3>1. run'.state = baseline
      BY <2>1 DEF Typed, Run
    <3>2. QED
      BY <1>2, <3>1 DEF LoadState
  <2>2. CASE Mishap("statefile")
    BY <1>2, <2>2, MishapIs DEF LoadState, Mishaps
  <2>3. QED
    BY <1>2, <2>1, <2>2 DEF LoadState
<1>3. CASE Classify
  <2> DEFINE b == Batch(Candidates(Eligible \ run.unhashed))
  <2>1. CASE run' = IdleRun
    BY <1>3, <1>b, <2>1, MishapIs DEF Classify, Persist, Seeded, Mishaps
  <2>2. CASE run' = [run EXCEPT !.pc = "next", !.state = Seeded, !.batch = b]
    <3>1. run'.state = Seeded
      BY <2>2 DEF Typed, Run
    <3>2. QED
      BY <1>3, <3>1, MishapIs DEF Classify, Persist, Seeded, Mishaps
  <2>3. QED
    BY <1>3, <2>1, <2>2 DEF Classify, Seeded
<1>4. ASSUME run.pc \in Flashing, baseline' = baseline, run' = Dropped(run)
      PROVE  run'.pc \in Loaded => run.pc \in Loaded /\ run'.state = run.state
  BY <1>4, <1>a, <1>c DEF Loaded
<1>5. ASSUME run.pc \in Loaded, NEW where, run' = [run EXCEPT !.pc = where]
      PROVE  run'.state = run.state
  BY <1>5 DEF Typed, Run
<1>6. CASE Probe \/ Compile \/ Upload \/ Verify
  <2>1. run.pc \in Flashing /\ run.pc \in Loaded /\ baseline' = baseline
    BY <1>6 DEF Probe, Compile, Upload, Verify, Flashing, Loaded
  <2>2. \/ run' = Dropped(run) \/ run' = IdleRun
        \/ \E where : run' = [run EXCEPT !.pc = where]
    BY <1>6 DEF Probe, Compile, Upload, Verify
  <2>3. QED
    BY <1>4, <1>5, <1>b, <2>1, <2>2
<1>7. CASE RecordHash
  <2> DEFINE r == [run EXCEPT !.state = Stamped]
  <2>1. Touchable /\ run.pc = "record" /\ run.state \in States
    BY <1>7, InHand DEF RecordHash, Controlled, Loaded, Flashing
  <2>2. Stamped \in States
    BY <2>1, RecordedIs DEF Stamped, Touchable
  <2>3. /\ r \in Run /\ r.pc = "record" /\ r.state = Stamped /\ r.batch = run.batch
        /\ r.mode = run.mode
    BY <2>1, <2>2 DEF Typed, Run
  <2>4. /\ run' \in {Dropped(run), Dropped(r)}
        /\ baseline' \in {baseline, Stamped} \/ mishaps'["statefile"] # 0
    BY <1>7, MishapIs DEF RecordHash, Persist, Stamped, Mishaps
  <2> HIDE DEF r
  <2>5. RunFine(r)
    BY <1>a, <2>1, <2>2, <2>3 DEF RunFine
  <2>6. run'.pc \in Loaded => run'.state \in {run.state, Stamped}
    BY <1>a, <1>c, <2>1, <2>3, <2>4, <2>5 DEF Flashing
  <2>7. QED
    BY <2>1, <2>4, <2>6
<1>8. CASE UploadFails \/ CompileFails \/ Crash
  BY <1>8, <1>b DEF UploadFails, CompileFails, Crash
<1>9. ASSUME NEW d \in Devices, HashFails(d)
      PROVE  baseline' = baseline /\ run.pc \in Loaded /\ run'.state = run.state
  BY <1>9 DEF HashFails, Typed, Run, Loaded
<1>10. CASE run' = run /\ baseline' = baseline
  BY <1>10
<1>11. QED
  BY <1>1, <1>2, <1>3, <1>6, <1>7, <1>8, <1>9, <1>10
     DEF Next, RunStep, EditConfig, GoOffline, ComeOnline, BumpCore, vars

(* The hashes of excluded devices stay what they were.                     *)
LEMMA ExcludedStep ==
    ASSUME Typed, Controlled, CarriesExcluded, [Next]_vars
    PROVE  /\ CarriesExcluded'
           /\ mishaps'["statefile"] = 0 => \A d \in Excluded : baseline'[d] = baseline[d]
<1>a. mishaps'["statefile"] = 0 => mishaps["statefile"] = 0
  BY MishapsStep DEF Mishaps
<1>b. \A d \in Excluded : d \in Devices /\ d \notin Eligible
  BY DevicesAssumption DEF Eligible
<1>c. \A d \in Excluded : Seeded[d] = run.state[d]
  BY <1>b DEF Seeded, Recorded, Untracked
<1>d. Touchable => \A d \in Excluded : Stamped[d] = run.state[d]
  BY <1>b DEF Stamped, Recorded, Touchable
<1>e. "classify" \in Loaded /\ "record" \in Loaded
  BY DEF Loaded, Flashing
<1>1. CASE /\ baseline' = baseline
           /\ run'.pc \in Loaded => run.pc \in Loaded /\ run'.state = run.state
  BY <1>1, <1>a DEF CarriesExcluded
<1>2. CASE /\ run.pc = "load" /\ baseline' = baseline
           /\ run'.state = baseline \/ mishaps'["statefile"] # 0
  BY <1>2 DEF CarriesExcluded
<1>3. CASE /\ run.pc = "classify"
           /\ run'.pc \in Loaded => run'.state = Seeded
           /\ \/ baseline' = baseline
              \/ run.mode = "live" /\ (baseline' = Seeded \/ mishaps'["statefile"] # 0)
  BY <1>3, <1>a, <1>c, <1>e DEF CarriesExcluded
<1>4. CASE /\ run.pc = "record" /\ Touchable
           /\ run'.pc \in Loaded => run'.state \in {run.state, Stamped}
           /\ baseline' \in {baseline, Stamped} \/ mishaps'["statefile"] # 0
  BY <1>4, <1>a, <1>d, <1>e DEF CarriesExcluded
<1>5. QED
  BY <1>1, <1>2, <1>3, <1>4, HashesStep

(* A device is compiled with the current config just before the upload,    *)
(* and flashed with it just before it is verified and recorded.            *)
LEMMA InHandStep ==
    ASSUME Typed, Controlled, HashesAreHonest, [Next]_vars, Undisturbed, config' = config
    PROVE  /\ run'.pc = "upload" => built'[Device'].config = config[Device']
           /\ run'.pc \in {"verify", "record"} => firmware'[Device'].config = config[Device']
<1>a. RunFine(run)
  BY DEF Typed, TypeOK, Controlled, RunFine
<1>b. \A where : run' = [run EXCEPT !.pc = where] => run'.pc = where /\ run'.batch = run.batch
  BY DEF Typed, Run
<1>c. run'.batch = run.batch => Device' = Device
  BY DEF Device
<1>d. run.pc \in Flashing => Device \in Devices
  BY DeviceIs DEF Controlled, Typed, TypeOK
<1>e. IdleRun.pc = "idle"
  BY IdleIs
<1>f. run.pc \in Flashing => Dropped(run).pc \in {"idle", "next"}
  BY <1>a, DroppedFine
<1>1. CASE run' = run /\ built' = built /\ firmware' = firmware
  BY <1>1, <1>c DEF HashesAreHonest
<1>2. CASE run'.pc \notin {"upload", "verify", "record"}
  BY <1>2
<1>3. CASE Compile
  <2>1. CASE run' = Dropped(run)
    BY <1>2, <1>3, <1>f, <2>1 DEF Compile, Flashing
  <2>2. CASE run' = [run EXCEPT !.pc = "upload"]
    <3>1. run'.pc = "upload" /\ Device' = Device
      BY <1>b, <1>c, <2>2
    <3>2. Device \in Devices
      BY <1>3, <1>d DEF Compile, Flashing
    <3>3. built'[Device].config = config[Device]
      BY <1>3, <3>2 DEF Compile, Compiled, Typed, TypeOK
    <3>4. QED
      BY <3>1, <3>3
  <2>3. QED
    BY <1>3, <2>1, <2>2 DEF Compile
<1>4. CASE Upload
  <2>1. run'.pc = "verify" /\ Device' = Device
    BY <1>4, <1>b, <1>c DEF Upload
  <2>2. Device \in Devices /\ built[Device].config = config[Device]
    BY <1>4, <1>d DEF Upload, Flashing, HashesAreHonest
  <2>3. firmware'[Device] = built[Device]
    BY <1>4, <2>2 DEF Upload, Flashed, Typed, TypeOK
  <2>4. QED
    BY <2>1, <2>2, <2>3
<1>5. CASE Verify
  <2>1. CASE run' = [run EXCEPT !.pc = "record"]
    <3>1. run'.pc = "record" /\ Device' = Device
      BY <1>b, <1>c, <2>1
    <3>2. QED
      BY <1>5, <3>1 DEF Verify, HashesAreHonest
  <2>2. QED
    BY <1>2, <1>5, <1>e, <2>1 DEF Verify
<1>6. CASE FetchDevices("live") \/ FetchDevices("dry")
  <2>1. run'.pc = "load"
    BY <1>6 DEF FetchDevices, IdleRun
  <2>2. QED
    BY <1>2, <2>1
<1>7. CASE LoadState
  <2>1. run'.pc = "classify"
    BY <1>7 DEF LoadState, Typed, Run
  <2>2. QED
    BY <1>2, <2>1
<1>8. CASE Classify
  <2>1. run'.pc \in {"idle", "next"}
    BY <1>8, <1>e DEF Classify, Typed, Run
  <2>2. QED
    BY <1>2, <2>1
<1>9. CASE Probe
  <2>1. CASE run' = Dropped(run)
    BY <1>2, <1>9, <1>f, <2>1 DEF Probe, Flashing
  <2>2. CASE run' = [run EXCEPT !.pc = "compile"]
    BY <1>2, <1>b, <2>2
  <2>3. QED
    BY <1>9, <2>1, <2>2 DEF Probe
<1>10. CASE RecordHash
  <2> DEFINE r == [run EXCEPT !.state = Stamped]
  <2>1. run.pc = "record" /\ run.state \in States /\ Touchable
    BY <1>10, InHand DEF RecordHash, Controlled, Loaded, Flashing
  <2>2. Stamped \in States
    BY <2>1, RecordedIs DEF Stamped, Touchable
  <2>3. r \in Run /\ r.pc = "record" /\ r.batch = run.batch /\ r.mode = run.mode
        /\ r.state = Stamped
    BY <2>1, <2>2 DEF Typed, Run
  <2>4. run' \in {Dropped(run), Dropped(r)}
    BY <1>10 DEF RecordHash, Stamped
  <2> HIDE DEF r
  <2>5. RunFine(r)
    BY <1>a, <2>1, <2>2, <2>3 DEF RunFine
  <2>6. run'.pc \in {"idle", "next"}
    BY <1>a, <2>1, <2>3, <2>4, <2>5, DroppedFine DEF Flashing
  <2>7. QED
    BY <1>2, <2>6
<1>11. CASE UploadFails \/ CompileFails \/ Crash
  BY <1>2, <1>11, <1>e DEF UploadFails, CompileFails, Crash
<1>12. ASSUME NEW d \in Devices, HashFails(d)
       PROVE  run'.pc = "classify"
  BY <1>12 DEF HashFails, Typed, Run
<1>13. QED
  BY <1>1, <1>2, <1>3, <1>4, <1>5, <1>6, <1>7, <1>8, <1>9, <1>10, <1>11, <1>12
     DEF Next, RunStep, EditConfig, GoOffline, ComeOnline, BumpCore, vars

(* No hash of the current config is kept for a device that does not run it. *)
LEMMA HonestStep ==
    ASSUME Typed, Controlled, HashesAreHonest, [Next]_vars
    PROVE  HashesAreHonest'
<1> SUFFICES ASSUME Undisturbed'
             PROVE  /\ Honest(baseline)'
                    /\ run'.pc \in Loaded => Honest(run.state)'
                    /\ run'.pc = "upload" => built'[Device'].config = config'[Device']
                    /\ run'.pc \in {"verify", "record"} =>
                          firmware'[Device'].config = config'[Device']
  BY DEF HashesAreHonest
<1>a. Undisturbed
  BY MishapsStep DEF Undisturbed, Mishaps
<1>b. Honest(baseline)
  BY <1>a DEF HashesAreHonest
<1>c. /\ config \in [Devices -> 1..MaxConfig] /\ Managed \subseteq Devices
      /\ baseline \in [Devices -> 0..MaxConfig] /\ MaxConfig \in Nat
      /\ firmware \in [Devices -> Image]
  BY BoundsAssumption DEF Typed, TypeOK, Managed, Eligible
<1>1. ASSUME NEW d \in Devices, EditConfig(d)
      PROVE  HashesAreHonest'
  <2>1. run.pc = "idle"
    <3>1. CASE Mishap("edit")
      BY <3>1, MishapIs DEF Undisturbed, Mishaps
    <3>2. QED
      BY <1>1, <3>1 DEF EditConfig
  <2>2. /\ UNCHANGED <<built, firmware, baseline, run>>
        /\ config'[d] = config[d] + 1 /\ \A e \in Devices \ {d} : config'[e] = config[e]
    BY <1>1, <1>c DEF EditConfig
  <2>3. \A e \in Managed : /\ baseline[e] # 0 /\ baseline[e] <= config'[e]
                           /\ baseline[e] = config'[e] => firmware[e].config = config'[e]
    <3> SUFFICES ASSUME NEW e \in Managed
                 PROVE  /\ baseline[e] # 0 /\ baseline[e] <= config'[e]
                        /\ baseline[e] = config'[e] => firmware[e].config = config'[e]
      OBVIOUS
    <3>1. /\ baseline[e] # 0 /\ baseline[e] <= config[e]
          /\ baseline[e] = config[e] => firmware[e].config = config[e]
      BY <1>b DEF Honest
    <3>2. baseline[e] \in Nat /\ config[e] \in Nat /\ e \in Devices
      BY <1>c
    <3>3. CASE e = d
      BY <2>2, <3>1, <3>2, <3>3
    <3>4. CASE e # d
      BY <2>2, <3>1, <3>2, <3>4
    <3>5. QED
      BY <3>3, <3>4
  <2>4. Honest(baseline)'
    BY <2>2, <2>3 DEF Honest, Managed, Eligible
  <2>5. QED
    BY <2>1, <2>2, <2>4 DEF HashesAreHonest, Loaded, Flashing
<1>2. CASE config' = config
  <2>1. ASSUME NEW st, Honest(st)
        PROVE  \A d \in Managed : /\ st[d] # 0 /\ st[d] <= config[d]
                                  /\ st[d] = config[d] => firmware'[d].config = config[d]
    <3>1. CASE firmware' = firmware
      BY <2>1, <3>1 DEF Honest
    <3>2. CASE run.pc = "upload" /\ Touchable /\ firmware' = Flashed
      <4>1. Device \in Devices /\ built[Device].config = config[Device]
        BY <1>a, <3>2 DEF Touchable, HashesAreHonest
      <4>2. /\ firmware'[Device].config = config[Device]
            /\ \A d \in Devices \ {Device} : firmware'[d] = firmware[d]
        BY <1>c, <3>2, <4>1 DEF Flashed
      <4>3. QED
        BY <1>c, <2>1, <4>2 DEF Honest
    <3>3. QED
      BY <3>1, <3>2, FirmwareStep
  <2>2. ASSUME run.pc = "classify"
        PROVE  Honest(Seeded)
    <3>1. Honest(run.state)
      BY <1>a, <2>2 DEF HashesAreHonest, Loaded
    <3>2. \A d \in Managed : Seeded[d] = run.state[d]
      BY <1>c, <3>1 DEF Honest, Seeded, Recorded, Untracked
    <3>3. QED
      BY <3>1, <3>2 DEF Honest
  <2>3. ASSUME run.pc = "record"
        PROVE  Honest(Stamped) /\ Honest(run.state)
    <3>1. Honest(run.state) /\ firmware[Device].config = config[Device]
      BY <1>a, <2>3 DEF HashesAreHonest, Loaded, Flashing
    <3>2. \A d \in Managed : Stamped[d] = IF d = Device THEN config[d] ELSE run.state[d]
      BY <1>c DEF Stamped, Recorded
    <3>3. \A d \in Managed : config[d] \in Nat /\ config[d] # 0
      BY <1>c
    <3>4. QED
      BY <3>1, <3>2, <3>3 DEF Honest
  <2>4. mishaps'["statefile"] = 0
    BY DEF Undisturbed
  <2>5. Honest(baseline') /\ (run'.pc \in Loaded => Honest(run'.state))
    <3>1. CASE /\ baseline' = baseline
               /\ run'.pc \in Loaded => run.pc \in Loaded /\ run'.state = run.state
      BY <1>a, <1>b, <3>1 DEF HashesAreHonest
    <3>2. CASE /\ run.pc = "load" /\ baseline' = baseline
               /\ run'.state = baseline \/ mishaps'["statefile"] # 0
      BY <1>b, <2>4, <3>2
    <3>3. CASE /\ run.pc = "classify"
               /\ run'.pc \in Loaded => run'.state = Seeded
               /\ \/ baseline' = baseline
                  \/ run.mode = "live" /\ (baseline' = Seeded \/ mishaps'["statefile"] # 0)
      BY <1>b, <2>2, <2>4, <3>3
    <3>4. CASE /\ run.pc = "record" /\ Touchable
               /\ run'.pc \in Loaded => run'.state \in {run.state, Stamped}
               /\ baseline' \in {baseline, Stamped} \/ mishaps'["statefile"] # 0
      BY <1>b, <2>3, <2>4, <3>4
    <3>5. QED
      BY <3>1, <3>2, <3>3, <3>4, HashesStep
  <2>6. Honest(baseline)' /\ (run'.pc \in Loaded => Honest(run.state)')
    BY <1>2, <2>1, <2>5 DEF Honest, Managed, Eligible
  <2>7. QED
    BY <1>2, <1>a, <2>6, InHandStep
<1>3. QED
  BY <1>1, <1>2
     DEF HashesAreHonest, Next, RunStep, GoOffline, ComeOnline, HashFails, BumpCore, FetchDevices,
         LoadState, Classify, Probe, Compile, Upload, UploadFails, Verify, RecordHash,
         CompileFails, Crash, vars

-----------------------------------------------------------------------------

(* The invariant holds in every state.                                     *)
LEMMA Invariance == Spec => []Inv
<1>1. Init => Inv
  <2> SUFFICES ASSUME Init PROVE Inv
    OBVIOUS
  <2>1. Typed
    <3>1. [core |-> 1, config |-> 1] \in Image
      BY BoundsAssumption DEF Image
    <3>2. /\ built \in [Devices -> Image] /\ firmware \in [Devices -> Image]
      BY <3>1 DEF Init
    <3>3. mishaps \in [Mishaps -> Nat] /\ \A k \in Mishaps : mishaps[k] \in 0..MaxMishaps[k]
      BY BoundsAssumption DEF Init
    <3>4. run \in Run /\ Cardinality(run.batch) <= MaxPerRun
      BY IdleIs DEF Init
    <3>5. QED
      BY <3>2, <3>3, <3>4, BoundsAssumption DEF Init, Typed, TypeOK, IdleRun
  <2>2. Controlled /\ CarriesExcluded
    BY IdleIs DEF Init, Controlled, CarriesExcluded, Loaded, Flashing
  <2>3. Honest(baseline)
    BY DEF Init, Honest, Managed, Eligible
  <2>4. HashesAreHonest
    BY <2>3, IdleIs DEF Init, HashesAreHonest, Loaded, Flashing
  <2>5. QED
    BY <2>1, <2>2, <2>4 DEF Inv
<1>2. Inv /\ [Next]_vars => Inv'
  <2> SUFFICES ASSUME Inv, [Next]_vars PROVE Inv'
    OBVIOUS
  <2>1. Controlled'
    BY RunStepFine DEF Inv, RunFine, Controlled, Eligible
  <2>2. QED
    BY <2>1, TypeStep, ExcludedStep, HonestStep DEF Inv
<1>3. QED
  BY <1>1, <1>2, PTL DEF Spec

(* esphome_reconcile.py:239-274, 305-308, 340: a batch stays within         *)
(* MAX_PER_RUN, and however runs are cut short, a managed device that does  *)
(* not run its current config has another hash on file, so the next run     *)
(* finds it.                                                                *)
THEOREM DetectionHolds == Spec => []DetectionSound
<1>1. Inv => DetectionSound
  <2> SUFFICES ASSUME Inv PROVE DetectionSound
    OBVIOUS
  <2>1. ConfigChangeIsDetected
    BY DEF Inv, HashesAreHonest, Undisturbed, Honest, ConfigChangeIsDetected, DetectedByHash
  <2>2. QED
    BY <2>1 DEF Inv, Typed, DetectionSound
<1>2. QED
  BY <1>1, Invariance, PTL

(* esphome_reconcile.py:248-249, 289-291, 332-333: EXCLUDE_DEVICES wins     *)
(* over FORCE_DEVICES and over drift, and a dry run neither uploads nor     *)
(* writes the state file, in every step of every run.                       *)
THEOREM OnlyItsOwnIsTouched == Spec => TouchesOnlyItsOwn
<1>1. Inv /\ [Next]_vars =>
        [/\ \A d \in Excluded :
              /\ firmware'[d] = firmware[d]
              /\ mishaps'["statefile"] = 0 => baseline'[d] = baseline[d]
         /\ run.mode = "dry" => UNCHANGED <<firmware, baseline>>]_vars
  <2> SUFFICES ASSUME Inv, [Next]_vars
               PROVE  /\ \A d \in Excluded :
                            /\ firmware'[d] = firmware[d]
                            /\ mishaps'["statefile"] = 0 => baseline'[d] = baseline[d]
                      /\ run.mode = "dry" => UNCHANGED <<firmware, baseline>>
    OBVIOUS
  <2>1. \A d \in Excluded : firmware'[d] = firmware[d]
    <3>1. \A d \in Excluded : d \in Devices /\ d \notin Eligible
      BY DevicesAssumption DEF Eligible
    <3>2. QED
      BY <3>1, FirmwareStep DEF Inv, Typed, TypeOK, Flashed, Touchable
  <2>2. mishaps'["statefile"] = 0 => \A d \in Excluded : baseline'[d] = baseline[d]
    BY ExcludedStep DEF Inv
  <2>3. run.mode = "dry" => firmware' = firmware
    BY FirmwareStep DEF Inv, Touchable
  <2>4. run.mode = "dry" => baseline' = baseline
    BY HashesStep DEF Inv, Touchable
  <2>5. QED
    BY <2>1, <2>2, <2>3, <2>4
<1>2. QED
  BY <1>1, Invariance, PTL DEF Spec, TouchesOnlyItsOwn
=============================================================================
