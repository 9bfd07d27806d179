-------------------------- MODULE NetboxWriteback --------------------------
(***************************************************************************)
(* network-drift's two writers of NetBox.  autowrite.py recomputes the     *)
(* drift each night and upserts the safe part of it: the DNS name of an    *)
(* address NetBox holds, and an object for a load balancer's address.      *)
(* writeback_cli.py is what the operator runs beside a live change.  Both  *)
(* look an object up and then create, patch or delete it, a request at a   *)
(* time, so that they interleave with each other and with the network.     *)
(* The read-back after a write only words the report and is left out.      *)
(***************************************************************************)
EXTENDS Naturals, FiniteSets, Functions

CONSTANTS
    Addrs,      \* addresses
    Others,     \* prefixes and VLANs, which only the operator writes
    Names,      \* DNS names, descriptions and VLAN names
    NoName,
    Protected,  \* addresses in EXCLUDED_PREFIXES
    Acked,      \* acknowledged fingerprints: a category and an address
    Refused,    \* names that NetBox rejects
    Nightly, Clis, \* the nightly job and the operator's invocations
    Calls,      \* what the operator may ask of the CLI
    Worlds,     \* initial zones, load balancers and addresses NetBox holds
    MaxEdits,   \* bound on changes of the network and of the tag
    MaxFaults,  \* bound on failed requests and dead jobs
    MaxIds      \* bound on the objects ever created

Keys == Addrs \cup Others
Writers == Clis \cup {Nightly}
Masks == {"host", "net"}          \* an address is stored as a /32 or with its subnet's mask
Candidates == [cat : {"dns", "lb"}, key : Addrs, mask : Masks \cup {"any"}, name : Names \cup {NoName}]
Targets == [verb : {"upsert", "delete"}, key : Keys, mask : Masks \cup {"any"},
            name : Names \cup {NoName}, apply : BOOLEAN, tag : BOOLEAN]
Objects == [id : 1..MaxIds, key : Keys, mask : Masks, name : Names \cup {NoName}]
NoObject == [id |-> 0]

ASSUME KeysAssumption == Addrs \cap Others = {} /\ Protected \subseteq Addrs
ASSUME NamesAssumption == NoName \notin Names /\ IsFiniteSet(Names)
ASSUME CallsAssumption == Calls \subseteq Targets /\ Acked \subseteq {"dns", "lb"} \X Addrs
ASSUME WorldsAssumption == \A w \in Worlds : w.zone \in [Addrs -> SUBSET Names]
                                           /\ w.lb \subseteq Addrs /\ w.held \subseteq Addrs
                                           /\ IsFiniteSet(w.held) /\ Cardinality(w.held) <= MaxIds
ASSUME WritersAssumption == Nightly \notin Clis
ASSUME WritebackBoundsAssumption == MaxEdits \in Nat /\ MaxFaults \in Nat /\ MaxIds \in Nat

VARIABLES
    zone,    \* the A records: the names of each address
    lb,      \* the addresses of load balancers
    objs,    \* NetBox's objects
    lastId,  \* ids are never used again
    tag,     \* the owned tag: present, creatable or hidden from this token
    mode,    \* autowrite's gates: apply, dryrun, or refuse (an unusable backend)
    job,     \* the nightly job
    op,      \* each writer's upsert or delete in progress
    raced,   \* history: keys created by a writer whose look-up another one had overtaken
    edits, faults

writebackVars == <<zone, lb, objs, lastId, tag, mode, job, op, raced, edits, faults>>
network == <<zone, lb, tag, edits>>

IdleJob == [pc |-> "idle", rec |-> {}, todo |-> {}, tagOk |-> TRUE,
            balanced |-> {}, moved |-> {}, gone |-> {}]
IdleOp == [pc |-> "idle", target |-> NoObject, seen |-> NoObject, overtaken |-> FALSE]

WritebackInit ==
    /\ \E w \in Worlds :
         /\ zone = w.zone /\ lb = w.lb
         /\ lastId = Cardinality(w.held)
         /\ LET nth == CHOOSE f \in Bijection(w.held, 1..lastId) : TRUE
            IN  objs = {[id |-> nth[k], key |-> k, mask |-> "net", name |-> NoName] : k \in w.held}
    /\ tag \in {"present", "creatable", "hidden"}
    /\ mode \in {"apply", "dryrun", "refuse"}
    /\ job = IdleJob
    /\ op = [w \in Writers |-> IdleOp]
    /\ raced = {} /\ edits = 0 /\ faults = 0

-----------------------------------------------------------------------------
(* The network, and the tag of a NetBox that is rebuilt or whose token     *)
(* gains or loses rights.                                                  *)

Edit == edits < MaxEdits /\ edits' = edits + 1

ZoneChanges(k, names) ==
    /\ Edit
    /\ zone' = [zone EXCEPT ![k] = names]
    /\ job' = [job EXCEPT !.moved = @ \cup {k}]
    /\ UNCHANGED <<lb, objs, lastId, tag, mode, op, raced, faults>>

LbChanges(k) ==
    /\ Edit
    /\ lb' = (lb \cup {k}) \ (lb \cap {k})
    /\ UNCHANGED <<zone, objs, lastId, tag, mode, job, op, raced, faults>>

TagChanges(t) ==
    /\ Edit
    /\ tag' = t
    /\ UNCHANGED <<zone, lb, objs, lastId, mode, job, op, raced, faults>>

-----------------------------------------------------------------------------
(* autowrite.main: NetBox is read first, the zone and the cluster later.   *)

Held(rec) == {o.key : o \in rec}

Fault == faults < MaxFaults /\ faults' = faults + 1

ReadRecord ==
    /\ job.pc = "idle"
    /\ job' = IF mode = "refuse" THEN job
              ELSE [IdleJob EXCEPT !.pc = "zone", !.rec = {o \in objs : o.key \in Addrs}]
    /\ UNCHANGED <<network, objs, lastId, mode, op, raced, faults>>

\* Mutant: the name of another address.
DnsDriftsShared(first) ==
    {[cat |-> "dns", key |-> k, mask |-> first[k].mask, name |-> n] :
        k \in DOMAIN first, n \in UNION {zone[a] : a \in Addrs}}

\* compare_dns_names: an address NetBox does not hold is no stale name.  Of the
\* objects of one address the first listed counts, and NetBox orders them by
\* address only.
DnsDrifts(first) ==
    {[cat |-> "dns", key |-> p[1], mask |-> first[p[1]].mask, name |-> p[2]] :
        p \in {q \in (DOMAIN first) \X Names :
                  q[2] \in zone[q[1]] /\ q[2] # first[q[1]].name}}

\* compare_lb_ips.
LbDrifts(rec) ==
    {[cat |-> "lb", key |-> k, mask |-> "any", name |-> NoName] : k \in lb \ Held(rec)}

ReadZone ==
    /\ job.pc = "zone"
    /\ \E first \in [Held(job.rec) -> job.rec] :
         /\ \A k \in DOMAIN first : first[k].key = k
         /\ job' = [job EXCEPT !.pc = "lb", !.todo = DnsDrifts(first), !.moved = {}]
    /\ UNCHANGED <<network, objs, lastId, mode, op, raced, faults>>

\* Mutant: a prefix is missing from the list.
ExcludedNone(k) == FALSE

\* An address in a range of the recovery path.
Excluded(k) == k \in Protected

\* The candidates: acknowledged and protected drift is dropped.
Safe(drifts) == {d \in drifts : <<d.cat, d.key>> \notin Acked /\ ~Excluded(d.key)}

ReadLb ==
    /\ job.pc = "lb"
    /\ job' = [job EXCEPT !.todo = Safe(@ \cup LbDrifts(job.rec)), !.balanced = lb, !.rec = {},
                          !.pc = IF mode = "apply" THEN "tag" ELSE "items"]
    /\ UNCHANGED <<network, objs, lastId, mode, op, raced, faults>>

\* A source that cannot be read contributes nothing; without the record there
\* is nothing to compare.
ReadFails ==
    /\ Fault
    /\ \/ job.pc = "zone" /\ job' = [job EXCEPT !.pc = "lb"]
       \/ job.pc = "lb" /\ job' = [job EXCEPT !.todo = Safe(@), !.rec = {},
                                              !.pc = IF mode = "apply" THEN "tag" ELSE "items"]
    /\ UNCHANGED <<network, objs, lastId, mode, op, raced>>

\* ensure_tag never raises: a tag that cannot be had means untagged writes.
EnsureTag ==
    /\ job.pc = "tag"
    /\ \/ /\ tag' = IF tag = "creatable" /\ job.todo # {} THEN "present" ELSE tag
          /\ job' = [job EXCEPT !.pc = "items", !.tagOk = tag # "hidden"]
          /\ UNCHANGED faults
       \/ Fault /\ job' = [job EXCEPT !.pc = "items", !.tagOk = FALSE] /\ UNCHANGED tag
    /\ UNCHANGED <<zone, lb, edits, objs, lastId, mode, op, raced>>

\* apply_one, in the order of category and address; it looks at the range again.
ApplyOne(d) ==
    /\ job.pc = "items" /\ op[Nightly].pc = "idle"
    /\ d \in job.todo
    /\ d.cat = "dns" => \A e \in job.todo : e.cat = "dns"
    /\ job' = [job EXCEPT !.todo = @ \ {d}]
    /\ op' = IF Excluded(d.key) THEN op ELSE
             [op EXCEPT ![Nightly] = [IdleOp EXCEPT !.pc = "get",
                !.target = [verb |-> "upsert", key |-> d.key, mask |-> d.mask,
                            name |-> d.name, apply |-> mode = "apply", tag |-> TRUE]]]
    /\ UNCHANGED <<network, objs, lastId, mode, raced, faults>>

\* The mail and the log; a mail that fails ends the job too.
RunEnds ==
    /\ job.pc = "items" /\ job.todo = {} /\ op[Nightly].pc = "idle"
    /\ job' = IdleJob
    /\ UNCHANGED <<network, objs, lastId, mode, op, raced, faults>>

JobDies ==
    /\ job.pc # "idle"
    /\ Fault
    /\ job' = IdleJob /\ op' = [op EXCEPT ![Nightly] = IdleOp]
    /\ UNCHANGED <<network, objs, lastId, mode, raced>>

-----------------------------------------------------------------------------
(* writeback_cli.main, once per invocation.                                *)

Call(c, t) ==
    /\ op[c].pc = "idle"
    /\ op' = [op EXCEPT ![c] = [IdleOp EXCEPT !.pc = "get", !.target = t]]
    /\ UNCHANGED <<network, objs, lastId, mode, job, raced, faults>>

-----------------------------------------------------------------------------
(* upsert_ip, upsert_prefix, upsert_vlan and delete_ip.                    *)

Ended(w) == IF w = Nightly THEN IdleOp ELSE [IdleOp EXCEPT !.pc = "done"]

\* Mutant: a bare address is compared with the stored one as it is.
MatchingExact(t) == {o \in objs : o.key = t.key /\ t.mask = o.mask}

\* What a look-up by key finds: a bare address matches under any mask.
Matching(t) == {o \in objs : o.key = t.key /\ t.mask \in {"any", o.mask}}

\* _changed: a target without a name sets a description, which may differ or not.
MayWrite(t, o) == t.verb = "delete" \/ t.name # o.name

MayEnd(t, o) == t.verb = "upsert" /\ t.name \in {NoName, o.name}

\* get_first takes the first of the results, which come in no fixed order.
Get(w) ==
    /\ op[w].pc = "get"
    /\ LET t == op[w].target
           write(o) == op' = [op EXCEPT ![w].pc = "write", ![w].seen = o]
           end == op' = [op EXCEPT ![w] = Ended(w)]
       IN  \/ Matching(t) = {} /\ IF t.apply /\ t.verb = "upsert" THEN write(NoObject) ELSE end
           \/ \E o \in Matching(t) : \/ t.apply /\ MayWrite(t, o) /\ write(o)
                                     \/ ~t.apply /\ end
                                     \/ MayEnd(t, o) /\ end
    /\ UNCHANGED <<network, objs, lastId, mode, job, raced, faults>>

\* Mutant: the outcome of ensure_tag is not looked at.
TaggedAlways(w) == op[w].target.tag

\* _tags: the CLI never asks whether the tag can be used.
Tagged(w) == op[w].target.tag /\ (w = Nightly => job.tagOk)

\* A tag this token cannot see, or a name of a bad form, is an HTTP 400.
Accepted(w) ==
    /\ op[w].target.verb = "upsert" => ~(Tagged(w) /\ tag # "present")
    /\ op[w].target.name \notin Refused

\* The objects after the request is carried out: POST, PATCH or DELETE by id.
Carried(t, seen) ==
    CASE seen = NoObject ->
           objs \cup {[id |-> lastId + 1, key |-> t.key, name |-> t.name,
                       mask |-> IF t.mask = "any" THEN "host" ELSE t.mask]}
      [] seen # NoObject /\ t.verb = "delete" -> {o \in objs : o.id # seen.id}
      [] OTHER -> {IF o.id = seen.id /\ t.name # NoName THEN [o EXCEPT !.name = t.name] ELSE o :
                      o \in objs}

\* An answer that is lost leaves the same state as one that arrives: the item
\* is done either way, and whatever was raised is caught and reported.
Write(w) ==
    /\ op[w].pc = "write"
    /\ LET t == op[w].target
           posts == op[w].seen = NoObject /\ Accepted(w)
       IN  /\ posts => lastId < MaxIds
           /\ objs' = IF Accepted(w) THEN Carried(t, op[w].seen) ELSE objs
           /\ lastId' = IF posts THEN lastId + 1 ELSE lastId
           /\ raced' = IF posts /\ op[w].overtaken THEN raced \cup {t.key} ELSE raced
           /\ job' = [job EXCEPT !.gone = @ \cup (Held(objs) \ Held(objs'))]
           /\ op' = [v \in Writers |->
                       IF v = w THEN Ended(w)
                       ELSE [op[v] EXCEPT !.overtaken =
                               @ \/ (op[v].pc = "write" /\ op[v].target.key = t.key /\ objs' # objs)]]
    /\ UNCHANGED <<network, mode, faults>>

\* A look-up or a request that never reaches NetBox.
RequestFails(w) ==
    /\ op[w].pc \in {"get", "write"}
    /\ Fault
    /\ op' = [op EXCEPT ![w] = Ended(w)]
    /\ UNCHANGED <<network, objs, lastId, mode, job, raced>>

-----------------------------------------------------------------------------
AutoStep ==
    \/ ReadRecord \/ ReadZone \/ ReadLb \/ EnsureTag \/ RunEnds
    \/ \E d \in job.todo : ApplyOne(d)
    \/ Get(Nightly) \/ Write(Nightly)

WritebackNext ==
    \/ \E k \in Addrs : \E names \in SUBSET Names \ {zone[k]} : ZoneChanges(k, names)
    \/ \E k \in Addrs : LbChanges(k)
    \/ \E t \in {"present", "creatable", "hidden"} : TagChanges(t)
    \/ AutoStep \/ ReadFails \/ JobDies
    \/ \E c \in Clis : \/ \E t \in Calls : Call(c, t)
                       \/ Get(c) \/ Write(c)
    \/ \E w \in Writers : RequestFails(w)

\* The cron job runs every night and each of its requests ends within 30 s.
WritebackSpec == WritebackInit /\ [][WritebackNext]_writebackVars /\ WF_writebackVars(AutoStep)

-----------------------------------------------------------------------------
(* Properties.                                                             *)

\* The values the state can take.
WritebackTypeOK ==
    /\ zone \in [Addrs -> SUBSET Names] /\ lb \subseteq Addrs
    /\ objs \subseteq Objects /\ lastId \in 0..MaxIds
    /\ tag \in {"present", "creatable", "hidden"} /\ mode \in {"apply", "dryrun", "refuse"}
    /\ job.pc \in {"idle", "zone", "lb", "tag", "items"} /\ job.todo \subseteq Candidates
    /\ \A w \in Writers : /\ op[w].pc \in {"idle", "get", "write", "done"}
                          /\ op[w].pc \in {"get", "write"} => op[w].target \in Targets
                          /\ op[w].seen # NoObject => op[w].seen \in Objects
    /\ \A o \in objs : o.id <= lastId /\ \A p \in objs : o.id = p.id => o = p
    /\ edits \in 0..MaxEdits /\ faults \in 0..MaxFaults

\* Every upsert looks its object up again, so a job that died, a lost answer or
\* a second run never leaves two objects for one address and mask: only a writer
\* that was overtaken between its look-up and its POST does.
NoDuplicates ==
    \A o, p \in objs : o # p /\ o.key = p.key /\ o.mask = p.mask => o.key \in raced

\* The state is well formed and free of duplicates no race explains.
MirrorSound == WritebackTypeOK /\ NoDuplicates

\* The recovery-path floor and the gates, over whole runs: the nightly job
\* changes no object of a protected address, a prefix or a VLAN, deletes
\* nothing, and in a dry run changes nothing.  It creates an object only for a
\* load balancer's address it saw, or for one whose object was deleted while it
\* ran: a stale DNS name is a patch of an object that exists.
FloorHolds ==
    [][Write(Nightly) /\ objs' # objs =>
         /\ mode = "apply"
         /\ {o.key : o \in (objs \ objs') \cup (objs' \ objs)} \subseteq Addrs \ Protected
         /\ {o.id : o \in objs} \subseteq {o.id : o \in objs'}
         /\ Held(objs') \ Held(objs) \subseteq job.balanced \cup job.gone]_writebackVars

\* The mirror gets no worse: the nightly job replaces a name the zone serves
\* only if the zone serves two, or has moved since the job read it.
MirrorGetsNoWorse ==
    [][Write(Nightly) =>
         \A o \in objs, p \in objs' :
            o.id = p.id /\ o.key \in Addrs /\ o.name \in zone[o.key] /\ p.name # o.name =>
               o.key \in job.moved \/ Cardinality(zone[o.key]) > 1]_writebackVars

\* An address in the job's scope that nothing ambiguous surrounds.
Clear(k) ==
    /\ k \notin Protected /\ {<<"dns", k>>, <<"lb", k>>} \cap Acked = {}
    /\ Cardinality(zone[k]) <= 1 /\ zone[k] \cap Refused = {}
    /\ Cardinality({o \in objs : o.key = k}) <= 1

\* Once the network and the operator are quiet the job repairs every safe drift,
\* whatever becomes of the tag and although NetBox refuses another item.
Converges ==
    <>[](mode = "apply" => \A k \in Addrs : Clear(k) =>
            /\ k \in lb => k \in Held(objs)
            /\ \A o \in objs : o.key = k => zone[k] \subseteq {o.name})
=============================================================================
