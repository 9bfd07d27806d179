------------------------- MODULE RagPipelineProofs -------------------------
(***************************************************************************)
(* Theorems about RagPipeline, for any archive, any page sizes, batch      *)
(* sizes and caps, any number of edits and faults.                         *)
(***************************************************************************)
EXTENDS RagPipeline, FiniteSetTheorems, WellFoundedInduction, TLAPS

\* A document of the batch is being copied to the back ends.
Submitting == {"submit", "delete", "wait", "insert", "index", "upsert"}

\* The run has a page of documents to work off.
Working == {"map", "doc"} \cup Submitting

FanRun == [pc : {"idle", "list"} \cup Working, wm : Versions, page : Nat \ {0},
           batch : SUBSET Rows, more : BOOLEAN, existing : SUBSET Docs,
           processed : 0..MaxDocs]

TombRun == [pc : {"idle", "live", "indexed", "purge"}, page : Nat \ {0}, live : SUBSET Docs,
            orphans : SUBSET Docs, present : SUBSET Docs]

\* The document in hand is within the cap, long enough and was handed to
\* submitToLightrag.
InHand ==
    fan.pc \in Submitting =>
        fan.batch # {} /\ ~Capped /\ Row.long /\ offered[Row.id] = Row.mod

Typed == /\ TypeOK /\ fan \in FanRun /\ tomb \in [Sweeps -> TombRun]
         /\ faults \in [Faults -> Nat] /\ InHand

\* Timestamps are issued once and in order.
Stamps ==
    /\ \A d \in Docs : paper[d] <= clock /\ qdrant[d] <= clock
    /\ \A d, e \in Docs : paper[d] = paper[e] /\ paper[d] # 0 => d = e
    /\ fan.wm <= clock
    /\ \A r \in fan.batch : r.mod <= clock

\* Both back ends have been given the current version of d, or a sweep took it
\* out of Qdrant.
Done(d) == d \in purged \/ (qdrant[d] = paper[d] /\ offered[d] = paper[d])

\* The batch still holds the current version of d.
Pending(d) == [id |-> d, mod |-> paper[d], long |-> TRUE] \in fan.batch

\* Nothing at or below a version in Qdrant was left out.
Complete ==
    \A d \in Wanted, e \in Docs : paper[d] <= qdrant[e] => Done(d)

\* A run about to list starts from all that Qdrant has.
FromWatermark ==
    fan.pc = "list" =>
        /\ \A e \in Docs : qdrant[e] <= fan.wm
        /\ \A d \in Wanted : paper[d] <= fan.wm => Done(d)

\* A row is the current version of its document, or the document was edited
\* after the listing, later than any row, or deleted.
Fresh ==
    \A r \in fan.batch :
        /\ paper[r.id] = r.mod => (r.long <=> r.id \notin short)
        /\ \A q \in fan.batch : paper[r.id] \in {0, r.mod} \/ paper[r.id] > q.mod

\* The rows are newer than all that Qdrant has, and what is older than a row
\* is done or a row itself.
Ordered ==
    \A r \in fan.batch :
        /\ \A q \in fan.batch : r.mod = q.mod => r = q
        /\ \A e \in Docs : qdrant[e] < r.mod
        /\ \A d \in Wanted : paper[d] <= r.mod => Done(d) \/ Pending(d)

Faithful ==
    Sighted => Complete /\ FromWatermark /\ (fan.pc \in Working => Fresh /\ Ordered)

\* The inductive invariant of the fan-out.
Inv == Typed /\ Stamps /\ Faithful

-----------------------------------------------------------------------------
(* Least and greatest numbers.                                             *)

(* A set of numbers that is not empty has a least one.                     *)
LEMMA SmallestNumber ==
    ASSUME NEW S \in SUBSET Nat, S # {}
    PROVE  \E m \in S : \A k \in S : m <= k
<1>1. ASSUME NEW R, IsWellFoundedOn(R, Nat), \A k, m \in Nat : k < m => <<k, m>> \in R
      PROVE  \E m \in S : \A k \in S : m <= k
  <2>1. S \subseteq Nat /\ S # {} /\ IsWellFoundedOn(R, Nat)
    BY <1>1
  <2>2. PICK m \in S : \A k \in S : ~(<<k, m>> \in R)
    BY <2>1, WFMin, Zenon
  <2>3. \A k \in S : k \in Nat /\ m \in Nat /\ ~(k < m)
    BY <1>1, <2>1, <2>2, Zenon
  <2>4. QED
    BY <2>3
<1>2. \A k, m \in Nat : k < m => <<k, m>> \in OpToRel(<, Nat)
  BY DEF OpToRel
<1>3. QED
  BY <1>1, <1>2, NatLessThanWellFounded, Zenon

(* Maximum is the greatest number of a bounded set.                        *)
LEMMA MaximumIs ==
    ASSUME NEW n \in Nat, NEW S \in SUBSET (0..n), S # {}
    PROVE  Maximum(S) \in S /\ \A k \in S : k <= Maximum(S)
<1> DEFINE T == {m \in Nat : \A k \in S : k <= m}
<1>1. n \in T
  OBVIOUS
<1>2. PICK t \in T : \A m \in T : t <= m
  BY <1>1, SmallestNumber
<1>3. t \in S
  <2> SUFFICES ASSUME t \notin S PROVE FALSE
    OBVIOUS
  <2>1. t \in Nat /\ \A k \in S : k \in Nat /\ k < t
    OBVIOUS
  <2>a. PICK x \in S : TRUE
    OBVIOUS
  <2>2. t - 1 \in Nat /\ \A k \in S : k <= t - 1
    BY <2>1, <2>a
  <2>3. QED
    BY <1>2, <2>2
<1>4. QED
  BY <1>2, <1>3 DEF Maximum

(* The loop over the rows of a page has a row, one of the oldest.          *)
LEMMA RowIs ==
    ASSUME fan \in FanRun, fan.batch # {}
    PROVE  /\ Row \in fan.batch /\ \A q \in fan.batch : Row.mod <= q.mod
           /\ Row.id \in Docs /\ Row.mod \in Versions \ {0}
<1> DEFINE M == {r.mod : r \in fan.batch}
<1>1. fan.batch \subseteq Rows
  BY DEF FanRun
<1>2. \A r \in fan.batch : r.mod \in Nat
  BY <1>1, VersionsAssumption DEF Rows, Versions
<1>3. PICK m \in M : \A k \in M : m <= k
  BY <1>2, SmallestNumber
<1>4. PICK r \in fan.batch : \A q \in fan.batch : r.mod <= q.mod
  BY <1>3
<1>5. Row \in fan.batch /\ \A q \in fan.batch : Row.mod <= q.mod
  BY <1>4 DEF Row
<1>6. QED
  BY <1>1, <1>5 DEF Rows

(* The watermark is a version, 0 or one that Qdrant has, and none that     *)
(* Qdrant has is above it.                                                 *)
LEMMA WatermarkIs ==
    ASSUME qdrant \in [Docs -> Versions]
    PROVE  /\ Watermark \in Versions /\ \A d \in Docs : qdrant[d] <= Watermark
           /\ Watermark = 0 \/ \E d \in Docs : Watermark = qdrant[d]
<1> DEFINE S == {0} \cup {qdrant[d] : d \in Docs}
<1>1. S \in SUBSET (0..MaxClock) /\ S # {} /\ MaxClock \in Nat
  BY VersionsAssumption DEF Versions
<1>2. Maximum(S) \in S /\ \A k \in S : k <= Maximum(S)
  BY <1>1, MaximumIs
<1>3. QED
  BY <1>1, <1>2 DEF Watermark, Versions

-----------------------------------------------------------------------------
(* Types.                                                                  *)

\* The rows of the page that a listing at this moment returns.
Listing == {[id |-> d, mod |-> paper[d], long |-> d \notin short] :
               d \in Page(NewerThan(fan.wm), paper, PageSize, fan.page)}

\* The run keeps its watermark, its page and its rows.
SameRows == fan'.wm = fan.wm /\ fan'.page = fan.page /\ fan'.batch = fan.batch

(* What each step of the fan-out leaves in its locals.                     *)
LEMMA FanMoves ==
    ASSUME fan \in FanRun
    PROVE  /\ fan' = IdleFan =>
                fan'.pc = "idle" /\ fan'.wm = 0 /\ fan'.page = 1 /\ fan'.batch = {}
           /\ FanStart =>
                fan'.pc = "list" /\ fan'.wm = Watermark /\ fan'.page = 1 /\ fan'.batch = {}
           /\ FanStartBlind =>
                fan'.pc = "list" /\ fan'.wm = 0 /\ fan'.page = 1 /\ fan'.batch = {}
           /\ FanList =>
                \/ fan' = IdleFan
                \/ /\ fan'.pc = IF fan.page = 1 THEN "map" ELSE "doc"
                   /\ fan'.wm = fan.wm /\ fan'.page = fan.page /\ fan'.batch = Listing
           /\ FanMap => fan'.pc = "doc" /\ SameRows
           /\ FanNext =>
                \/ fan' = IdleFan /\ UNCHANGED offered
                \/ /\ fan'.pc = "list" /\ fan'.page = fan.page + 1 /\ fan.batch = {}
                   /\ fan'.wm = fan.wm /\ fan'.batch = fan.batch /\ UNCHANGED offered
                \/ /\ fan'.pc = "doc" /\ fan.batch # {} /\ ~Row.long
                   /\ fan'.wm = fan.wm /\ fan'.page = fan.page /\ fan'.batch = fan.batch \ {Row}
                   /\ UNCHANGED offered
                \/ /\ fan'.pc = "submit" /\ fan.batch # {} /\ ~Capped /\ Row.long
                   /\ SameRows /\ fan'.processed = fan.processed
                   /\ offered' = [offered EXCEPT ![Row.id] = Row.mod]
           /\ FanSubmit \/ FanDelete \/ FanWait \/ FanInsert \/ FanUnindex \/ FanLightragError =>
                /\ fan.pc \in Submitting /\ fan'.pc \in Submitting
                /\ SameRows /\ fan'.processed = fan.processed
           /\ FanUpsert =>
                /\ fan'.pc = "doc" /\ fan'.wm = fan.wm /\ fan'.page = fan.page
                /\ fan'.batch = fan.batch \ {Row}
<1>1. ASSUME fan' = IdleFan
      PROVE  fan'.pc = "idle" /\ fan'.wm = 0 /\ fan'.page = 1 /\ fan'.batch = {}
  BY <1>1 DEF IdleFan
<1>2. ASSUME FanStart
      PROVE  fan'.pc = "list" /\ fan'.wm = Watermark /\ fan'.page = 1 /\ fan'.batch = {}
  BY <1>2 DEF FanStart, IdleFan
<1>3. ASSUME FanStartBlind
      PROVE  fan'.pc = "list" /\ fan'.wm = 0 /\ fan'.page = 1 /\ fan'.batch = {}
  BY <1>3 DEF FanStartBlind, IdleFan
<1>4. ASSUME FanList
      PROVE  \/ fan' = IdleFan
             \/ /\ fan'.pc = IF fan.page = 1 THEN "map" ELSE "doc"
                /\ fan'.wm = fan.wm /\ fan'.page = fan.page /\ fan'.batch = Listing
  <2> DEFINE rows == Listing
             pc == IF fan.page = 1 THEN "map" ELSE "doc"
             more == HasNext(NewerThan(fan.wm), PageSize, fan.page)
  <2>1. fan' = IdleFan \/ fan' = [fan EXCEPT !.pc = pc, !.batch = rows, !.more = more]
    BY <1>4 DEF FanList, Listing
  <2> HIDE DEF rows, pc, more
  <2>2. \/ fan' = IdleFan
        \/ fan'.pc = pc /\ fan'.wm = fan.wm /\ fan'.page = fan.page /\ fan'.batch = rows
    BY <2>1 DEF FanRun
  <2>3. QED
    BY <2>2 DEF rows, pc
<1>5. ASSUME FanMap
      PROVE  fan'.pc = "doc" /\ SameRows
  BY <1>5 DEF FanMap, FanRun, SameRows
<1>6. ASSUME FanNext
      PROVE  \/ fan' = IdleFan /\ UNCHANGED offered
             \/ /\ fan'.pc = "list" /\ fan'.page = fan.page + 1 /\ fan.batch = {}
                /\ fan'.wm = fan.wm /\ fan'.batch = fan.batch /\ UNCHANGED offered
             \/ /\ fan'.pc = "doc" /\ fan.batch # {} /\ ~Row.long
                /\ fan'.wm = fan.wm /\ fan'.page = fan.page /\ fan'.batch = fan.batch \ {Row}
                /\ UNCHANGED offered
             \/ /\ fan'.pc = "submit" /\ fan.batch # {} /\ ~Capped /\ Row.long
                /\ SameRows /\ fan'.processed = fan.processed
                /\ offered' = [offered EXCEPT ![Row.id] = Row.mod]
  <2>1. CASE fan' = [fan EXCEPT !.pc = "list", !.page = @ + 1]
    <3>1. fan'.pc = "list" /\ fan'.page = fan.page + 1 /\ fan'.wm = fan.wm
          /\ fan'.batch = fan.batch
      BY <2>1 DEF FanRun
    <3>2. fan'.page # fan.page /\ fan'.pc # fan.pc
      BY <1>6, <3>1 DEF FanRun, FanNext
    <3>3. fan.batch = {} /\ UNCHANGED offered
      <4>1. fan' # [fan EXCEPT !.batch = @ \ {Row}] /\ fan' # [fan EXCEPT !.pc = "submit"]
        BY <3>2 DEF FanRun
      <4>2. fan' # IdleFan
        BY <3>1 DEF IdleFan
      <4>3. QED
        BY <1>6, <4>1, <4>2 DEF FanNext
    <3>4. QED
      BY <3>1, <3>3
  <2>2. CASE fan' = [fan EXCEPT !.batch = @ \ {Row}] /\ fan.batch # {} /\ ~Row.long
             /\ UNCHANGED offered
    <3>1. fan'.pc = fan.pc /\ fan'.wm = fan.wm /\ fan'.page = fan.page
          /\ fan'.batch = fan.batch \ {Row}
      BY <2>2 DEF FanRun
    <3>2. QED
      BY <1>6, <2>2, <3>1 DEF FanNext
  <2>3. CASE fan' = [fan EXCEPT !.pc = "submit"] /\ fan.batch # {} /\ ~Capped /\ Row.long
             /\ offered' = [offered EXCEPT ![Row.id] = Row.mod]
    <3>1. fan'.pc = "submit" /\ SameRows /\ fan'.processed = fan.processed
      BY <2>3 DEF FanRun, SameRows
    <3>2. QED
      BY <2>3, <3>1
  <2>4. CASE fan' = IdleFan /\ UNCHANGED offered
    BY <2>4
  <2>5. QED
    BY <1>6, <2>1, <2>2, <2>3, <2>4 DEF FanNext
<1>7. ASSUME FanSubmit \/ FanDelete \/ FanWait \/ FanInsert \/ FanUnindex \/ FanLightragError
      PROVE  /\ fan.pc \in Submitting /\ fan'.pc \in Submitting
             /\ SameRows /\ fan'.processed = fan.processed
  BY <1>7 DEF FanSubmit, FanDelete, FanWait, FanInsert, FanUnindex, FanLightragError, Submitting,
              FanRun, SameRows
<1>8. ASSUME FanUpsert
      PROVE  /\ fan'.pc = "doc" /\ fan'.wm = fan.wm /\ fan'.page = fan.page
             /\ fan'.batch = fan.batch \ {Row}
  BY <1>8 DEF FanUpsert, FanRun
<1>9. QED
  BY <1>1, <1>2, <1>3, <1>4, <1>5, <1>6, <1>7, <1>8, Zenon

(* The fan-out's run stays a run.                                          *)
LEMMA FanRunStep ==
    ASSUME Typed, [Next]_vars
    PROVE  fan' \in FanRun
<1>a. fan \in FanRun /\ qdrant \in [Docs -> Versions] /\ paper \in [Docs -> Versions]
  BY DEF Typed, TypeOK
<1>b. IdleFan \in FanRun
  BY SizesAssumption, VersionsAssumption DEF IdleFan, FanRun, Versions
<1>1. CASE UNCHANGED fan
  BY <1>1, <1>a
<1>2. CASE fan' = IdleFan
  BY <1>2, <1>b
<1>3. CASE FanStart
  BY <1>3, <1>b, <1>a, WatermarkIs DEF FanStart, FanRun
<1>4. CASE FanStartBlind
  BY <1>4, <1>b DEF FanStartBlind, FanRun
<1>5. CASE FanList
  <2> DEFINE newer == NewerThan(fan.wm)
             rows == {[id |-> d, mod |-> paper[d], long |-> d \notin short] :
                         d \in Page(newer, paper, PageSize, fan.page)}
             pc == IF fan.page = 1 THEN "map" ELSE "doc"
             more == HasNext(newer, PageSize, fan.page)
  <2>1. rows \in SUBSET Rows
    <3>1. \A d \in Page(newer, paper, PageSize, fan.page) :
             /\ d \in Docs /\ paper[d] \in Versions \ {0} /\ (d \notin short) \in BOOLEAN
      BY <1>a DEF Page, NewerThan, Live
    <3>2. \A i \in Docs, m \in Versions \ {0}, l \in BOOLEAN :
             [id |-> i, mod |-> m, long |-> l] \in Rows
      BY DEF Rows
    <3>3. QED
      BY <3>1, <3>2
  <2>2. more \in BOOLEAN /\ pc \in {"idle", "list"} \cup Working
    BY DEF HasNext, Working
  <2>3. fan' = IdleFan \/ fan' = [fan EXCEPT !.pc = pc, !.batch = rows, !.more = more]
    BY <1>5 DEF FanList
  <2> HIDE DEF rows, more, pc
  <2>4. QED
    BY <1>a, <1>b, <2>1, <2>2, <2>3, Zenon DEF FanRun
<1>6. CASE FanMap
  BY <1>6, <1>a DEF FanMap, FanRun, Working
<1>7. CASE FanNext
  <2> DEFINE next == fan.page + 1
             rest == fan.batch \ {Row}
  <2>1. next \in Nat \ {0} /\ rest \in SUBSET Rows
    BY <1>a DEF FanRun
  <2>2. \/ fan' = IdleFan
        \/ fan' = [fan EXCEPT !.pc = "list", !.page = next]
        \/ fan' = [fan EXCEPT !.batch = rest]
        \/ fan' = [fan EXCEPT !.pc = "submit"]
    BY <1>7 DEF FanNext
  <2> HIDE DEF next, rest
  <2>3. {"list", "submit"} \subseteq {"idle", "list"} \cup Working
    BY DEF Working, Submitting
  <2>4. QED
    BY <1>a, <1>b, <2>1, <2>2, <2>3, Zenon DEF FanRun
<1>8. CASE FanSubmit \/ FanDelete \/ FanWait \/ FanInsert \/ FanUnindex \/ FanLightragError
  BY <1>8, <1>a
     DEF FanSubmit, FanDelete, FanWait, FanInsert, FanUnindex, FanLightragError, FanRun, Working,
         Submitting
<1>9. CASE FanUpsert
  <2>1. fan.processed + 1 \in 0..MaxDocs
    BY <1>9, <1>a, SizesAssumption DEF FanUpsert, Typed, InHand, Submitting, FanRun, Capped
  <2>2. fan.batch \ {Row} \in SUBSET Rows
    BY <1>a DEF FanRun
  <2>3. QED
    BY <1>9, <1>a, <2>1, <2>2 DEF FanUpsert, FanRun, Working
<1>10. QED
  BY <1>1, <1>2, <1>3, <1>4, <1>5, <1>6, <1>7, <1>8, <1>9
     DEF Next, vars, user, services, FanStep, SweepStep, Write, Delete, PipelineDeletes,
         PipelineIdles, FanAbort, SweepStart, SweepLivePage, SweepIndexed, SweepEnd, SweepAbort,
         PurgeQdrant, PurgeLightrag

(* The sweeps' runs stay runs.                                             *)
LEMMA TombRunStep ==
    ASSUME Typed, [Next]_vars
    PROVE  tomb' \in [Sweeps -> TombRun]
<1>a. tomb \in [Sweeps -> TombRun] /\ paper \in [Docs -> Versions]
  BY DEF Typed, TypeOK
<1>b. IdleTomb \in TombRun
  BY DEF IdleTomb, TombRun
<1>c. ASSUME NEW s \in Sweeps, NEW t \in TombRun, tomb' = [tomb EXCEPT ![s] = t]
      PROVE  tomb' \in [Sweeps -> TombRun]
  BY <1>a, <1>c
<1>1. CASE UNCHANGED tomb
  BY <1>1, <1>a
<1>2. ASSUME NEW d \in Docs, Delete(d)
      PROVE  tomb' \in [Sweeps -> TombRun]
  <2> DEFINE left(s) == IF tomb[s].pc = "live" THEN {} ELSE tomb[s].present \ {d}
  <2>1. tomb' = [s \in Sweeps |-> [tomb[s] EXCEPT !.present = left(s)]]
    BY <1>2 DEF Delete
  <2>2. \A s \in Sweeps : left(s) \in SUBSET Docs /\ tomb[s] \in TombRun
    BY <1>a DEF TombRun
  <2> HIDE DEF left
  <2>3. \A s \in Sweeps : [tomb[s] EXCEPT !.present = left(s)] \in TombRun
    BY <2>2, Zenon DEF TombRun
  <2>4. QED
    BY <2>1, <2>3, Zenon
<1>3. ASSUME NEW s \in Sweeps, SweepStart(s)
      PROVE  tomb' \in [Sweeps -> TombRun]
  <2>1. Live \in SUBSET Docs
    BY DEF Live
  <2>2. [IdleTomb EXCEPT !.pc = "live", !.present = Live] \in TombRun
    BY <1>b, <2>1, Zenon DEF TombRun
  <2>3. QED
    BY <1>3, <1>c, <2>2 DEF SweepStart
<1>4. ASSUME NEW s \in Sweeps, SweepLivePage(s)
      PROVE  tomb' \in [Sweeps -> TombRun]
  <2> DEFINE page == tomb[s].page
             next == IF HasNext(Live, TombPage, page) THEN page + 1 ELSE page
             pc == IF HasNext(Live, TombPage, page) THEN "live" ELSE "indexed"
  <2>1. \/ tomb' = [tomb EXCEPT ![s] = IdleTomb]
        \/ \E shown \in LivePages(s, page) :
             tomb' = [tomb EXCEPT ![s] =
                        [tomb[s] EXCEPT !.live = @ \cup shown, !.page = next, !.pc = pc]]
    BY <1>4 DEF SweepLivePage
  <2>2. /\ next \in Nat \ {0}
        /\ pc \in {"idle", "live", "indexed", "purge"} /\ tomb[s] \in TombRun
    BY <1>a DEF TombRun
  <2> HIDE DEF next, pc
  <2>3. ASSUME NEW shown \in LivePages(s, page)
        PROVE  [tomb[s] EXCEPT !.live = @ \cup shown, !.page = next, !.pc = pc] \in TombRun
    <3>1. shown \subseteq Docs
      BY <2>3 DEF LivePages, Page, Live
    <3>2. tomb[s].live \cup shown \in SUBSET Docs
      BY <2>2, <3>1 DEF TombRun
    <3>3. QED
      BY <2>2, <3>2 DEF TombRun
  <2>4. QED
    BY <1>b, <1>c, <2>1, <2>3
<1>5. ASSUME NEW s \in Sweeps, SweepIndexed(s)
      PROVE  tomb' \in [Sweeps -> TombRun]
  <2> DEFINE t == [tomb[s] EXCEPT !.orphans = Orphans(s), !.live = {}, !.pc = "purge"]
  <2>1. tomb' = [tomb EXCEPT ![s] = t]
    BY <1>5, <1>a DEF SweepIndexed
  <2>2. Orphans(s) \in SUBSET Docs /\ tomb[s] \in TombRun
    BY <1>a DEF Orphans, IndexOf
  <2>3. t \in TombRun
    BY <2>2, Zenon DEF TombRun
  <2>4. QED
    BY <1>c, <2>1, <2>3
<1>6. ASSUME NEW s \in Sweeps, NEW S, tomb' = [tomb EXCEPT ![s].orphans = @ \ S]
      PROVE  tomb' \in [Sweeps -> TombRun]
  <2>1. tomb' = [tomb EXCEPT ![s] = [tomb[s] EXCEPT !.orphans = @ \ S]]
    BY <1>6, <1>a
  <2>2. tomb[s].orphans \ S \in SUBSET Docs /\ tomb[s] \in TombRun
    BY <1>a DEF TombRun
  <2>3. [tomb[s] EXCEPT !.orphans = @ \ S] \in TombRun
    BY <2>2 DEF TombRun
  <2>4. QED
    BY <1>c, <2>1, <2>3
<1>7. ASSUME NEW s \in Sweeps, SweepEnd(s) \/ SweepAbort(s)
      PROVE  tomb' \in [Sweeps -> TombRun]
  BY <1>7, <1>b, <1>c DEF SweepEnd, SweepAbort
<1>8. ASSUME NEW s \in Sweeps, s = "qdrant", PurgeQdrant
      PROVE  tomb' \in [Sweeps -> TombRun]
  BY <1>6, <1>8 DEF PurgeQdrant
<1>9. ASSUME NEW s \in Sweeps, s = "lightrag", PurgeLightrag
      PROVE  tomb' \in [Sweeps -> TombRun]
  BY <1>6, <1>9 DEF PurgeLightrag
<1>10. QED
  BY <1>1, <1>2, <1>3, <1>4, <1>5, <1>7, <1>8, <1>9
     DEF Next, vars, FanStep, SweepStep, Write, PipelineDeletes, PipelineIdles, FanStart, FanList,
         FanMap, FanNext, FanSubmit, FanDelete, FanWait, FanInsert, FanUnindex, FanUpsert,
         FanStartBlind, FanLightragError, FanAbort

(* Faults are counted and bounded.                                         *)
LEMMA FaultsStep ==
    ASSUME Typed, [Next]_vars
    PROVE  /\ faults' \in [Faults -> Nat] /\ \A k \in Faults : faults'[k] \in 0..MaxFaults
           /\ Sighted' => Sighted
<1>a. faults \in [Faults -> Nat] /\ MaxFaults \in Nat
      /\ \A k \in Faults : faults[k] \in 0..MaxFaults
  BY SizesAssumption DEF Typed, TypeOK
<1>b. "scroll" \in Faults /\ "abort" \in Faults /\ "lightrag" \in Faults
  BY DEF Faults
<1>1. CASE UNCHANGED faults
  BY <1>1, <1>a DEF Sighted
<1>2. ASSUME NEW k \in Faults, Suffer(k)
      PROVE  /\ faults' \in [Faults -> Nat] /\ \A j \in Faults : faults'[j] \in 0..MaxFaults
             /\ Sighted' => Sighted
  <2>1. faults[k] < MaxFaults /\ faults' = [faults EXCEPT ![k] = @ + 1]
    BY <1>2, <1>a, <1>b DEF Suffer, Faults
  <2>2. \A j \in Faults : faults'[j] = IF j = k THEN faults[j] + 1 ELSE faults[j]
    BY <1>a, <2>1
  <2>3. QED
    BY <1>a, <1>b, <2>1, <2>2 DEF Sighted
<1>3. QED
  BY <1>1, <1>2, <1>b
     DEF Next, vars, FanStep, SweepStep, Write, Delete, PipelineDeletes, PipelineIdles, FanStart,
         FanList, FanMap, FanNext, FanSubmit, FanDelete, FanWait, FanInsert, FanUnindex, FanUpsert,
         FanStartBlind, FanLightragError, FanAbort, SweepStart, SweepLivePage, SweepIndexed,
         SweepEnd, SweepAbort, PurgeQdrant, PurgeLightrag

(* What the user and LightRAG hold stays of its type.                      *)
LEMMA ServicesStep ==
    ASSUME Typed, [Next]_vars
    PROVE  /\ paper' \in [Docs -> Versions] /\ short' \subseteq Docs /\ gone' \subseteq Docs
           /\ clock' \in Versions
           /\ lightrag' \in [Docs -> Versions] /\ busy' \in BOOLEAN /\ dying' \subseteq Docs
<1>a. /\ paper \in [Docs -> Versions] /\ short \subseteq Docs /\ gone \subseteq Docs
      /\ clock \in Versions
      /\ lightrag \in [Docs -> Versions] /\ busy \in BOOLEAN /\ dying \subseteq Docs
  BY DEF Typed, TypeOK
<1>b. MaxClock \in Nat /\ 0 \in Versions /\ Versions \subseteq Nat
  BY VersionsAssumption DEF Versions
<1>1. CASE UNCHANGED <<user, lightrag, busy, dying>>
  BY <1>1, <1>a DEF user
<1>2. ASSUME NEW d \in Docs, Write(d)
      PROVE  /\ paper' \in [Docs -> Versions] /\ short' \subseteq Docs /\ gone' \subseteq Docs
             /\ clock' \in Versions /\ UNCHANGED <<lightrag, busy, dying>>
  <2>1. clock + 1 \in Versions
    BY <1>2, <1>a, <1>b DEF Write, Versions
  <2>2. QED
    BY <1>2, <1>a, <2>1 DEF Write, services
<1>3. ASSUME NEW d \in Docs, Delete(d)
      PROVE  /\ paper' \in [Docs -> Versions] /\ short' \subseteq Docs /\ gone' \subseteq Docs
             /\ UNCHANGED <<clock, lightrag, busy, dying>>
  BY <1>3, <1>a, <1>b DEF Delete, services
<1>4. ASSUME NEW S \in SUBSET Docs, AskDelete(S)
      PROVE  busy' \in BOOLEAN /\ dying' \subseteq Docs
  BY <1>4, <1>a DEF AskDelete
<1>5. CASE PipelineDeletes \/ PipelineIdles
  BY <1>5, <1>a, <1>b DEF PipelineDeletes, PipelineIdles, user
<1>6. CASE FanDelete
  <2>1. Row.id \in Docs
    BY <1>6, RowIs DEF FanDelete, Typed, InHand, Submitting
  <2>2. QED
    BY <1>4, <1>6, <1>a, <2>1 DEF FanDelete, user
<1>7. CASE FanInsert
  <2>1. Row.id \in Docs /\ Row.mod \in Versions
    BY <1>7, RowIs DEF FanInsert, Typed, InHand, Submitting
  <2>2. QED
    BY <1>7, <1>a, <2>1 DEF FanInsert, user
<1>8. ASSUME "lightrag" \in Sweeps, PurgeLightrag
      PROVE  busy' \in BOOLEAN /\ dying' \subseteq Docs /\ UNCHANGED <<user, lightrag>>
  <2>1. tomb["lightrag"].orphans \subseteq Docs
    BY <1>8 DEF Typed, TypeOK
  <2>2. QED
    BY <1>4, <1>8, <2>1 DEF PurgeLightrag
<1>9. QED
  BY <1>1, <1>2, <1>3, <1>5, <1>6, <1>7, <1>8, <1>a
     DEF Next, vars, user, services, FanStep, SweepStep, FanStart, FanList, FanMap, FanNext, FanSubmit, FanWait,
         FanUnindex, FanUpsert, FanStartBlind, FanLightragError, FanAbort, SweepStart,
         SweepLivePage, SweepIndexed, SweepEnd, SweepAbort, PurgeQdrant

(* Only a copy changes Qdrant or what LightRAG was offered, and only to the *)
(* version in hand, or to nothing.                                         *)
LEMMA CopiesStep ==
    ASSUME Typed, [Next]_vars
    PROVE  \/ UNCHANGED <<qdrant, offered, purged>>
           \/ /\ FanNext /\ fan.batch # {} /\ ~Capped /\ Row.long /\ UNCHANGED <<qdrant, purged>>
              /\ fan' = [fan EXCEPT !.pc = "submit"]
              /\ offered' = [offered EXCEPT ![Row.id] = Row.mod]
           \/ FanUnindex
           \/ FanUpsert
           \/ "qdrant" \in Sweeps /\ PurgeQdrant
BY DEF Next, vars, user, services, FanStep, SweepStep, Write, Delete, PipelineDeletes, PipelineIdles,
       FanStart, FanList, FanMap, FanNext, FanSubmit, FanDelete, FanWait, FanInsert,
       FanStartBlind, FanLightragError, FanAbort, SweepStart, SweepLivePage,
       SweepIndexed, SweepEnd, SweepAbort, PurgeLightrag

(* Qdrant and the offers hold versions.                                    *)
LEMMA CopiesAreVersions ==
    ASSUME Typed, [Next]_vars
    PROVE  qdrant' \in [Docs -> Versions] /\ offered' \in [Docs -> Versions] /\ purged' \subseteq Docs
<1>a. /\ qdrant \in [Docs -> Versions] /\ offered \in [Docs -> Versions] /\ 0 \in Versions
      /\ purged \subseteq Docs
  BY VersionsAssumption DEF Typed, TypeOK, Versions
<1>1. CASE /\ fan.batch # {} /\ UNCHANGED <<qdrant, purged>>
           /\ offered' = [offered EXCEPT ![Row.id] = Row.mod]
  BY <1>1, <1>a, RowIs DEF Typed
<1>2. CASE FanUnindex
  BY <1>2, <1>a DEF FanUnindex
<1>3. CASE FanUpsert
  <2>1. Row.mod \in Versions
    BY <1>3, RowIs DEF FanUpsert, Typed, InHand, Submitting
  <2>2. QED
    BY <1>3, <1>a, <2>1 DEF FanUpsert
<1>4. CASE PurgeQdrant
  BY <1>4, <1>a DEF PurgeQdrant, Live
<1>5. QED
  BY <1>1, <1>2, <1>3, <1>4, <1>a, CopiesStep

(* The document in hand stays in hand until Qdrant has it.                 *)
LEMMA InHandStep ==
    ASSUME Typed, [Next]_vars
    PROVE  InHand'
<1>a. fan \in FanRun /\ InHand /\ offered \in [Docs -> Versions]
  BY DEF Typed, TypeOK
<1>b. CASE /\ fan'.batch = fan.batch /\ fan'.processed = fan.processed
           /\ \/ UNCHANGED offered /\ fan.pc \in Submitting
              \/ /\ fan.batch # {} /\ ~Capped /\ Row.long
                 /\ offered' = [offered EXCEPT ![Row.id] = Row.mod]
  <2>1. Row' = Row /\ Capped' = Capped
    BY <1>b DEF Row, Capped
  <2>2. CASE UNCHANGED offered /\ fan.pc \in Submitting
    BY <1>a, <1>b, <2>1, <2>2 DEF InHand
  <2>3. CASE fan.batch # {} /\ ~Capped /\ Row.long
             /\ offered' = [offered EXCEPT ![Row.id] = Row.mod]
    <3>1. Row.id \in Docs
      BY <1>a, <2>3, RowIs
    <3>2. offered'[Row.id] = Row.mod
      BY <1>a, <2>3, <3>1
    <3>3. QED
      BY <1>b, <2>1, <2>3, <3>2 DEF InHand
  <2>4. QED
    BY <1>b, <2>2, <2>3
<1>1. CASE UNCHANGED <<fan, offered>>
  BY <1>1, <1>a DEF InHand, Row, Capped
<1>2. CASE fan'.pc \notin Submitting
  BY <1>2 DEF InHand
<1>3. CASE FanNext
  BY <1>2, <1>3, <1>a, <1>b, FanMoves DEF Submitting, SameRows
<1>4. CASE FanSubmit \/ FanDelete \/ FanWait \/ FanInsert \/ FanUnindex \/ FanLightragError
  <2>1. UNCHANGED offered
    BY <1>4 DEF FanSubmit, FanDelete, FanWait, FanInsert, FanUnindex, FanLightragError
  <2>2. QED
    BY <1>4, <1>a, <1>b, <2>1, FanMoves DEF SameRows
<1>5. CASE FanStart \/ FanStartBlind \/ FanList \/ FanMap \/ FanUpsert \/ FanAbort
  <2>1. CASE FanAbort
    BY <1>2, <1>a, <2>1, FanMoves DEF FanAbort, Submitting
  <2>2. QED
    BY <1>2, <1>5, <1>a, <2>1, FanMoves DEF Submitting
<1>6. QED
  BY <1>1, <1>3, <1>4, <1>5
     DEF Next, vars, FanStep, SweepStep, Write, Delete, PipelineDeletes, PipelineIdles,
         SweepStart, SweepLivePage, SweepIndexed, SweepEnd, SweepAbort, PurgeQdrant, PurgeLightrag

(* Types are preserved.                                                    *)
LEMMA TypeStep ==
    ASSUME Typed, [Next]_vars
    PROVE  Typed'
<1>1. fan' \in FanRun /\ tomb' \in [Sweeps -> TombRun] /\ InHand'
  BY FanRunStep, TombRunStep, InHandStep
<1>2. /\ fan'.pc \in {"idle", "list", "map", "doc", "submit", "delete", "wait", "insert",
                      "index", "upsert"}
      /\ fan'.wm \in Versions /\ fan'.page \in Nat \ {0} /\ fan'.batch \subseteq Rows
      /\ fan'.more \in BOOLEAN /\ fan'.existing \subseteq Docs /\ fan'.processed \in 0..MaxDocs
  BY <1>1 DEF FanRun, Working, Submitting
<1>3. \A s \in Sweeps :
         /\ tomb'[s].pc \in {"idle", "live", "indexed", "purge"}
         /\ tomb'[s].page \in Nat \ {0}
         /\ tomb'[s].present \subseteq Docs /\ tomb'[s].live \subseteq Docs
         /\ tomb'[s].orphans \subseteq Docs
  BY <1>1 DEF TombRun
<1>4. TypeOK'
  BY <1>2, <1>3, CopiesAreVersions, ServicesStep, FaultsStep DEF TypeOK, Rows, Versions
<1>5. QED
  BY <1>1, <1>4, FaultsStep DEF Typed, FanRun, Rows, Versions, TombRun

-----------------------------------------------------------------------------
(* Timestamps.                                                             *)

(* Paperless changes by an edit or a deletion only.                        *)
LEMMA PaperStep ==
    ASSUME [Next]_vars
    PROVE  \/ UNCHANGED <<paper, short, clock>>
           \/ /\ UNCHANGED <<qdrant, offered, purged, fan>>
              /\ \E d \in Docs : Write(d) \/ Delete(d)
BY DEF Next, vars, user, services, FanStep, SweepStep, Write, Delete, PipelineDeletes,
       PipelineIdles, FanStart, FanList, FanMap, FanNext, FanSubmit, FanDelete, FanWait, FanInsert,
       FanUnindex, FanUpsert, FanStartBlind, FanLightragError, FanAbort, SweepStart,
       SweepLivePage, SweepIndexed, SweepEnd, SweepAbort, PurgeQdrant, PurgeLightrag

(* A row comes from a listing, a watermark from Qdrant.                    *)
LEMMA RowsStep ==
    ASSUME Typed, [Next]_vars
    PROVE  /\ fan'.wm \in {0, fan.wm, Watermark}
           /\ fan'.batch \subseteq fan.batch \/ fan'.batch = Listing
<1>a. fan \in FanRun
  BY DEF Typed
<1>1. CASE UNCHANGED fan
  BY <1>1
<1>2. CASE fan' = IdleFan
  BY <1>2, <1>a, FanMoves
<1>3. CASE FanStart \/ FanStartBlind \/ FanList
  BY <1>2, <1>3, <1>a, FanMoves
<1>4. CASE FanMap \/ FanNext \/ FanUpsert
  BY <1>2, <1>4, <1>a, FanMoves DEF SameRows
<1>5. CASE FanSubmit \/ FanDelete \/ FanWait \/ FanInsert \/ FanUnindex \/ FanLightragError
  BY <1>5, <1>a, FanMoves DEF SameRows
<1>6. QED
  BY <1>1, <1>2, <1>3, <1>4, <1>5
     DEF Next, vars, FanStep, SweepStep, Write, Delete, PipelineDeletes, PipelineIdles, FanAbort,
         SweepStart, SweepLivePage, SweepIndexed, SweepEnd, SweepAbort, PurgeQdrant, PurgeLightrag

(* A row of a listing is the current version of a document.                *)
LEMMA ListingIs ==
    \A r \in Listing : /\ r.id \in Page(NewerThan(fan.wm), paper, PageSize, fan.page)
                       /\ r.id \in Docs /\ paper[r.id] # 0 /\ paper[r.id] > fan.wm
                       /\ r.mod = paper[r.id] /\ (r.long <=> r.id \notin short)
                       /\ r = [id |-> r.id, mod |-> r.mod, long |-> r.long]
<1> SUFFICES ASSUME NEW r \in Listing
             PROVE  /\ r.id \in Page(NewerThan(fan.wm), paper, PageSize, fan.page)
                    /\ r.id \in Docs /\ paper[r.id] # 0 /\ paper[r.id] > fan.wm
                    /\ r.mod = paper[r.id] /\ (r.long <=> r.id \notin short)
                    /\ r = [id |-> r.id, mod |-> r.mod, long |-> r.long]
  OBVIOUS
<1>1. PICK d \in Page(NewerThan(fan.wm), paper, PageSize, fan.page) :
         r = [id |-> d, mod |-> paper[d], long |-> d \notin short]
  BY DEF Listing
<1>2. r.id = d /\ r.mod = paper[d] /\ (r.long <=> d \notin short)
  BY <1>1
<1>3. d \in Docs /\ paper[d] # 0 /\ paper[d] > fan.wm
  BY DEF Page, NewerThan, Live
<1>4. QED
  BY <1>1, <1>2, <1>3

(* Whether a row's text is long enough is known.                           *)
LEMMA ListingLong == \A r \in Listing : r.long \in BOOLEAN
<1> SUFFICES ASSUME NEW r \in Listing PROVE r.long \in BOOLEAN
  OBVIOUS
<1>1. PICK d : r = [id |-> d, mod |-> paper[d], long |-> d \notin short]
  BY DEF Listing
<1>2. r.long = (d \notin short)
  BY <1>1
<1>3. QED
  BY <1>2

(* Timestamps stay unique and are never ahead of the clock.                *)
LEMMA StampsStep ==
    ASSUME Typed, Stamps, [Next]_vars
    PROVE  Stamps'
<1>a. /\ paper \in [Docs -> Versions] /\ qdrant \in [Docs -> Versions] /\ clock \in Versions
      /\ fan \in FanRun /\ Versions \subseteq Nat /\ 0 \in Versions
  BY VersionsAssumption DEF Typed, TypeOK, Versions
<1>b. /\ fan.wm \in Nat /\ fan.batch \subseteq Rows
      /\ \A r \in Rows : r.mod \in Nat
  BY <1>a DEF FanRun, Rows
<1>1. CASE UNCHANGED <<paper, short, clock>>
  <2>1. \A d \in Docs : qdrant'[d] <= clock
    <3>1. CASE FanUpsert
      <4>1. Row.id \in Docs /\ Row.mod <= clock
        BY <1>a, <3>1, RowIs DEF FanUpsert, Typed, InHand, Submitting, Stamps
      <4>2. QED
        BY <1>a, <3>1, <4>1 DEF FanUpsert, Stamps
    <3>2. CASE FanUnindex \/ PurgeQdrant
      BY <1>a, <3>2 DEF FanUnindex, PurgeQdrant, Stamps
    <3>3. CASE UNCHANGED qdrant
      BY <3>3 DEF Stamps
    <3>4. QED
      BY <3>1, <3>2, <3>3, CopiesStep
  <2>2. Watermark <= clock
    BY <1>a, WatermarkIs DEF Stamps
  <2>3. fan'.wm <= clock
    BY <1>a, <2>2, RowsStep DEF Stamps
  <2>4. \A r \in fan'.batch : r.mod <= clock
    <3>1. \A r \in Listing : r.mod <= clock
      BY ListingIs DEF Stamps
    <3>2. QED
      BY <3>1, RowsStep DEF Stamps
  <2>5. QED
    BY <1>1, <2>1, <2>3, <2>4 DEF Stamps
<1>2. ASSUME UNCHANGED <<qdrant, fan>>, NEW d \in Docs, Write(d)
      PROVE  Stamps'
  <2>1. clock' = clock + 1 /\ paper'[d] = clock + 1
        /\ \A e \in Docs \ {d} : paper'[e] = paper[e]
    BY <1>2, <1>a DEF Write
  <2>a. \A e \in Docs : /\ paper[e] \in Nat /\ qdrant[e] \in Nat /\ clock \in Nat
                        /\ paper[e] <= clock /\ qdrant[e] <= clock
    BY <1>a DEF Stamps
  <2>2. \A e \in Docs : paper'[e] <= clock' /\ qdrant'[e] <= clock'
    BY <1>2, <2>1, <2>a
  <2>3. fan'.wm <= clock' /\ \A r \in fan'.batch : r.mod <= clock'
    BY <1>2, <1>a, <1>b, <2>1 DEF Stamps
  <2>4. \A e, f \in Docs : paper'[e] = paper'[f] /\ paper'[e] # 0 => e = f
    BY <1>a, <2>1 DEF Stamps
  <2>5. QED
    BY <2>2, <2>3, <2>4 DEF Stamps
<1>3. ASSUME UNCHANGED <<qdrant, fan>>, NEW d \in Docs, Delete(d)
      PROVE  Stamps'
  <2>1. clock' = clock /\ paper'[d] = 0 /\ \A e \in Docs \ {d} : paper'[e] = paper[e]
    BY <1>3, <1>a DEF Delete
  <2>2. \A e \in Docs : paper'[e] <= clock'
    BY <1>a, <2>1 DEF Stamps
  <2>3. QED
    BY <1>3, <2>1, <2>2 DEF Stamps
<1>4. QED
  BY <1>1, <1>2, <1>3, PaperStep

-----------------------------------------------------------------------------
(* The watermark.                                                          *)

(* An edit or a deletion of the user makes no document look processed.     *)
LEMMA FaithfulToUser ==
    ASSUME Typed, Stamps, Complete, FromWatermark, fan.pc \in Working => Fresh /\ Ordered,
           UNCHANGED <<qdrant, offered, purged, fan>>,
           NEW d \in Docs, Write(d) \/ Delete(d)
    PROVE  (Complete /\ FromWatermark /\ (fan.pc \in Working => Fresh /\ Ordered))'
<1>a. /\ paper \in [Docs -> Versions] /\ qdrant \in [Docs -> Versions] /\ clock \in Nat
      /\ short \subseteq Docs /\ Versions \subseteq Nat
      /\ fan.wm \in Nat /\ fan.batch \subseteq Rows /\ \A r \in Rows : r.id \in Docs /\ r.mod \in Nat
  BY VersionsAssumption DEF Typed, TypeOK, FanRun, Versions, Rows
<1>1. /\ \A e \in Docs \ {d} : paper'[e] = paper[e] /\ (e \in short' <=> e \in short)
      /\ paper'[d] = 0 \/ paper'[d] = clock + 1
  BY <1>a DEF Write, Delete
<1>b. \A e \in Wanted' : e \in Docs /\ paper'[e] \in Nat
  <2>1. \A e \in Docs : paper[e] \in Nat
    BY <1>a
  <2>2. \A e \in Docs : paper'[e] = paper[e] \/ paper'[e] \in {0, clock + 1}
    BY <1>1
  <2>3. QED
    BY <1>a, <2>1, <2>2 DEF Wanted, Live
<1>2. \A e \in Wanted' : (e \in Wanted /\ paper'[e] = paper[e]) \/ paper'[e] > clock
  BY <1>1, <1>a DEF Wanted, Live
<1>3. Complete'
  <2> SUFFICES ASSUME NEW e \in Wanted', NEW f \in Docs, paper'[e] <= qdrant[f]
               PROVE  e \in purged \/ (qdrant[e] = paper'[e] /\ offered[e] = paper'[e])
    BY DEF Complete, Done
  <2>1. qdrant[f] <= clock /\ qdrant[f] \in Nat
    BY <1>a DEF Stamps
  <2>2. e \in Wanted /\ paper'[e] = paper[e]
    BY <1>2, <1>a, <1>b, <2>1
  <2>3. QED
    BY <2>2 DEF Complete, Done
<1>4. FromWatermark'
  <2> SUFFICES ASSUME fan.pc = "list", NEW e \in Wanted', paper'[e] <= fan.wm
               PROVE  e \in purged \/ (qdrant[e] = paper'[e] /\ offered[e] = paper'[e])
    BY DEF FromWatermark, Done
  <2>1. e \in Wanted /\ paper'[e] = paper[e]
    BY <1>2, <1>a, <1>b DEF Stamps
  <2>2. QED
    BY <2>1 DEF FromWatermark, Done
<1>5. ASSUME fan.pc \in Working PROVE Fresh'
  <2> SUFFICES ASSUME NEW r \in fan.batch
               PROVE  /\ paper'[r.id] = r.mod => (r.long <=> r.id \notin short')
                      /\ \A q \in fan.batch : paper'[r.id] \in {0, r.mod} \/ paper'[r.id] > q.mod
    BY DEF Fresh
  <2>1. r.id \in Docs /\ r.mod \in Nat /\ r.mod <= clock /\ \A q \in fan.batch : q.mod \in Nat /\ q.mod <= clock
    BY <1>a DEF Stamps
  <2>2. r.mod # 0
    BY <1>a DEF Rows
  <2>3. CASE r.id = d
    BY <1>a, <1>1, <2>1, <2>2, <2>3
  <2>4. CASE r.id # d
    BY <1>1, <1>5, <2>1, <2>4 DEF Fresh
  <2>5. QED
    BY <2>3, <2>4
<1>6. ASSUME fan.pc \in Working PROVE Ordered'
  <2> SUFFICES ASSUME NEW r \in fan.batch, NEW e \in Wanted', paper'[e] <= r.mod
               PROVE  \/ e \in purged \/ (qdrant[e] = paper'[e] /\ offered[e] = paper'[e])
                      \/ [id |-> e, mod |-> paper'[e], long |-> TRUE] \in fan.batch
    BY <1>6 DEF Ordered, Done, Pending
  <2>1. r.mod <= clock /\ r.mod \in Nat
    BY <1>a DEF Stamps
  <2>2. e \in Wanted /\ paper'[e] = paper[e]
    BY <1>2, <1>a, <1>b, <2>1
  <2>3. QED
    BY <1>6, <2>2 DEF Ordered, Done, Pending
<1>7. QED
  BY <1>3, <1>4, <1>5, <1>6

(* A page of the oldest documents holds whatever is older than one of them. *)
LEMMA FirstPageIsOldest ==
    ASSUME NEW S \in SUBSET Docs, NEW key \in [Docs -> Nat], NEW n \in Nat,
           NEW d \in Page(S, key, n, 1), NEW e \in S, key[e] <= key[d]
    PROVE  e \in Page(S, key, n, 1)
<1> DEFINE Upto(x) == {y \in S : key[y] <= key[x]}
<1>1. IsFiniteSet(S) /\ d \in S
  BY DocsAssumption, FS_Subset DEF Page
<1>2. /\ IsFiniteSet(Upto(d)) /\ IsFiniteSet(Upto(e))
      /\ Cardinality(Upto(d)) \in Nat /\ Cardinality(Upto(e)) \in Nat
  BY <1>1, FS_Subset, FS_CardinalityType
<1>3. Upto(e) \in SUBSET Upto(d)
  <2>1. \A y \in S : key[y] \in Nat /\ key[e] \in Nat /\ key[d] \in Nat
    BY <1>1
  <2>2. QED
    BY <2>1
<1>4. Cardinality(Upto(e)) <= Cardinality(Upto(d))
  BY <1>2, <1>3, FS_Subset
<1>5. e \in Upto(e)
  OBVIOUS
<1>6. Cardinality(Upto(e)) # 0
  BY <1>2, <1>5, FS_EmptySet
<1>7. Cardinality(Upto(d)) <= n
  BY DEF Page, Rank
<1> HIDE DEF Upto
<1>8. Cardinality(Upto(e)) > 0 /\ Cardinality(Upto(e)) <= n
  BY <1>2, <1>4, <1>6, <1>7
<1>9. QED
  BY <1>8 DEF Page, Rank, Upto

(* A first page read from the watermark on leaves nothing older out.       *)
LEMMA FaithfulListing ==
    ASSUME Typed, Stamps, FromWatermark, fan.pc = "list", fan.page = 1,
           UNCHANGED <<paper, short, qdrant, offered, purged>>, fan'.batch = Listing
    PROVE  Fresh' /\ Ordered'
<1>a. /\ paper \in [Docs -> Nat] /\ qdrant \in [Docs -> Nat] /\ fan.wm \in Nat /\ PageSize \in Nat
  BY VersionsAssumption, SizesAssumption DEF Typed, TypeOK, Versions
<1>b. \A r \in Listing : /\ r.id \in Docs /\ r.mod = paper[r.id] /\ r.mod > fan.wm
                         /\ (r.long <=> r.id \notin short)
                         /\ r.id \in Page(NewerThan(fan.wm), paper, PageSize, 1)
  BY ListingIs
<1>1. Fresh'
  BY <1>b DEF Fresh
<1>2. ASSUME NEW r \in Listing, NEW q \in Listing, r.mod = q.mod
      PROVE  r = q
  <2>1. r.id = q.id
    BY <1>2, ListingIs DEF Stamps
  <2>2. r.long = q.long
    <3>1. r.long \in BOOLEAN /\ q.long \in BOOLEAN
      BY ListingLong
    <3>2. QED
      BY <1>b, <2>1, <3>1
  <2>3. QED
    BY <1>2, <2>1, <2>2, ListingIs
<1>3. ASSUME NEW r \in Listing, NEW e \in Docs
      PROVE  qdrant[e] < r.mod
  BY <1>a, <1>b DEF FromWatermark
<1>4. ASSUME NEW r \in Listing, NEW d \in Wanted, paper[d] <= r.mod
      PROVE  Done(d) \/ [id |-> d, mod |-> paper[d], long |-> TRUE] \in Listing
  <2>1. d \in Docs /\ d \in Live /\ d \notin short
    BY DEF Wanted, Live
  <2>2. CASE paper[d] <= fan.wm
    BY <2>2 DEF FromWatermark
  <2>3. CASE paper[d] > fan.wm
    <3>1. d \in NewerThan(fan.wm) /\ NewerThan(fan.wm) \in SUBSET Docs
      BY <2>1, <2>3 DEF NewerThan, Live
    <3>2. d \in Page(NewerThan(fan.wm), paper, PageSize, 1)
      BY <1>4, <1>a, <1>b, <3>1, FirstPageIsOldest
    <3>3. [id |-> d, mod |-> paper[d], long |-> d \notin short] \in Listing
      BY <3>2 DEF Listing
    <3>4. (d \notin short) = TRUE
      BY <2>1
    <3>5. QED
      BY <3>3, <3>4
  <2>4. QED
    BY <1>a, <2>1, <2>2, <2>3
<1>5. Wanted' = Wanted
  BY DEF Wanted, Live
<1>6. Ordered'
  BY <1>2, <1>3, <1>4, <1>5 DEF Ordered, Done, Pending
<1>7. QED
  BY <1>1, <1>6

(* Of the document in hand, Qdrant and the batch have no later version.    *)
LEMMA InHandIs ==
    ASSUME Typed, Fresh, Ordered, fan.batch # {}, Row.id \in Wanted
    PROVE  /\ paper[Row.id] = Row.mod \/ \A q \in fan.batch : paper[Row.id] > q.mod
           /\ \A e \in Docs : qdrant[e] < paper[Row.id]
<1>1. Row \in fan.batch /\ Row.id \in Docs /\ Row.mod \in Nat
  BY RowIs, VersionsAssumption DEF Typed, Versions
<1>2. paper[Row.id] # 0 /\ paper[Row.id] \in Nat /\ \A e \in Docs : qdrant[e] \in Nat
  BY <1>1, VersionsAssumption DEF Wanted, Live, Typed, TypeOK, Versions
<1>3. paper[Row.id] = Row.mod \/ \A q \in fan.batch : paper[Row.id] > q.mod
  BY <1>1, <1>2 DEF Fresh
<1>4. \A e \in Docs : qdrant[e] < Row.mod
  BY <1>1 DEF Ordered
<1>5. QED
  BY <1>1, <1>2, <1>3, <1>4

(* Handing a document to LightRAG, skipping one that is too short, deleting *)
(* its points and upserting the new ones keep the watermark.               *)
LEMMA FaithfulCopy ==
    ASSUME Typed, Stamps, Complete, Fresh, Ordered, fan.batch # {}, UNCHANGED <<paper, short>>,
           \/ /\ Row.long /\ fan'.batch = fan.batch /\ UNCHANGED <<qdrant, purged>>
              /\ offered' = [offered EXCEPT ![Row.id] = Row.mod]
           \/ ~Row.long /\ fan'.batch = fan.batch \ {Row} /\ UNCHANGED <<qdrant, offered, purged>>
           \/ /\ Row.long /\ fan'.batch = fan.batch /\ UNCHANGED <<offered, purged>>
              /\ qdrant' = [qdrant EXCEPT ![Row.id] = 0]
           \/ /\ fan'.batch = fan.batch \ {Row} /\ UNCHANGED offered /\ offered[Row.id] = Row.mod
              /\ qdrant' = [qdrant EXCEPT ![Row.id] = Row.mod] /\ purged' = purged \ {Row.id}
    PROVE  Complete' /\ Fresh' /\ Ordered'
<1>a. /\ paper \in [Docs -> Nat] /\ qdrant \in [Docs -> Nat] /\ offered \in [Docs -> Nat]
      /\ Wanted' = Wanted /\ Wanted \subseteq Docs
  BY VersionsAssumption DEF Typed, TypeOK, Versions, Wanted, Live
<1>b. /\ Row \in fan.batch /\ Row.id \in Docs /\ Row.mod \in Nat /\ Row.mod # 0
      /\ \A q \in fan.batch : Row.mod <= q.mod /\ q.mod \in Nat
  BY RowIs, VersionsAssumption DEF Typed, Versions, FanRun, Rows
<1>c. Row = [id |-> Row.id, mod |-> Row.mod, long |-> Row.long] /\ Row.long \in BOOLEAN
  <2>1. Row \in Rows
    BY <1>b DEF Typed, TypeOK
  <2>2. QED
    BY <2>1, Zenon DEF Rows
<1>d. Row.id \in Wanted =>
         /\ paper[Row.id] = Row.mod \/ \A q \in fan.batch : paper[Row.id] > q.mod
         /\ \A e \in Docs : qdrant[e] < paper[Row.id]
  BY InHandIs
<1>e. \A d \in Wanted : paper[d] <= Row.mod /\ Pending(d) => d = Row.id
  <2> SUFFICES ASSUME NEW d \in Wanted, paper[d] <= Row.mod, Pending(d)
               PROVE  d = Row.id
    OBVIOUS
  <2> DEFINE q == [id |-> d, mod |-> paper[d], long |-> TRUE]
  <2>1. q \in fan.batch /\ q.mod = paper[d] /\ q.id = d
    BY DEF Pending
  <2> HIDE DEF q
  <2>2. Row.mod = q.mod
    BY <1>a, <1>b, <2>1
  <2>3. QED
    BY <1>b, <2>1, <2>2 DEF Ordered
<1>f. fan'.batch \subseteq fan.batch
  OBVIOUS
<1>1. Fresh'
  BY <1>f DEF Fresh
<1>2. \A d \in Docs \ {Row.id} : Done(d) => Done(d)'
  BY <1>a DEF Done
<1>3. ASSUME NEW d \in Wanted, d # Row.id, Pending(d)
      PROVE  Pending(d)'
  <2> DEFINE q == [id |-> d, mod |-> paper[d], long |-> TRUE]
  <2>1. q \in fan.batch /\ q.id = d
    BY <1>3 DEF Pending
  <2> HIDE DEF q
  <2>2. q # Row
    BY <1>3, <2>1
  <2>3. q \in fan'.batch
    BY <2>1, <2>2
  <2>4. QED
    BY <2>3 DEF Pending, q
<1>4. ASSUME NEW d \in Wanted, d = Row.id, paper[d] = Row.mod
      PROVE  Done(d)' \/ (fan'.batch = fan.batch /\ Pending(d)')
  <2>1. Row.long
    BY <1>4, <1>b DEF Fresh, Wanted
  <2>2. CASE fan'.batch = fan.batch
    <3>1. Row = [id |-> d, mod |-> paper[d], long |-> TRUE]
      BY <1>4, <1>c, <2>1
    <3>2. [id |-> d, mod |-> paper[d], long |-> TRUE] \in fan'.batch
      BY <1>b, <2>2, <3>1
    <3>3. QED
      BY <2>2, <3>2 DEF Pending
  <2>3. CASE offered[Row.id] = Row.mod /\ UNCHANGED offered
             /\ qdrant' = [qdrant EXCEPT ![Row.id] = Row.mod]
    BY <1>4, <1>a, <1>b, <2>3 DEF Done
  <2>4. QED
    BY <2>1, <2>2, <2>3
<1>5. Complete'
  <2> SUFFICES ASSUME NEW d \in Wanted, NEW e \in Docs, paper[d] <= qdrant'[e]
               PROVE  Done(d)'
    BY <1>a DEF Complete
  <2>1. CASE qdrant'[e] <= qdrant[e]
    <3>1. paper[d] <= qdrant[e] /\ qdrant[e] \in Nat /\ paper[d] \in Nat
      <4>1. qdrant'[e] \in Nat
        BY <1>a, <1>b
      <4>2. QED
        BY <1>a, <2>1, <4>1
    <3>2. Done(d)
      BY <3>1 DEF Complete
    <3>3. d # Row.id
      BY <1>d, <3>1
    <3>4. QED
      BY <1>2, <1>a, <3>2, <3>3
  <2>2. CASE e = Row.id /\ qdrant'[e] = Row.mod /\ fan'.batch = fan.batch \ {Row}
    <3>1. CASE d = Row.id
      <4>1. paper[Row.id] = Row.mod
        BY <1>a, <1>b, <1>d, <2>2, <3>1
      <4>2. fan'.batch # fan.batch
        BY <1>b, <2>2
      <4>3. QED
        BY <1>4, <3>1, <4>1, <4>2
    <3>2. CASE d # Row.id
      <4>1. Done(d) \/ Pending(d)
        BY <1>b, <2>2 DEF Ordered
      <4>2. QED
        BY <1>2, <1>a, <1>e, <2>2, <3>2, <4>1
    <3>3. QED
      BY <3>1, <3>2
  <2>3. QED
    BY <1>a, <1>b, <2>1, <2>2
<1>6. ASSUME NEW r \in fan'.batch, NEW e \in Docs
      PROVE  qdrant'[e] < r.mod
  <2>1. r \in fan.batch /\ qdrant[e] < r.mod /\ r.mod \in Nat /\ Row.mod <= r.mod
    BY <1>b, <1>f DEF Ordered
  <2>2. r # Row => Row.mod # r.mod
    BY <1>b, <2>1 DEF Ordered
  <2>3. CASE UNCHANGED qdrant \/ qdrant' = [qdrant EXCEPT ![Row.id] = 0]
    BY <1>a, <1>b, <2>1, <2>3
  <2>4. CASE qdrant' = [qdrant EXCEPT ![Row.id] = Row.mod] /\ fan'.batch = fan.batch \ {Row}
    BY <1>a, <1>b, <2>1, <2>2, <2>4
  <2>5. QED
    BY <2>3, <2>4
<1>7. ASSUME NEW r \in fan'.batch, NEW d \in Wanted, paper[d] <= r.mod
      PROVE  Done(d)' \/ Pending(d)'
  <2>1. r \in fan.batch /\ r.mod \in Nat /\ paper[d] \in Nat
    BY <1>a, <1>b, <1>f
  <2>2. CASE d = Row.id
    BY <1>4, <1>7, <1>d, <2>1, <2>2
  <2>3. CASE d # Row.id
    BY <1>2, <1>3, <1>7, <1>a, <2>1, <2>3 DEF Ordered
  <2>4. QED
    BY <2>2, <2>3
<1>8. Ordered'
  <2>1. \A r, q \in fan'.batch : r.mod = q.mod => r = q
    BY <1>f DEF Ordered
  <2>2. QED
    BY <1>6, <1>7, <1>a, <2>1 DEF Ordered
<1>9. QED
  BY <1>1, <1>5, <1>8

(* While no run turns a page the watermark stays faithful.                 *)
LEMMA FaithfulStep ==
    ASSUME Inv, [Next]_vars, fan.page = 1, fan'.page = 1
    PROVE  Faithful'
<1> SUFFICES ASSUME Sighted'
             PROVE  (Complete /\ FromWatermark /\ (fan.pc \in Working => Fresh /\ Ordered))'
  BY DEF Faithful
<1>a. Typed /\ Stamps /\ Complete /\ FromWatermark /\ (fan.pc \in Working => Fresh /\ Ordered)
  BY FaultsStep DEF Inv, Faithful
<1>b. /\ fan \in FanRun /\ faults \in [Faults -> Nat] /\ InHand /\ qdrant \in [Docs -> Versions]
      /\ Wanted \subseteq Docs /\ paper \in [Docs -> Versions] /\ Versions \subseteq Nat
  BY <1>a, VersionsAssumption DEF Typed, TypeOK, Wanted, Live, Versions
<1>1. CASE UNCHANGED <<qdrant, offered, purged, fan>> /\ \E d \in Docs : Write(d) \/ Delete(d)
  BY <1>1, <1>a, FaithfulToUser
<1>2. CASE UNCHANGED <<paper, short>>
  <2>a. Wanted' = Wanted
    BY <1>2 DEF Wanted, Live
  <2>b. ASSUME UNCHANGED <<qdrant, offered, purged>>
        PROVE  Complete'
    BY <1>2, <1>a, <2>a, <2>b DEF Complete, Done
  <2>c. ASSUME fan'.pc # "list", Complete', fan'.pc \in Working => (Fresh /\ Ordered)'
        PROVE  (Complete /\ FromWatermark /\ (fan.pc \in Working => Fresh /\ Ordered))'
    BY <2>c DEF FromWatermark
  <2>1. CASE UNCHANGED <<qdrant, offered, purged>> /\ fan' = IdleFan
    BY <1>b, <2>1, <2>b, <2>c, FanMoves DEF Working, Submitting
  <2>2. CASE UNCHANGED <<qdrant, offered, purged>> /\ SameRows
             /\ (fan'.pc = fan.pc \/ (fan.pc \in Working /\ fan'.pc \in Working))
    <3>1. FromWatermark'
      BY <1>2, <1>a, <2>2, <2>a DEF FromWatermark, Done, SameRows, Working, Submitting
    <3>2. ASSUME fan'.pc \in Working PROVE Fresh' /\ Ordered'
      BY <1>2, <1>a, <2>2, <2>a, <3>2 DEF Fresh, Ordered, Done, Pending, SameRows
    <3>3. QED
      BY <2>2, <2>b, <3>1, <3>2
  <2>3. CASE FanStart
    <3>1. fan'.pc = "list" /\ fan'.wm = Watermark /\ UNCHANGED <<qdrant, offered, purged>>
      BY <1>b, <2>3, FanMoves DEF FanStart, services
    <3>2. \A e \in Docs : qdrant[e] <= Watermark
      BY <1>b, WatermarkIs
    <3>3. ASSUME NEW d \in Wanted, paper[d] <= Watermark PROVE Done(d)
      <4>1. paper[d] # 0 /\ paper[d] \in Nat
        BY <1>b DEF Wanted, Live
      <4>2. QED
        BY <1>a, <1>b, <3>3, <4>1, WatermarkIs DEF Complete
    <3>4. FromWatermark'
      BY <1>2, <2>a, <3>1, <3>2, <3>3 DEF FromWatermark, Done
    <3>5. QED
      BY <2>b, <3>1, <3>4 DEF Working, Submitting
  <2>4. CASE FanStartBlind
    <3>1. faults'["scroll"] # 0
      BY <1>b, <2>4 DEF FanStartBlind, Suffer, Faults
    <3>2. QED
      BY <3>1 DEF Sighted
  <2>5. CASE FanList /\ fan' # IdleFan
    <3>1. fan.pc = "list" /\ UNCHANGED <<qdrant, offered, purged>>
      BY <2>5 DEF FanList, services
    <3>2. fan'.pc = "map" /\ fan'.batch = Listing
      BY <1>b, <2>5, FanMoves
    <3>3. Fresh' /\ Ordered'
      BY <1>2, <1>a, <3>1, <3>2, FaithfulListing
    <3>4. QED
      BY <2>b, <2>c, <3>1, <3>2, <3>3
  <2>6. CASE /\ FanNext /\ fan' # IdleFan
    <3>1. fan.pc \in Working /\ UNCHANGED <<qdrant, purged>>
      BY <2>6 DEF FanNext, services, Working
    <3>2. fan'.pc # "list" /\ fan.batch # {}
      BY <1>b, <2>6, FanMoves
    <3>3. Complete' /\ Fresh' /\ Ordered'
      BY <1>2, <1>a, <1>b, <2>6, <3>1, <3>2, FanMoves, FaithfulCopy DEF SameRows
    <3>4. QED
      BY <2>c, <3>2, <3>3
  <2>7. CASE FanUnindex \/ FanUpsert
    <3>1. fan.pc \in Submitting /\ UNCHANGED offered
      BY <2>7 DEF FanUnindex, FanUpsert, Submitting
    <3>2. fan.batch # {} /\ Row.long /\ offered[Row.id] = Row.mod /\ Fresh /\ Ordered
      BY <1>a, <1>b, <3>1 DEF InHand, Working
    <3>3. \/ /\ fan'.batch = fan.batch /\ qdrant' = [qdrant EXCEPT ![Row.id] = 0]
             /\ UNCHANGED purged
          \/ /\ fan'.batch = fan.batch \ {Row} /\ qdrant' = [qdrant EXCEPT ![Row.id] = Row.mod]
             /\ purged' = purged \ {Row.id}
      BY <1>b, <2>7, FanMoves DEF FanUnindex, FanUpsert, SameRows
    <3>4. Complete' /\ Fresh' /\ Ordered'
      BY <1>2, <1>a, <3>1, <3>2, <3>3, FaithfulCopy
    <3>5. fan'.pc # "list"
      BY <1>b, <2>7, FanMoves DEF Submitting
    <3>6. QED
      BY <2>c, <3>4, <3>5
  <2>8. CASE FanMap
    BY <1>b, <2>2, <2>8, FanMoves DEF FanMap, services, Working
  <2>9. CASE FanSubmit \/ FanDelete \/ FanWait \/ FanInsert \/ FanLightragError
    <3>1. UNCHANGED <<qdrant, offered, purged>>
      BY <2>9 DEF FanSubmit, FanDelete, FanWait, FanInsert, FanLightragError, services
    <3>2. QED
      BY <1>b, <2>2, <2>9, <3>1, FanMoves DEF Working
  <2>10. CASE UNCHANGED <<qdrant, offered, purged, fan>>
    BY <2>2, <2>10 DEF SameRows
  <2>11. CASE FanAbort \/ ((FanList \/ FanNext) /\ fan' = IdleFan)
    <3>1. UNCHANGED <<qdrant, offered, purged>> /\ fan' = IdleFan
      BY <1>b, <2>11, FanMoves, CopiesStep DEF FanAbort, FanList, services, FanNext
    <3>2. QED
      BY <2>1, <3>1
  <2>12. CASE "qdrant" \in Sweeps /\ PurgeQdrant
    <3>1. PICK d \in tomb["qdrant"].orphans :
             qdrant' = [qdrant EXCEPT ![d] = 0] /\ purged' = purged \cup ({d} \cap Live)
      BY <2>12 DEF PurgeQdrant
    <3>2. UNCHANGED <<offered, fan>>
      BY <2>12 DEF PurgeQdrant
    <3>3. \A e \in Docs : qdrant[e] \in Nat /\ (qdrant'[e] = qdrant[e] \/ qdrant'[e] = 0)
      BY <1>b, <3>1
    <3>4. \A e \in Wanted : paper[e] \in Nat /\ paper[e] # 0 /\ (Done(e) => Done(e)')
      BY <1>2, <1>b, <3>1, <3>2 DEF Wanted, Live, Done
    <3>5. Complete'
      BY <1>2, <1>a, <2>a, <3>3, <3>4 DEF Complete
    <3>6. FromWatermark'
      <4>1. fan.wm \in Nat
        BY <1>b DEF FanRun
      <4>2. ASSUME fan.pc = "list", NEW e \in Docs PROVE qdrant'[e] <= fan.wm
        BY <1>a, <3>3, <4>1, <4>2 DEF FromWatermark
      <4>3. QED
        BY <1>2, <1>a, <2>a, <3>2, <3>4, <4>2 DEF FromWatermark
    <3>7. ASSUME fan.pc \in Working PROVE Fresh' /\ Ordered'
      <4>1. Fresh'
        BY <1>2, <1>a, <3>2, <3>7 DEF Fresh
      <4>2. ASSUME NEW r \in fan.batch, NEW e \in Docs PROVE qdrant'[e] < r.mod
        <5>1. r.mod \in Nat /\ r.mod # 0
          BY <1>b DEF FanRun, Rows
        <5>2. QED
          BY <1>a, <3>3, <3>7, <5>1 DEF Ordered
      <4>3. QED
        BY <1>2, <1>a, <2>a, <3>2, <3>4, <3>7, <4>1, <4>2 DEF Ordered, Pending
    <3>8. QED
      BY <3>2, <3>5, <3>6, <3>7
  <2>13. QED
    BY <2>3, <2>4, <2>5, <2>6, <2>7, <2>8, <2>9, <2>10, <2>11, <2>12
       DEF Next, vars, services, FanStep, SweepStep, Write, Delete, PipelineDeletes, PipelineIdles,
           SweepStart, SweepLivePage, SweepIndexed, SweepEnd, SweepAbort, PurgeLightrag
<1>3. QED
  BY <1>1, <1>2, PaperStep

-----------------------------------------------------------------------------
(* The sweeps.                                                             *)

\* The sweep asks Paperless for an order, or has not needed a second page.
Sorted(s) == s = "lightrag" \/ tomb[s].page = 1

\* What such a sweep knows of the documents that were there when it began: while
\* it lists, each one was listed or is on a page to come; then all were listed;
\* and no orphan is one of them.
Spares(s) ==
    Sorted(s) =>
        /\ tomb[s].pc = "live" =>
             /\ tomb[s].present \subseteq Live
             /\ \A d \in tomb[s].present :
                  d \in tomb[s].live \/ Rank(Live, Ids, d) > (tomb[s].page - 1) * TombPage
        /\ tomb[s].pc = "indexed" => tomb[s].present \subseteq tomb[s].live
        /\ tomb[s].orphans \cap tomb[s].present = {}

SweepInv == Typed /\ \A s \in Sweeps : Spares(s)

(* New documents only push a document back, and none comes after the last. *)
LEMMA RankGrows ==
    ASSUME NEW S \in SUBSET Docs, NEW T \in SUBSET S, NEW d \in Docs
    PROVE  /\ Rank(T, Ids, d) \in Nat /\ Rank(S, Ids, d) \in Nat /\ Cardinality(S) \in Nat
           /\ Rank(T, Ids, d) <= Rank(S, Ids, d) /\ Rank(S, Ids, d) <= Cardinality(S)
<1> DEFINE InS == {e \in S : Ids[e] <= Ids[d]}
           InT == {e \in T : Ids[e] <= Ids[d]}
<1>1. IsFiniteSet(S) /\ InS \in SUBSET S /\ InT \in SUBSET InS
  BY DocsAssumption, FS_Subset
<1>2. IsFiniteSet(InS) /\ IsFiniteSet(InT) /\ Cardinality(S) \in Nat
  BY <1>1, FS_Subset, FS_CardinalityType
<1>3. /\ Cardinality(InS) \in Nat /\ Cardinality(InT) \in Nat
      /\ Cardinality(InT) <= Cardinality(InS) /\ Cardinality(InS) <= Cardinality(S)
  BY <1>1, <1>2, FS_Subset, FS_CardinalityType
<1>4. QED
  BY <1>2, <1>3 DEF Rank

(* A page sorted by id holds every document of its ranks, and a page that  *)
(* is the first and the last holds all there are, in whatever order.       *)
LEMMA ShownIs ==
    ASSUME NEW s \in Sweeps, NEW p \in Nat \ {0}, NEW shown \in LivePages(s, p)
    PROVE  /\ s = "lightrag" => shown = Page(Live, Ids, TombPage, p)
           /\ p = 1 /\ ~HasNext(Live, TombPage, p) => shown = Live
<1> DEFINE byId == Page(Live, Ids, TombPage, p)
<1>a. Live \in SUBSET Docs /\ IsFiniteSet(Live) /\ Cardinality(Live) \in Nat /\ TombPage \in Nat
  BY DocsAssumption, SizesAssumption, FS_Subset, FS_CardinalityType DEF Live
<1>1. shown = byId \/ (shown \in SUBSET Live /\ Cardinality(shown) = Cardinality(byId))
  BY DEF LivePages
<1>2. s = "lightrag" => shown = byId
  BY DEF LivePages
<1>3. ASSUME p = 1, ~HasNext(Live, TombPage, p) PROVE byId = Live
  <2>1. Cardinality(Live) <= TombPage
    BY <1>3, <1>a DEF HasNext
  <2>2. ASSUME NEW d \in Live PROVE Rank(Live, Ids, d) > 0 /\ Rank(Live, Ids, d) <= TombPage
    <3> DEFINE Upto == {e \in Live : Ids[e] <= Ids[d]}
    <3>1. d \in Upto /\ Upto \in SUBSET Live
      BY DocsAssumption, <1>a DEF Ids
    <3>2. IsFiniteSet(Upto) /\ Cardinality(Upto) <= Cardinality(Live)
      BY <1>a, <3>1, FS_Subset
    <3>3. Cardinality(Upto) \in Nat /\ Cardinality(Upto) # 0
      BY <3>1, <3>2, FS_CardinalityType, FS_EmptySet
    <3> HIDE DEF Upto
    <3>4. Cardinality(Upto) > 0 /\ Cardinality(Upto) <= TombPage
      BY <1>a, <2>1, <3>2, <3>3
    <3>5. QED
      BY <3>4 DEF Rank, Upto
  <2>3. (p - 1) * TombPage = 0 /\ p * TombPage = TombPage
    BY <1>3, <1>a
  <2>4. QED
    BY <2>2, <2>3 DEF Page
<1>4. QED
  BY <1>1, <1>2, <1>3, <1>a, FS_Subset

(* A page of a listing that no deletion disturbed misses no document that  *)
(* was there from the start.                                               *)
LEMMA PageSpares ==
    ASSUME SweepInv, NEW s \in Sweeps, SweepLivePage(s), tomb'[s] # IdleTomb
    PROVE  Spares(s)'
<1> DEFINE t == tomb[s]
           more == HasNext(Live, TombPage, t.page)
           next == IF more THEN t.page + 1 ELSE t.page
           pc == IF more THEN "live" ELSE "indexed"
<1>a. /\ t \in TombRun /\ tomb \in [Sweeps -> TombRun] /\ t.page \in Nat \ {0}
      /\ TombPage \in Nat /\ Live \in SUBSET Docs /\ t.pc = "live"
  BY SizesAssumption DEF SweepInv, Typed, SweepLivePage, TombRun, Live
<1>1. UNCHANGED paper /\ \E shown \in LivePages(s, t.page) :
         tomb'[s] = [t EXCEPT !.live = @ \cup shown, !.page = next, !.pc = pc]
  BY <1>a DEF SweepLivePage, user
<1> HIDE DEF next, pc
<1>2. PICK shown \in LivePages(s, t.page) :
         /\ tomb'[s].live = t.live \cup shown /\ tomb'[s].page = next /\ tomb'[s].pc = pc
         /\ tomb'[s].present = t.present /\ tomb'[s].orphans = t.orphans
  BY <1>1, <1>a DEF TombRun
<1>3. Live' = Live
  BY <1>1 DEF Live
<1> SUFFICES ASSUME Sorted(s)'
             PROVE  /\ pc = "live" =>
                         /\ t.present \subseteq Live
                         /\ \A d \in t.present : \/ d \in t.live \cup shown
                                                 \/ Rank(Live, Ids, d) > (next - 1) * TombPage
                    /\ pc = "indexed" => t.present \subseteq t.live \cup shown
                    /\ t.orphans \cap t.present = {}
  BY <1>2, <1>3 DEF Spares, Rank
<1>4. Sorted(s)
  BY <1>2, <1>a DEF Sorted, next
<1>5. /\ t.present \subseteq Live /\ t.orphans \cap t.present = {}
      /\ \A d \in t.present : d \in t.live \/ Rank(Live, Ids, d) > (t.page - 1) * TombPage
  BY <1>4, <1>a DEF SweepInv, Spares
<1>6. ASSUME s = "lightrag", NEW d \in t.present, d \notin t.live \cup shown
      PROVE  Rank(Live, Ids, d) > t.page * TombPage
  <2>1. d \in Live /\ d \in Docs /\ Rank(Live, Ids, d) \in Nat /\ t.page * TombPage \in Nat
    BY <1>5, <1>6, <1>a, RankGrows
  <2>2. Rank(Live, Ids, d) > (t.page - 1) * TombPage
    BY <1>5, <1>6
  <2>3. ~(Rank(Live, Ids, d) <= t.page * TombPage)
    BY <1>6, <2>1, <2>2, ShownIs, <1>a DEF Page
  <2>4. QED
    BY <2>1, <2>3
<1>7. CASE more
  <2>1. next - 1 = t.page /\ pc = "live" /\ next # 1
    BY <1>7, <1>a DEF next, pc
  <2>2. s = "lightrag"
    BY <1>2, <2>1 DEF Sorted
  <2>3. QED
    BY <1>5, <1>6, <2>1, <2>2
<1>8. CASE ~more
  <2>1. pc = "indexed" /\ next = t.page
    BY <1>8 DEF pc, next
  <2>2. ASSUME NEW d \in t.present, d \notin t.live \cup shown PROVE FALSE
    <3>1. CASE s = "lightrag"
      <4>1. Rank(Live, Ids, d) > t.page * TombPage /\ t.page * TombPage \in Nat
        BY <1>6, <1>a, <2>2, <3>1
      <4>2. /\ Rank(Live, Ids, d) <= Cardinality(Live)
            /\ Cardinality(Live) \in Nat /\ Rank(Live, Ids, d) \in Nat
        BY <1>5, <1>a, <2>2, RankGrows
      <4>3. QED
        BY <1>8, <4>1, <4>2 DEF HasNext
    <3>2. CASE t.page = 1
      BY <1>5, <1>8, <1>a, <2>2, <3>2, ShownIs
    <3>3. QED
      BY <1>4, <3>1, <3>2 DEF Sorted
  <2>3. QED
    BY <1>5, <2>1, <2>2
<1>9. QED
  BY <1>7, <1>8

(* A sweep goes on sparing what it found.                                  *)
LEMMA SparesStep ==
    ASSUME SweepInv, [Next]_vars, NEW s \in Sweeps
    PROVE  Spares(s)'
<1> DEFINE t == tomb[s]
<1>a. /\ t \in TombRun /\ tomb \in [Sweeps -> TombRun] /\ paper \in [Docs -> Versions]
      /\ Spares(s) /\ Live \in SUBSET Docs
  BY DEF SweepInv, Typed, TypeOK, Live
<1>b. ASSUME tomb'[s] = IdleTomb PROVE Spares(s)'
  BY <1>b DEF Spares, IdleTomb
<1>e. ASSUME tomb'[s].page = t.page PROVE Sorted(s)' = Sorted(s)
  BY <1>e DEF Sorted
<1>c. ASSUME tomb'[s] = t, Live \subseteq Live', Live' \in SUBSET Docs PROVE Spares(s)'
  <2>1. ASSUME t.pc = "live", Sorted(s)
        PROVE  /\ t.present \subseteq Live'
               /\ \A d \in t.present :
                    d \in t.live \/ Rank(Live', Ids, d) > (t.page - 1) * TombPage
    <3> SUFFICES ASSUME NEW d \in t.present, d \notin t.live
                 PROVE  Rank(Live', Ids, d) > (t.page - 1) * TombPage
      BY <1>a, <1>c, <2>1 DEF Spares
    <3>1. d \in Docs /\ (t.page - 1) * TombPage \in Nat
      BY <1>a, SizesAssumption DEF TombRun
    <3>2. Rank(Live, Ids, d) > (t.page - 1) * TombPage
      BY <1>a, <2>1 DEF Spares
    <3>3. /\ Rank(Live, Ids, d) \in Nat /\ Rank(Live', Ids, d) \in Nat
          /\ Rank(Live, Ids, d) <= Rank(Live', Ids, d)
      BY <1>c, <3>1, RankGrows
    <3>4. QED
      BY <3>1, <3>2, <3>3
  <2>2. QED
    BY <1>a, <1>c, <1>e, <2>1 DEF Spares, Rank
<1>d. ASSUME UNCHANGED paper PROVE Live' = Live /\ Live \subseteq Live' /\ Live' \in SUBSET Docs
  BY <1>a, <1>d DEF Live
<1>1. CASE UNCHANGED <<paper, tomb>>
  BY <1>1, <1>c, <1>d
<1>2. ASSUME NEW d \in Docs, Write(d) PROVE Spares(s)'
  <2>1. clock + 1 # 0
    BY VersionsAssumption DEF SweepInv, Typed, TypeOK, Versions
  <2>2. Live \subseteq Live' /\ Live' \in SUBSET Docs /\ UNCHANGED tomb
    BY <1>2, <1>a, <2>1 DEF Write, Live
  <2>3. QED
    BY <1>c, <2>2
<1>3. ASSUME NEW d \in Docs, Delete(d) PROVE Spares(s)'
  <2> DEFINE left == IF t.pc = "live" THEN {} ELSE t.present \ {d}
  <2>1. tomb'[s] = [t EXCEPT !.present = left]
    BY <1>3 DEF Delete
  <2> HIDE DEF left
  <2>2. /\ tomb'[s].present = left /\ tomb'[s].pc = t.pc /\ tomb'[s].live = t.live
        /\ tomb'[s].orphans = t.orphans /\ tomb'[s].page = t.page
    BY <1>a, <2>1 DEF TombRun
  <2>3. left \subseteq t.present /\ (t.pc = "live" => left = {})
    BY DEF left
  <2>4. QED
    BY <1>a, <1>e, <2>2, <2>3 DEF Spares
<1>4. ASSUME NEW u \in Sweeps, u # s, SweepStep(u) \/ SweepAbort(u) PROVE Spares(s)'
  <2>1. tomb'[s] = t
    BY <1>4, <1>a DEF SweepStep, SweepStart, SweepLivePage, SweepIndexed, SweepEnd, SweepAbort,
                      PurgeQdrant, PurgeLightrag
  <2>2. UNCHANGED paper
    BY <1>4 DEF SweepStep, SweepStart, SweepLivePage, SweepIndexed, SweepEnd, SweepAbort,
                PurgeQdrant, PurgeLightrag, user
  <2>3. QED
    BY <1>c, <1>d, <2>1, <2>2
<1>5. CASE SweepStart(s)
  <2>1. tomb'[s] = [IdleTomb EXCEPT !.pc = "live", !.present = Live] /\ UNCHANGED paper
    BY <1>5, <1>a DEF SweepStart, user
  <2>2. /\ tomb'[s].pc = "live" /\ tomb'[s].present = Live /\ tomb'[s].page = 1
        /\ tomb'[s].orphans = {}
    BY <2>1 DEF IdleTomb
  <2>3. ASSUME NEW d \in Live PROVE Rank(Live, Ids, d) > 0
    <3> DEFINE Upto == {e \in Live : Ids[e] <= Ids[d]}
    <3>1. d \in Upto /\ Upto \in SUBSET Live
      BY DocsAssumption, <1>a DEF Ids
    <3>2. IsFiniteSet(Upto)
      BY <1>a, <3>1, DocsAssumption, FS_Subset
    <3>3. Cardinality(Upto) \in Nat /\ Cardinality(Upto) # 0
      BY <3>1, <3>2, FS_CardinalityType, FS_EmptySet
    <3>4. QED
      BY <3>3 DEF Rank
  <2>4. (1 - 1) * TombPage = 0
    BY SizesAssumption
  <2>5. QED
    BY <1>d, <2>1, <2>2, <2>3, <2>4 DEF Spares, Rank
<1>6. CASE SweepLivePage(s)
  BY <1>6, <1>b, PageSpares
<1>7. CASE SweepIndexed(s)
  <2>1. tomb'[s] = [t EXCEPT !.orphans = Orphans(s), !.live = {}, !.pc = "purge"]
    BY <1>7, <1>a DEF SweepIndexed
  <2>2. /\ tomb'[s].pc = "purge" /\ tomb'[s].present = t.present /\ tomb'[s].page = t.page
        /\ tomb'[s].orphans = Orphans(s)
    BY <1>a, <2>1 DEF TombRun
  <2>3. Sorted(s) => Orphans(s) \cap t.present = {}
    BY <1>7, <1>a DEF SweepIndexed, Orphans, Spares
  <2>4. QED
    BY <1>e, <2>2, <2>3 DEF Spares
<1>8. ASSUME NEW S, t.pc = "purge", tomb' = [tomb EXCEPT ![s].orphans = @ \ S]
      PROVE  Spares(s)'
  <2>1. tomb'[s] = [t EXCEPT !.orphans = @ \ S]
    BY <1>8, <1>a
  <2>2. /\ tomb'[s].pc = "purge" /\ tomb'[s].present = t.present /\ tomb'[s].page = t.page
        /\ tomb'[s].orphans = t.orphans \ S
    BY <1>8, <1>a, <2>1 DEF TombRun
  <2>3. QED
    BY <1>a, <1>e, <2>2 DEF Spares
<1>9. CASE (s = "qdrant" /\ PurgeQdrant) \/ (s = "lightrag" /\ PurgeLightrag)
  BY <1>8, <1>9 DEF PurgeQdrant, PurgeLightrag
<1>10. CASE SweepEnd(s) \/ SweepAbort(s)
  BY <1>10, <1>a, <1>b DEF SweepEnd, SweepAbort
<1>11. QED
  BY <1>1, <1>2, <1>3, <1>4, <1>5, <1>6, <1>7, <1>9, <1>10
     DEF Next, vars, user, FanStep, SweepStep, PipelineDeletes, PipelineIdles, FanStart, FanList,
         FanMap, FanNext, FanSubmit, FanDelete, FanWait, FanInsert, FanUnindex, FanUpsert,
         FanStartBlind, FanLightragError, FanAbort

-----------------------------------------------------------------------------

(* The initial state is of its type.                                       *)
LEMMA InitTyped ==
    ASSUME Init
    PROVE  Typed /\ clock \in Versions /\ \A d \in Docs : Corpus[d] <= clock /\ Indexed[d] <= clock
<1> DEFINE S == {0} \cup {Corpus[d] : d \in Docs} \cup {Indexed[d] : d \in Docs}
<1>1. S \in SUBSET (0..MaxClock) /\ S # {} /\ MaxClock \in Nat
  BY VersionsAssumption
<1>2. Maximum(S) \in S /\ \A k \in S : k <= Maximum(S)
  BY <1>1, MaximumIs
<1>3. clock \in Versions /\ \A d \in Docs : Corpus[d] <= clock /\ Indexed[d] <= clock
  BY <1>1, <1>2 DEF Init, Versions
<1>4. /\ paper \in [Docs -> Versions] /\ short \subseteq Docs /\ gone \subseteq Docs
      /\ qdrant \in [Docs -> Versions] /\ lightrag \in [Docs -> Versions]
      /\ busy \in BOOLEAN /\ dying \subseteq Docs /\ purged \subseteq Docs
      /\ offered \in [Docs -> Versions]
  BY VersionsAssumption DEF Init, Versions
<1>5. fan \in FanRun /\ IdleTomb \in TombRun
  BY SizesAssumption, VersionsAssumption DEF Init, IdleFan, IdleTomb, FanRun, TombRun, Versions
<1>6. tomb \in [Sweeps -> TombRun]
  BY <1>5 DEF Init
<1>7. /\ fan.pc \in {"idle", "list", "map", "doc", "submit", "delete", "wait", "insert",
                      "index", "upsert"}
      /\ fan.wm \in Versions /\ fan.page \in Nat \ {0} /\ fan.batch \subseteq Rows
      /\ fan.more \in BOOLEAN /\ fan.existing \subseteq Docs /\ fan.processed \in 0..MaxDocs
  BY <1>5 DEF FanRun, Working, Submitting
<1>8. \A s \in Sweeps :
         /\ tomb[s].pc \in {"idle", "live", "indexed", "purge"}
         /\ tomb[s].page \in Nat \ {0}
         /\ tomb[s].present \subseteq Docs /\ tomb[s].live \subseteq Docs
         /\ tomb[s].orphans \subseteq Docs
  BY <1>6 DEF TombRun
<1>9. faults \in [Faults -> Nat] /\ \A k \in Faults : faults[k] \in 0..MaxFaults
  BY SizesAssumption DEF Init
<1>10. TypeOK
  BY <1>3, <1>4, <1>7, <1>8, <1>9 DEF TypeOK
<1>11. InHand
  BY DEF Init, InHand, IdleFan, Submitting
<1>12. QED
  BY <1>3, <1>5, <1>6, <1>9, <1>10, <1>11 DEF Typed

(* The initial index is complete below its watermark.                      *)
LEMMA InitSound ==
    ASSUME Init
    PROVE  Inv /\ SweepInv
<1>1. Stamps
  <2>1. \A d, e \in Docs : paper[d] = paper[e] /\ paper[d] # 0 => d = e
    BY VersionsAssumption DEF Init
  <2>2. fan.wm = 0 /\ fan.batch = {}
    BY DEF Init, IdleFan
  <2>3. 0 <= clock
    BY InitTyped, VersionsAssumption DEF Versions
  <2>4. QED
    BY <2>1, <2>2, <2>3, InitTyped DEF Stamps, Init
<1>2. Complete
  BY IndexedAssumption DEF Complete, Done, Wanted, Live, Init
<1>3. Faithful
  BY <1>2 DEF Faithful, FromWatermark, Init, IdleFan, Working, Submitting
<1>4. \A s \in Sweeps : Spares(s)
  BY DEF Spares, Init, IdleTomb
<1>5. QED
  BY <1>1, <1>3, <1>4, InitTyped DEF Inv, SweepInv

(* The property TLC checks, from the invariant.                            *)
LEMMA InvIsSound ==
    ASSUME Inv
    PROVE  WatermarkSound
<1>1. Sighted => \A d \in Wanted : paper[d] <= Watermark => Done(d)
  <2> SUFFICES ASSUME Sighted, NEW d \in Wanted, paper[d] <= Watermark
               PROVE  Done(d)
    OBVIOUS
  <2>1. paper[d] # 0 /\ paper[d] \in Nat
    BY VersionsAssumption DEF Inv, Typed, TypeOK, Versions, Wanted, Live
  <2>2. Watermark = 0 \/ \E e \in Docs : Watermark = qdrant[e]
    BY WatermarkIs DEF Inv, Typed, TypeOK
  <2>3. QED
    BY <2>1, <2>2 DEF Inv, Faithful, Complete
<1>2. QED
  BY <1>1 DEF Inv, Typed, WatermarkSound, WatermarkComplete, WatermarkOffered, Done

(* paperless-rag-fanout.ts:85-159: while no run turns a page, nothing at or *)
(* below the maximum last_modified in Qdrant was left out of Qdrant or      *)
(* withheld from LightRAG, whatever the user edits, wherever runs are cut   *)
(* off and whatever the sweeps do, but for what a sweep wrongly removed.    *)
THEOREM WatermarkHolds == Spec /\ [](fan.page = 1) => []WatermarkSound
<1>1. Init => Inv
  BY InitSound
<1>2. Inv /\ fan.page = 1 /\ (fan.page = 1)' /\ [Next]_vars => Inv'
  BY TypeStep, StampsStep, FaithfulStep DEF Inv
<1>3. Inv => WatermarkSound
  BY InvIsSound
<1>4. QED
  BY <1>1, <1>2, <1>3, PTL DEF Spec

-----------------------------------------------------------------------------
(* No run turns a page.                                                    *)

(* A page of the oldest documents that has a next one is full.             *)
LEMMA FirstPageIsFull ==
    ASSUME NEW S \in SUBSET Docs, NEW key \in [Docs -> Nat], NEW n \in Nat,
           \A d, e \in S : key[d] = key[e] => d = e,
           HasNext(S, n, 1)
    PROVE  Cardinality(Page(S, key, n, 1)) >= n
<1> DEFINE P == Page(S, key, n, 1)
           Upto(x) == {y \in S : key[y] <= key[x]}
<1>1. /\ IsFiniteSet(S) /\ P \in SUBSET S /\ IsFiniteSet(P)
      /\ Cardinality(S) \in Nat /\ Cardinality(P) \in Nat
  <2>1. IsFiniteSet(S) /\ P \in SUBSET S
    BY DocsAssumption, FS_Subset DEF Page
  <2>2. QED
    BY <2>1, FS_Subset, FS_CardinalityType
<1>2. Cardinality(S) > n
  BY DEF HasNext
<1> HIDE DEF P
<1>3. CASE S \subseteq P
  <2>1. S = P
    BY <1>1, <1>3
  <2>2. QED
    BY <1>1, <1>2, <2>1 DEF P
<1>4. CASE ~(S \subseteq P)
  <2> DEFINE K == {key[y] : y \in S \ P}
  <2>1. K \in SUBSET Nat /\ K # {}
    BY <1>4
  <2>2. PICK m \in K : \A k \in K : m <= k
    BY <2>1, SmallestNumber
  <2>3. PICK x \in S \ P : \A y \in S \ P : key[x] <= key[y]
    BY <2>2
  <2>4. Upto(x) \in SUBSET (P \cup {x})
    <3> SUFFICES ASSUME NEW y \in Upto(x), y \notin P PROVE y = x
      OBVIOUS
    <3>1. key[x] \in Nat /\ key[y] \in Nat /\ key[x] <= key[y] /\ key[y] <= key[x]
      BY <2>3
    <3>2. QED
      BY <3>1
  <2>5. IsFiniteSet(P \cup {x}) /\ Cardinality(P \cup {x}) = Cardinality(P) + 1
    BY <1>1, <2>3, FS_AddElement
  <2>6. /\ Cardinality(Upto(x)) \in Nat /\ IsFiniteSet(Upto(x))
        /\ Cardinality(Upto(x)) <= Cardinality(P) + 1
    BY <2>4, <2>5, FS_Subset, FS_CardinalityType
  <2>7. Cardinality(Upto(x)) # 0
    <3>1. x \in Upto(x)
      BY <2>3
    <3>2. QED
      BY <2>6, <3>1, FS_EmptySet
  <2> HIDE DEF Upto
  <2>8. ~(Cardinality(Upto(x)) > (1 - 1) * n /\ Cardinality(Upto(x)) <= 1 * n)
    BY <2>3 DEF P, Page, Rank, Upto
  <2>9. Cardinality(Upto(x)) > n
    BY <2>6, <2>7, <2>8
  <2>10. QED
    BY <1>1, <2>6, <2>9 DEF P
<1>5. QED
  BY <1>3, <1>4

\* The texts of the batch that are long enough.
LongRows == {r \in fan.batch : r.long}

\* The documents that are too short, and MAX_DOCS_PER_RUN others, do not fill a
\* page of the listing.
FewShort == Cardinality(short) + MaxDocs < PageSize

\* A page that has a next one holds more texts than the run may still embed.
Enough ==
    /\ Typed /\ Stamps /\ fan.page = 1 /\ IsFiniteSet(fan.batch)
    /\ fan.more => Cardinality(LongRows) + fan.processed > MaxDocs

(* A full first page holds more than MAX_DOCS_PER_RUN long texts.          *)
LEMMA ListingIsEnough ==
    ASSUME Typed, Stamps, fan.page = 1, FewShort
    PROVE  /\ IsFiniteSet(Listing)
           /\ HasNext(NewerThan(fan.wm), PageSize, 1) => Cardinality({r \in Listing : r.long}) > MaxDocs
<1> DEFINE newer == NewerThan(fan.wm)
           P == Page(newer, paper, PageSize, 1)
           row(d) == [id |-> d, mod |-> paper[d], long |-> d \notin short]
           long == {r \in Listing : r.long}
<1>a. /\ paper \in [Docs -> Nat] /\ short \in SUBSET Docs /\ newer \in SUBSET Docs
      /\ \A d \in newer : paper[d] # 0
      /\ PageSize \in Nat /\ MaxDocs \in Nat
  BY VersionsAssumption, SizesAssumption DEF Typed, TypeOK, Versions, NewerThan, Live
<1>b. P \in SUBSET Docs
  BY <1>a DEF Page
<1>c. IsFiniteSet(P) /\ IsFiniteSet(short) /\ Cardinality(P) \in Nat /\ Cardinality(short) \in Nat
  BY <1>a, <1>b, DocsAssumption, FS_Subset, FS_CardinalityType
<1>d. Listing = {row(d) : d \in P}
  BY DEF Listing
<1> HIDE DEF P
<1>1. IsFiniteSet(Listing)
  <2> DEFINE f == [d \in P |-> row(d)]
  <2>1. f \in Surjection(P, Listing)
    BY <1>d DEF Surjection
  <2> HIDE DEF f
  <2>2. QED
    BY <1>c, <2>1, FS_Surjection
<1>2. IsFiniteSet(long) /\ Cardinality(long) \in Nat
  <2>1. long \in SUBSET Listing
    OBVIOUS
  <2>2. QED
    BY <1>1, <2>1, FS_Subset, FS_CardinalityType
<1>3. Cardinality(P \ short) <= Cardinality(long)
  <2> DEFINE g == [r \in long |-> r.id]
  <2>1. \A r \in long : r.id \in P \ short
    BY ListingIs DEF P
  <2>2. ASSUME NEW d \in P \ short PROVE row(d) \in long /\ row(d).id = d
    BY <1>d
  <2>3. g \in Surjection(long, P \ short)
    <3> HIDE DEF long
    <3>1. g \in [long -> P \ short]
      BY <2>1
    <3>2. \A d \in P \ short : \E r \in long : g[r] = d
      BY <2>2
    <3>3. QED
      BY <3>1, <3>2 DEF Surjection
  <2> HIDE DEF g, long
  <2>4. QED
    BY <1>2, <2>3, FS_Surjection
<1>4. Cardinality(P \ short) >= Cardinality(P) - Cardinality(short)
  <2>1. P \cap short \in SUBSET short
    OBVIOUS
  <2>2. Cardinality(P \cap short) \in Nat /\ Cardinality(P \cap short) <= Cardinality(short)
    BY <1>c, <2>1, FS_Subset, FS_CardinalityType
  <2>3. Cardinality(P \ short) = Cardinality(P) - Cardinality(P \cap short)
    BY <1>c, FS_Difference
  <2>4. QED
    BY <1>c, <2>2, <2>3
<1>5. ASSUME HasNext(newer, PageSize, 1) PROVE Cardinality(P) >= PageSize
  <2>1. \A d, e \in newer : paper[d] = paper[e] => d = e
    BY <1>a DEF Stamps
  <2> HIDE DEF newer
  <2>2. QED
    BY <1>5, <1>a, <2>1, FirstPageIsFull DEF P
<1>6. Cardinality(P \ short) \in Nat
  BY <1>c, FS_Difference, FS_CardinalityType
<1> HIDE DEF long
<1>7. HasNext(newer, PageSize, 1) => Cardinality(long) > MaxDocs
  BY <1>2, <1>3, <1>4, <1>5, <1>6, <1>a, <1>c DEF FewShort
<1>8. QED
  BY <1>1, <1>7 DEF long

(* A run reaches its cap before the end of a page that has a next one.     *)
LEMMA EnoughStep ==
    ASSUME Enough, [Next]_vars, FewShort
    PROVE  Enough'
<1>a. /\ fan \in FanRun /\ InHand /\ MaxDocs \in Nat /\ fan.processed \in 0..MaxDocs
      /\ IdleFan.page = 1 /\ IdleFan.more = FALSE /\ IdleFan.batch = {}
  BY SizesAssumption DEF Enough, Typed, IdleFan, FanRun
<1>b. IsFiniteSet({}) /\ Typed' /\ Stamps'
  BY TypeStep, StampsStep, FS_EmptySet DEF Enough
<1>c. IsFiniteSet(LongRows) /\ Cardinality(LongRows) \in Nat
  <2>1. LongRows \in SUBSET fan.batch
    BY DEF LongRows
  <2>2. QED
    BY <2>1, FS_Subset, FS_CardinalityType DEF Enough
<1>1. ASSUME fan'.batch = fan.batch, fan'.processed = fan.processed, fan'.page = fan.page,
             fan'.more = fan.more
      PROVE  Enough'
  BY <1>1, <1>b DEF Enough, LongRows
<1>2. CASE FanList
  <2> DEFINE rows == Listing
             more == HasNext(NewerThan(fan.wm), PageSize, fan.page)
  <2>1. fan' = IdleFan \/ fan' = [fan EXCEPT !.pc = "map", !.batch = rows, !.more = more]
    BY <1>2 DEF FanList, Listing, Enough
  <2>2. IsFiniteSet(rows) /\ (more => Cardinality({r \in rows : r.long}) > MaxDocs)
    BY ListingIsEnough DEF Enough
  <2> HIDE DEF rows, more
  <2>3. CASE fan' = IdleFan
    BY <1>a, <1>b, <2>3 DEF Enough
  <2>4. CASE fan' = [fan EXCEPT !.pc = "map", !.batch = rows, !.more = more]
    <3>1. fan'.batch = rows /\ fan'.more = more /\ fan'.page = 1 /\ fan'.processed = fan.processed
      BY <1>a, <2>4 DEF FanRun, Enough
    <3>2. IsFiniteSet({r \in rows : r.long}) /\ Cardinality({r \in rows : r.long}) \in Nat
      <4>1. {r \in rows : r.long} \in SUBSET rows
        OBVIOUS
      <4>2. QED
        BY <2>2, <4>1, FS_Subset, FS_CardinalityType
    <3>3. more => Cardinality({r \in rows : r.long}) + fan.processed > MaxDocs
      BY <1>a, <2>2, <3>2
    <3>4. QED
      BY <1>b, <2>2, <3>1, <3>3 DEF Enough, LongRows
  <2>5. QED
    BY <2>1, <2>3, <2>4
<1>3. CASE FanStart \/ FanStartBlind
  <2>1. fan'.batch = {} /\ fan'.page = 1 /\ fan'.more = FALSE
    BY <1>3 DEF FanStart, FanStartBlind, IdleFan
  <2>2. QED
    BY <1>b, <2>1 DEF Enough
<1>4. CASE fan' = IdleFan
  BY <1>4, <1>a, <1>b DEF Enough
<1>5. ASSUME fan.batch # {}, ~Row.long, fan' = [fan EXCEPT !.batch = @ \ {Row}]
      PROVE  Enough'
  <2>1. /\ fan'.batch = fan.batch \ {Row} /\ fan'.page = fan.page /\ fan'.more = fan.more
        /\ fan'.processed = fan.processed
    BY <1>5, <1>a DEF FanRun
  <2>2. {r \in fan.batch \ {Row} : r.long} = LongRows
    BY <1>5 DEF LongRows
  <2>3. IsFiniteSet(fan.batch \ {Row})
    BY FS_RemoveElement DEF Enough
  <2>4. QED
    BY <1>b, <2>1, <2>2, <2>3 DEF Enough, LongRows
<1>6. CASE FanNext
  <2>1. CASE fan.batch = {}
    <3>1. LongRows = {}
      BY <2>1 DEF LongRows
    <3>2. ~fan.more
      BY <1>a, <3>1, FS_EmptySet DEF Enough
    <3>3. fan' = IdleFan
      BY <1>6, <2>1, <3>2 DEF FanNext
    <3>4. QED
      BY <1>4, <3>3
  <2>2. CASE fan.batch # {}
    <3>1. \/ fan' = IdleFan
          \/ fan' = [fan EXCEPT !.batch = @ \ {Row}] /\ ~Row.long
          \/ fan' = [fan EXCEPT !.pc = "submit"]
      BY <1>6, <2>2 DEF FanNext
    <3>2. ASSUME fan' = [fan EXCEPT !.pc = "submit"]
          PROVE  /\ fan'.batch = fan.batch /\ fan'.processed = fan.processed
                 /\ fan'.page = fan.page /\ fan'.more = fan.more
      BY <3>2, <1>a DEF FanRun
    <3>3. QED
      BY <1>1, <1>4, <1>5, <2>2, <3>1, <3>2
  <2>3. QED
    BY <2>1, <2>2
<1>7. CASE FanMap \/ FanSubmit \/ FanDelete \/ FanWait \/ FanInsert \/ FanUnindex \/ FanLightragError
  <2>1. /\ fan'.batch = fan.batch /\ fan'.processed = fan.processed
        /\ fan'.page = fan.page /\ fan'.more = fan.more
    BY <1>7, <1>a
       DEF FanMap, FanSubmit, FanDelete, FanWait, FanInsert, FanUnindex, FanLightragError, FanRun
  <2>2. QED
    BY <1>1, <2>1
<1>8. CASE FanUpsert
  <2>1. fan.batch # {} /\ Row.long /\ Row \in fan.batch
    BY <1>8, <1>a, RowIs DEF FanUpsert, InHand, Submitting
  <2>2. /\ fan'.batch = fan.batch \ {Row} /\ fan'.page = fan.page /\ fan'.more = fan.more
        /\ fan'.processed = fan.processed + 1
    BY <1>8, <1>a DEF FanUpsert, FanRun
  <2>3. {r \in fan.batch \ {Row} : r.long} = LongRows \ {Row} /\ Row \in LongRows
    BY <2>1 DEF LongRows
  <2>4. IsFiniteSet(fan.batch \ {Row}) /\ Cardinality(LongRows \ {Row}) = Cardinality(LongRows) - 1
    BY <1>c, <2>3, FS_RemoveElement DEF Enough
  <2>5. Cardinality(LongRows \ {Row}) + (fan.processed + 1) = Cardinality(LongRows) + fan.processed
    BY <1>a, <1>c, <2>4
  <2>6. QED
    BY <1>b, <2>2, <2>3, <2>4, <2>5 DEF Enough, LongRows
<1>9. CASE UNCHANGED fan
  BY <1>1, <1>9
<1>10. QED
  BY <1>2, <1>3, <1>4, <1>6, <1>7, <1>8, <1>9
     DEF Next, vars, FanStep, SweepStep, Write, Delete, PipelineDeletes, PipelineIdles, FanAbort,
         SweepStart, SweepLivePage, SweepIndexed, SweepEnd, SweepAbort, PurgeQdrant, PurgeLightrag

(* paperless-rag-fanout.ts:53-54, 85-159: however large the archive and     *)
(* whatever the sweeps do, if the documents too short to index and          *)
(* MAX_DOCS_PER_RUN more do not fill a page of the listing (fewer than 30   *)
(* short ones with PAGE_SIZE = 50 and MAX_DOCS_PER_RUN = 20), then nothing  *)
(* at or below the watermark was left out, but for what a Qdrant sweep      *)
(* wrongly removed or a failed scroll upset: a run stops at its cap before  *)
(* it turns a page.                                                        *)
THEOREM WatermarkHoldsWithFewShort == Spec /\ []FewShort => []WatermarkSound
<1>1. Init => Enough
  <2> SUFFICES ASSUME Init PROVE Enough
    OBVIOUS
  <2>1. fan.page = 1 /\ fan.more = FALSE /\ fan.batch = {}
    BY DEF Init, IdleFan
  <2>2. Typed /\ Stamps
    BY InitSound DEF Inv
  <2>3. QED
    BY <2>1, <2>2, FS_EmptySet DEF Enough
<1>2. Enough /\ FewShort /\ [Next]_vars => Enough'
  BY EnoughStep
<1>3. Enough => fan.page = 1
  BY DEF Enough
<1>4. QED
  BY <1>1, <1>2, <1>3, WatermarkHolds, PTL DEF Spec

(* paperless-rag-tombstone.ts, lightrag-rag-tombstone.ts: for any page size *)
(* and whatever is added meanwhile, a sweep condemns no document that       *)
(* Paperless has had since before the sweep began, if none was deleted      *)
(* while it listed.  Of the Qdrant sweep, which asks for no order, this     *)
(* holds only if Paperless fits in one page.                               *)
THEOREM SweepsSpare == Spec => []SweepSparesPresent
<1>1. Init => SweepInv
  BY InitSound
<1>2. SweepInv /\ [Next]_vars => SweepInv'
  <2> SUFFICES ASSUME SweepInv, [Next]_vars PROVE SweepInv'
    OBVIOUS
  <2>1. Typed'
    BY TypeStep DEF SweepInv
  <2>2. \A s \in Sweeps : Spares(s)'
    BY SparesStep
  <2>3. QED
    BY <2>1, <2>2 DEF SweepInv
<1>3. SweepInv => SweepSparesPresent
  BY DEF SweepInv, Spares, Sorted, SweepSparesPresent
<1>4. QED
  BY <1>1, <1>2, <1>3, PTL DEF Spec
=============================================================================
