---------------------------- MODULE RagPipeline ----------------------------
(***************************************************************************)
(* The Windmill scripts that keep two retrieval back ends in step with     *)
(* Paperless: paperless-rag-fanout copies every modified document to       *)
(* LightRAG and to Qdrant, and the two tombstone sweeps remove documents   *)
(* that Paperless no longer has.  The scripts share no state but the three *)
(* services; each HTTP call is a step, and the steps of the scripts, of    *)
(* LightRAG's background pipeline and of the Paperless user interleave.    *)
(*                                                                         *)
(* A version of a document is its `modified` timestamp, 0 for "absent".    *)
(***************************************************************************)
EXTENDS Naturals, FiniteSets

CONSTANTS
    Docs,          \* Paperless document ids
    Corpus,        \* the documents Paperless starts with: id -> modified
    Indexed,       \* what both back ends start with: id -> last_modified
    MaxClock,      \* bound on the `modified` timestamps issued
    PageSize,      \* PAGE_SIZE of the fan-out's document listing
    MaxDocs,       \* MAX_DOCS_PER_RUN
    TombPage,      \* PAGE_SIZE of the sweeps' document listing
    DeleteBatch,   \* DELETE_BATCH of the LightRAG sweep
    Sweeps,        \* the sweeps that are scheduled
    MaxFaults,     \* bound on the faults of all kinds: see Faults
    ShortTexts     \* may a document's text be shorter than MIN_TEXT_LEN?

\* A run that dies before its end, a LightRAG call that fails or a deletion that
\* takes over 30 s, and an error answer to the Qdrant scroll of readWatermark.
Faults == {"abort", "lightrag", "scroll"}

ASSUME DocsAssumption == Docs \subseteq Nat /\ IsFiniteSet(Docs)
ASSUME VersionsAssumption ==
    /\ MaxClock \in Nat
    /\ Corpus \in [Docs -> 0..MaxClock]
    /\ Indexed \in [Docs -> 0..MaxClock]
    /\ \A d, e \in Docs : Corpus[d] = Corpus[e] /\ Corpus[d] # 0 => d = e
\* Earlier runs left nothing out: what is at or below the watermark is indexed.
ASSUME IndexedAssumption ==
    \A d, e \in Docs : Corpus[d] # 0 /\ Corpus[d] <= Indexed[e] => Indexed[d] = Corpus[d]
ASSUME SizesAssumption ==
    /\ PageSize \in Nat \ {0} /\ TombPage \in Nat \ {0}
    /\ MaxDocs \in Nat \ {0} /\ DeleteBatch \in Nat \ {0}
    /\ MaxFaults \in Nat
ASSUME SwitchAssumption ==
    /\ Sweeps \subseteq {"qdrant", "lightrag"}
    /\ ShortTexts \in BOOLEAN

VARIABLES
    paper,     \* Paperless: the modified timestamp of each document, 0 if absent
    short,     \* Paperless: the documents whose text is too short to index
    gone,      \* Paperless: the documents deleted; an id is never reused
    clock,     \* the last timestamp issued
    qdrant,    \* Qdrant: last_modified of each document's points
    lightrag,  \* LightRAG: the version listed for each paperless:<id> source
    busy,      \* LightRAG: pipeline_status reports busy
    dying,     \* LightRAG: deletions accepted and not yet carried out
    purged,    \* history: see PurgeQdrant
    offered,   \* history: the last version handed to submitToLightrag
    fan,       \* the fan-out run
    tomb,      \* the sweeps' runs
    faults     \* the faults of each kind so far

services == <<qdrant, lightrag, busy, dying, purged>>
user == <<paper, short, gone, clock>>
vars == <<user, services, offered, fan, tomb, faults>>

Versions == 0..MaxClock

Live == {d \in Docs : paper[d] # 0}

Maximum(S) == CHOOSE m \in S : \A n \in S : n <= m

\* The position of d when the documents S are sorted by key.
Rank(S, key, d) == Cardinality({e \in S : key[e] <= key[d]})

\* Page number p of S, n documents to a page, sorted by key.
Page(S, key, n, p) == {d \in S : Rank(S, key, d) > (p - 1) * n /\ Rank(S, key, d) <= p * n}

\* The `next` link of page p.
HasNext(S, n, p) == Cardinality(S) > p * n

Suffer(k) ==
    /\ faults["abort"] + faults["lightrag"] + faults["scroll"] < MaxFaults
    /\ faults' = [faults EXCEPT ![k] = @ + 1]

IdleFan == [pc |-> "idle", wm |-> 0, page |-> 1, batch |-> {}, more |-> FALSE,
            existing |-> {}, processed |-> 0]

\* `present` is history: the documents Paperless has had since the sweep began,
\* none if one was deleted while the sweep was listing.
IdleTomb == [pc |-> "idle", page |-> 1, live |-> {}, orphans |-> {}, present |-> {}]

Init ==
    /\ paper = Corpus
    /\ short \in IF ShortTexts THEN SUBSET {d \in Docs : Corpus[d] # 0} ELSE {{}}
    /\ gone = {d \in Docs : Corpus[d] = 0 /\ Indexed[d] # 0}
    /\ clock = Maximum({0} \cup {Corpus[d] : d \in Docs} \cup {Indexed[d] : d \in Docs})
    /\ qdrant = Indexed
    /\ lightrag = Indexed
    /\ busy = FALSE
    /\ dying = {}
    /\ purged = {}
    /\ offered = Indexed
    /\ fan = IdleFan
    /\ tomb = [s \in Sweeps |-> IdleTomb]
    /\ faults = [k \in Faults |-> 0]

-----------------------------------------------------------------------------
(* The Paperless user.                                                     *)

\* A document is added or its text or metadata edited: a new timestamp.
Write(d) ==
    /\ clock < MaxClock
    /\ d \notin gone
    /\ clock' = clock + 1
    /\ paper' = [paper EXCEPT ![d] = clock + 1]
    /\ \/ short' = short \ {d}
       \/ ShortTexts /\ short' = short \cup {d}
    /\ UNCHANGED <<gone, services, offered, fan, tomb, faults>>

\* A document is deleted, possibly between two pages of a sweep's listing.
Delete(d) ==
    /\ d \in Live
    /\ paper' = [paper EXCEPT ![d] = 0]
    /\ short' = short \ {d}
    /\ gone' = gone \cup {d}
    /\ tomb' = [s \in Sweeps |->
                  [tomb[s] EXCEPT !.present = IF tomb[s].pc = "live" THEN {} ELSE @ \ {d}]]
    /\ UNCHANGED <<clock, services, offered, fan, faults>>

-----------------------------------------------------------------------------
(* LightRAG, as the scripts use it.                                        *)

\* DELETE /documents/delete_document is answered 200 and ignored while the
\* pipeline is busy; otherwise the deletion is queued and the pipeline busy.
AskDelete(S) ==
    LET known == {d \in S : lightrag[d] # 0}
    IN  IF busy \/ known = {}
          THEN UNCHANGED <<busy, dying>>
          ELSE busy' = TRUE /\ dying' = known

\* The pipeline carries out a queued deletion ...
PipelineDeletes ==
    /\ \E d \in dying :
         /\ lightrag' = [lightrag EXCEPT ![d] = 0]
         /\ dying' = dying \ {d}
    /\ UNCHANGED <<user, qdrant, busy, purged, offered, fan, tomb, faults>>

\* ... and reports idle when its deletions and extractions are done.
PipelineIdles ==
    /\ busy /\ dying = {}
    /\ busy' = FALSE
    /\ UNCHANGED <<user, qdrant, lightrag, dying, purged, offered, fan, tomb, faults>>

-----------------------------------------------------------------------------
(* paperless-rag-fanout.                                                   *)

\* max(last_modified) over the points of the collection.
Watermark == Maximum({0} \cup {qdrant[d] : d \in Docs})

\* main up to readWatermark.
FanStart ==
    /\ fan.pc = "idle"
    /\ fan' = [IdleFan EXCEPT !.pc = "list", !.wm = Watermark]
    /\ UNCHANGED <<user, services, offered, tomb, faults>>

\* readWatermark takes a failed scroll for an empty collection.
FanStartBlind ==
    /\ fan.pc = "idle"
    /\ Suffer("scroll")
    /\ fan' = [IdleFan EXCEPT !.pc = "list"]
    /\ UNCHANGED <<user, services, offered, tomb>>

\* modified__gt.
NewerThan(w) == {d \in Live : paper[d] > w}

\* paperlessList: a page of the documents modified after the watermark, oldest
\* first.  An empty first page ends the run; a later page that does not exist
\* any more is an error that ends it too.
FanList ==
    /\ fan.pc = "list"
    /\ LET newer == NewerThan(fan.wm)
           rows == {[id |-> d, mod |-> paper[d], long |-> d \notin short] :
                       d \in Page(newer, paper, PageSize, fan.page)}
       IN  fan' = IF rows = {}
                    THEN IdleFan
                    ELSE [fan EXCEPT !.pc = IF fan.page = 1 THEN "map" ELSE "doc",
                                     !.batch = rows,
                                     !.more = HasNext(newer, PageSize, fan.page)]
    /\ UNCHANGED <<user, services, offered, tomb, faults>>

\* lightragSourceMap, read once per run.
FanMap ==
    /\ fan.pc = "map"
    /\ fan' = [fan EXCEPT !.pc = "doc", !.existing = {d \in Docs : lightrag[d] # 0}]
    /\ UNCHANGED <<user, services, offered, tomb, faults>>

\* Mutant: the listing is sorted newest first.
RowNewest == CHOOSE x \in fan.batch : \A y \in fan.batch : x.mod >= y.mod

\* The row the loop is at: `for (const doc of list.results)`.
Row == CHOOSE x \in fan.batch : \A y \in fan.batch : x.mod <= y.mod

\* `processed >= MAX_DOCS_PER_RUN`.
Capped == fan.processed >= MaxDocs

\* The head of the two loops: next page, end of the run at MAX_DOCS_PER_RUN,
\* a text that is too short, or a document to submit.
FanNext ==
    /\ fan.pc = "doc"
    /\ \/ /\ fan.batch = {}
          /\ fan' = IF fan.more
                      THEN [fan EXCEPT !.pc = "list", !.page = @ + 1]
                      ELSE IdleFan
          /\ UNCHANGED offered
       \/ /\ fan.batch # {} /\ Capped
          /\ fan' = IdleFan
          /\ UNCHANGED offered
       \/ /\ fan.batch # {} /\ ~Capped /\ ~Row.long
          /\ fan' = [fan EXCEPT !.batch = @ \ {Row}]
          /\ UNCHANGED offered
       \/ /\ fan.batch # {} /\ ~Capped /\ Row.long
          /\ fan' = [fan EXCEPT !.pc = "submit"]
          /\ offered' = [offered EXCEPT ![Row.id] = Row.mod]
    /\ UNCHANGED <<user, services, tomb, faults>>

\* submitToLightrag: a known source is deleted first, unless pipelineBusy.
FanSubmit ==
    /\ fan.pc = "submit"
    /\ fan' = [fan EXCEPT !.pc = IF Row.id \notin fan.existing THEN "insert"
                                 ELSE IF busy THEN "index" ELSE "delete"]
    /\ UNCHANGED <<user, services, offered, tomb, faults>>

\* lightragDelete; a request that timed out may have been accepted.
FanDelete ==
    /\ fan.pc = "delete"
    /\ AskDelete({Row.id})
    /\ \/ /\ fan' = [fan EXCEPT !.pc = "wait"]
          /\ UNCHANGED faults
       \/ /\ Suffer("lightrag")
          /\ fan' = [fan EXCEPT !.pc = "index"]
    /\ UNCHANGED <<user, qdrant, lightrag, purged, offered, tomb>>

\* Mutant: the run does not wait for the deletion.
FanWaitNot ==
    /\ fan.pc = "wait"
    /\ fan' = [fan EXCEPT !.pc = "insert"]
    /\ UNCHANGED <<user, services, offered, tomb, faults>>

\* waitSourceAbsent: the source is gone, or 30 s have passed, which happens
\* for sure when LightRAG ignored the deletion.
FanWait ==
    /\ fan.pc = "wait"
    /\ \/ /\ lightrag[Row.id] = 0
          /\ fan' = [fan EXCEPT !.pc = "insert"]
          /\ UNCHANGED faults
       \/ /\ lightrag[Row.id] # 0
          /\ IF Row.id \in dying THEN Suffer("lightrag") ELSE UNCHANGED faults
          /\ fan' = [fan EXCEPT !.pc = "index"]
    /\ UNCHANGED <<user, services, offered, tomb>>

\* lightragInsert: refused with 409 while the source is listed.
FanInsert ==
    /\ fan.pc = "insert"
    /\ IF lightrag[Row.id] = 0
         THEN /\ lightrag' = [lightrag EXCEPT ![Row.id] = Row.mod]
              /\ busy' = TRUE
         ELSE UNCHANGED <<lightrag, busy>>
    /\ fan' = [fan EXCEPT !.pc = "index"]
    /\ UNCHANGED <<user, qdrant, dying, purged, offered, tomb, faults>>

\* An error of any LightRAG call is caught and the run goes on to Qdrant.
FanLightragError ==
    /\ Suffer("lightrag")
    /\ fan.pc \in {"submit", "delete", "wait", "insert"}
    /\ fan' = [fan EXCEPT !.pc = "index"]
    /\ UNCHANGED <<user, services, offered, tomb>>

\* ingestQdrant deletes the document's points ...
FanUnindex ==
    /\ fan.pc = "index"
    /\ qdrant' = [qdrant EXCEPT ![Row.id] = 0]
    /\ fan' = [fan EXCEPT !.pc = "upsert"]
    /\ UNCHANGED <<user, lightrag, busy, dying, purged, offered, tomb, faults>>

\* ... and, once every chunk is embedded, upserts the new ones.
FanUpsert ==
    /\ fan.pc = "upsert"
    /\ qdrant' = [qdrant EXCEPT ![Row.id] = Row.mod]
    /\ purged' = purged \ {Row.id}
    /\ fan' = [fan EXCEPT !.pc = "doc", !.batch = @ \ {Row}, !.processed = @ + 1]
    /\ UNCHANGED <<user, lightrag, busy, dying, offered, tomb, faults>>

\* The run dies between two calls: an exception of a Paperless, embedding or
\* Qdrant call, a worker that is killed.
FanAbort ==
    /\ fan.pc # "idle"
    /\ Suffer("abort")
    /\ fan' = IdleFan
    /\ UNCHANGED <<user, services, offered, tomb>>

FanStep ==
    \/ FanStart \/ FanList \/ FanMap \/ FanNext \/ FanSubmit \/ FanDelete
    \/ FanWait \/ FanInsert \/ FanUnindex \/ FanUpsert

-----------------------------------------------------------------------------
(* paperless-rag-tombstone and lightrag-rag-tombstone.                     *)

SweepStart(s) ==
    /\ tomb[s].pc = "idle"
    /\ tomb' = [tomb EXCEPT ![s] = [IdleTomb EXCEPT !.pc = "live", !.present = Live]]
    /\ UNCHANGED <<user, services, offered, fan, faults>>

Ids == [d \in Docs |-> d]

\* The documents that page p of a sweep's listing may show.  The LightRAG sweep
\* asks for the order of the ids.  The Qdrant sweep asks for none: the order of
\* the archive may differ from one page to the next, so a page shows as many
\* documents as one sorted by id would, and nothing is known of which.
LivePages(s, p) ==
    LET byId == Page(Live, Ids, TombPage, p)
    IN  IF s = "lightrag" THEN {byId}
        ELSE {S \in SUBSET Live : Cardinality(S) = Cardinality(byId)}

\* fetchPaperlessIds / paperlessIds, one page at a time; a page that does not
\* exist any more is an error that ends the run.
SweepLivePage(s) ==
    /\ tomb[s].pc = "live"
    /\ LET page == tomb[s].page
           more == HasNext(Live, TombPage, page)
       IN  IF page > 1 /\ ~HasNext(Live, TombPage, page - 1)
             THEN tomb' = [tomb EXCEPT ![s] = IdleTomb]
             ELSE \E shown \in LivePages(s, page) :
                    tomb' = [tomb EXCEPT ![s] =
                               [tomb[s] EXCEPT !.live = @ \cup shown,
                                               !.page = IF more THEN page + 1 ELSE page,
                                               !.pc = IF more THEN "live" ELSE "indexed"]]
    /\ UNCHANGED <<user, services, offered, fan, faults>>

\* Mutant: both sweeps look at the same index.
IndexOfQdrant(s) == {d \in Docs : qdrant[d] # 0}

\* What the sweep's back end holds: scrollIndexedIds / lightragPaperlessDocs.
IndexOf(s) == IF s = "qdrant" THEN {d \in Docs : qdrant[d] # 0}
                              ELSE {d \in Docs : lightrag[d] # 0}

\* Mutant: the filter is inverted.
OrphansInverted(s) == IndexOf(s) \cap tomb[s].live

\* The indexed documents that the Paperless listing did not show.
Orphans(s) == IndexOf(s) \ tomb[s].live

SweepIndexed(s) ==
    /\ tomb[s].pc = "indexed"
    /\ tomb' = [tomb EXCEPT ![s].orphans = Orphans(s), ![s].live = {},
                          ![s].pc = "purge"]
    /\ UNCHANGED <<user, services, offered, fan, faults>>

\* Qdrant: deleteDocPoints, one document at a time.  The documents it removes
\* while Paperless has them are remembered until they are indexed again.
PurgeQdrant ==
    /\ tomb["qdrant"].pc = "purge"
    /\ \E d \in tomb["qdrant"].orphans :
         /\ qdrant' = [qdrant EXCEPT ![d] = 0]
         /\ purged' = purged \cup ({d} \cap Live)
         /\ tomb' = [tomb EXCEPT !["qdrant"].orphans = @ \ {d}]
    /\ UNCHANGED <<user, lightrag, busy, dying, offered, fan, faults>>

\* LightRAG: lightragDelete, a batch at a time, accepted or not.
PurgeLightrag ==
    /\ tomb["lightrag"].pc = "purge"
    /\ \E S \in SUBSET tomb["lightrag"].orphans :
         /\ S # {}
         /\ Cardinality(S) = DeleteBatch \/ S = tomb["lightrag"].orphans
         /\ Cardinality(S) <= DeleteBatch
         /\ AskDelete(S)
         /\ tomb' = [tomb EXCEPT !["lightrag"].orphans = @ \ S]
    /\ UNCHANGED <<user, qdrant, lightrag, purged, offered, fan, faults>>

SweepEnd(s) ==
    /\ tomb[s].pc = "purge" /\ tomb[s].orphans = {}
    /\ tomb' = [tomb EXCEPT ![s] = IdleTomb]
    /\ UNCHANGED <<user, services, offered, fan, faults>>

SweepAbort(s) ==
    /\ tomb[s].pc # "idle"
    /\ Suffer("abort")
    /\ tomb' = [tomb EXCEPT ![s] = IdleTomb]
    /\ UNCHANGED <<user, services, offered, fan>>

SweepStep(s) ==
    \/ SweepStart(s) \/ SweepLivePage(s) \/ SweepIndexed(s) \/ SweepEnd(s)
    \/ s = "qdrant" /\ PurgeQdrant
    \/ s = "lightrag" /\ PurgeLightrag

-----------------------------------------------------------------------------

Next ==
    \/ \E d \in Docs : Write(d) \/ Delete(d)
    \/ PipelineDeletes \/ PipelineIdles
    \/ FanStep \/ FanStartBlind \/ FanLightragError \/ FanAbort
    \/ \E s \in Sweeps : SweepStep(s) \/ SweepAbort(s)

Spec == Init /\ [][Next]_vars

\* The schedules keep starting runs, a run goes on while it does not die, and
\* LightRAG works off its queue.  Nothing is assumed of the user or of errors.
FairSpec ==
    /\ Spec
    /\ WF_vars(FanStep)
    /\ WF_vars(PipelineDeletes) /\ WF_vars(PipelineIdles)
    /\ \A s \in Sweeps : WF_vars(SweepStep(s))

-----------------------------------------------------------------------------

Rows == [id : Docs, mod : Versions \ {0}, long : BOOLEAN]

\* The values the state can take; a run never embeds more than MAX_DOCS_PER_RUN
\* documents.
TypeOK ==
    /\ paper \in [Docs -> Versions] /\ short \subseteq Docs /\ gone \subseteq Docs
    /\ clock \in Versions
    /\ qdrant \in [Docs -> Versions] /\ lightrag \in [Docs -> Versions]
    /\ busy \in BOOLEAN /\ dying \subseteq Docs /\ purged \subseteq Docs
    /\ offered \in [Docs -> Versions]
    /\ fan.pc \in {"idle", "list", "map", "doc", "submit", "delete", "wait", "insert",
                   "index", "upsert"}
    /\ fan.wm \in Versions /\ fan.page \in Nat \ {0} /\ fan.batch \subseteq Rows
    /\ fan.more \in BOOLEAN /\ fan.existing \subseteq Docs /\ fan.processed \in 0..MaxDocs
    /\ \A s \in Sweeps :
         /\ tomb[s].pc \in {"idle", "live", "indexed", "purge"}
         /\ tomb[s].page \in Nat \ {0}
         /\ tomb[s].present \subseteq Docs /\ tomb[s].live \subseteq Docs
         /\ tomb[s].orphans \subseteq Docs
    /\ \A k \in Faults : faults[k] \in 0..MaxFaults

\* Documents whose current text belongs in the back ends.
Wanted == Live \ short

\* No run has read a failed scroll for an empty collection.
Sighted == faults["scroll"] = 0

\* Qdrant's high-water mark is authoritative for "processed up to here", but for
\* two things: a readWatermark that met an error, and a Qdrant sweep that took a
\* document of Paperless for an orphan.  A wanted document whose current version
\* is not above the watermark has its current version in Qdrant, also while
\* ingestQdrant has deleted points and not yet upserted them, and after a run
\* that died there; the only ones missing are those a sweep took out.
WatermarkComplete ==
    Sighted => \A d \in Wanted \ purged : paper[d] <= Watermark => qdrant[d] = paper[d]

\* "A crash mid-run never advances past a doc LightRAG didn't see": below the
\* watermark every wanted document's current version was handed to
\* submitToLightrag.
WatermarkOffered ==
    Sighted => \A d \in Wanted \ purged : paper[d] <= Watermark => offered[d] = paper[d]

\* The fan-out's state is well formed and its watermark sound for both back
\* ends: nothing at or below the maximum last_modified in Qdrant was left out of
\* Qdrant or withheld from LightRAG, wherever a run was cut off and whatever the
\* sweeps do meanwhile, but for the documents a sweep wrongly removed.
WatermarkSound == TypeOK /\ WatermarkComplete /\ WatermarkOffered

\* A sweep condemns nothing that Paperless has had since before the sweep began,
\* if no document was deleted while it listed Paperless page by page, and if it
\* asks for an order or sees all of Paperless in one page.  A document added
\* after the sweep has begun, and a second page of the Qdrant sweep, which asks
\* for no order, are outside this promise: see `purged`.
SweepSparesPresent ==
    \A s \in Sweeps :
        s = "lightrag" \/ tomb[s].page = 1 => tomb[s].orphans \cap tomb[s].present = {}

\* When the user stops editing, Qdrant ends up with the current version of
\* every wanted document, runs that died and the cap notwithstanding, unless a
\* run that read a failed scroll for an empty collection may have died as well,
\* and but for the documents a Qdrant sweep removed while Paperless had them:
\* what is then below the watermark stays away until it is edited.
QdrantConverges ==
    <>[](Sighted \/ faults["abort"] = 0 =>
            \A d \in Wanted \ purged : qdrant[d] = paper[d])

\* When the user stops, nothing deleted from Paperless stays in a back end.
OrphansPurged ==
    <>[](\A d \in gone : qdrant[d] = 0 /\ lightrag[d] = 0)

\* "Leave the old copy": when the user stops, and if nothing failed, every
\* wanted document has some version in LightRAG; no delete-and-insert ends with
\* neither copy.
LightragKeepsCopy ==
    <>[]((\A k \in Faults : faults[k] = 0) => \A d \in Wanted : lightrag[d] # 0)
=============================================================================
