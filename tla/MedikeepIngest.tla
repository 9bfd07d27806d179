--------------------------- MODULE MedikeepIngest ---------------------------
(***************************************************************************)
(* medikeep-ingest: a CronJob copies a sheet of readings to Medikeep's     *)
(* vitals and a sheet of doses to its treatment periods.  It lists what is *)
(* there and posts what is missing, one request at a time.  A request may  *)
(* fail, take effect though its response is lost, or take effect only      *)
(* after it timed out; the next run starts from the sheets again.          *)
(***************************************************************************)
EXTENDS Naturals, Sequences, FiniteSets, SequencesExt

CONSTANTS
    Keys,        \* timestamps of readings
    Amounts,     \* weekly doses in mg
    Blank,       \* a cell without a usable value: heading, placeholder, bad date
    MaxDate,     \* bound on the dates of dose rows: 1..MaxDate
    Year,        \* the tab of the dose sheet that a date belongs in
    FirstReadings, FirstDoses, \* the tabs of the sheets when the job is deployed
    MaxReadings, MaxDoses, \* bounds on the rows of the two sheets
    MaxFaults,   \* bound on the runs that fail
    Disturbances \* "amend" and "torn": see AddDose; "late": see Send

ASSUME BoundsAssumption == {MaxDate, MaxReadings, MaxDoses, MaxFaults} \subseteq Nat
ASSUME YearAssumption == Year \in [1..MaxDate -> DOMAIN FirstDoses]
ASSUME DisturbancesAssumption == Disturbances \subseteq {"amend", "torn", "late"}

Active == 0    \* the end of the period that is still open, with status active

VARIABLES
    readings,  \* the year tabs in order, and the rows of each: a key, or Blank
    doses,     \* the year tabs in order, and the dose rows of each: [date, mg]
    vitals,    \* Medikeep: how many vitals of our source have each key
    periods,   \* Medikeep: the treatment rows of our name, in the order of their ids
    run,       \* the process: pc, dry, the tabs of the sheet it has read and the dose
               \* rows in them, keys to post, periods to sync, rows found;
               \* and whether a dose was entered in a tab it had read (history)
    wire,      \* a timed-out request Medikeep has yet to carry out, or NoRequest
    faults, disturbed

vars == <<readings, doses, vitals, periods, run, wire, faults, disturbed>>
sheets == <<readings, doses>>
server == <<vitals, periods>>

NoRequest == [kind |-> "none"]

Stopped(dry) == [pc |-> "stopped", dry |-> dry, tab |-> 0, rows |-> <<>>, missed |-> FALSE,
                 keys |-> <<>>, todo |-> <<>>, found |-> <<>>]

Init ==
    /\ readings = FirstReadings /\ doses = FirstDoses
    /\ vitals = [k \in Keys |-> 0] /\ periods = <<>>
    /\ \E dry \in BOOLEAN : run = Stopped(dry)
    /\ wire = NoRequest /\ faults = 0 /\ disturbed = {}

-----------------------------------------------------------------------------

\* A row is entered in a tab of the readings sheet, maybe of a reading it has.
AddReading ==
    /\ Len(FlattenSeq(readings)) < MaxReadings
    /\ \E t \in DOMAIN readings, k \in Keys \cup {Blank} :
         readings' = [readings EXCEPT ![t] = Append(@, k)]
    /\ UNCHANGED <<doses, server, run, wire, faults, disturbed>>

\* A row is entered in the dose sheet: the next date's, a placeholder, a row of
\* before again, in any tab, or one that amends what was said before.  A run that
\* is reading the sheet may have read the tab already; it is torn when it misses
\* one dose in this way and goes on to read a later one in a tab after it.
AddDose ==
    /\ Len(FlattenSeq(doses)) < MaxDoses
    /\ \E t \in DOMAIN doses, d \in 1..MaxDate, mg \in Amounts \cup {Blank} :
         LET row == [date |-> d, mg |-> mg]
             rows == ToSet(FlattenSeq(doses))
             new == mg # Blank /\ row \notin rows
             missed == new /\ run.pc = "doseTabs" /\ t <= run.tab
             torn == new /\ run.pc = "doseTabs" /\ t > run.tab /\ run.missed
             amends == new /\ \E r \in rows : r.mg # Blank /\ d <= r.date
             kinds == (IF amends THEN {"amend"} ELSE {}) \cup (IF torn THEN {"torn"} ELSE {})
         IN  /\ kinds \subseteq Disturbances
             /\ t = Year[d] \/ row \in rows
             /\ doses' = [doses EXCEPT ![t] = Append(@, row)]
             /\ disturbed' = disturbed \cup kinds
             /\ run' = [run EXCEPT !.missed = @ \/ missed]
    /\ UNCHANGED <<readings, server, wire, faults>>

-----------------------------------------------------------------------------

\* parse_readings: rows without a date or a value are skipped.
ParseReadings(rows) == SelectSeq(rows, LAMBDA k : k # Blank)

\* main's dedup of the batch: the first occurrence of a key.
DistinctKeys(s) ==
    FoldLeft(LAMBDA acc, k : IF Contains(acc, k) THEN acc ELSE Append(acc, k), <<>>, s)

\* parse_dose_rows: a row counts once its ml cell is filled.
ParseDoseRows(rows) == SelectSeq(rows, LAMBDA r : r.mg # Blank)

\* by_date: identical dates collapse, the last row wins.
ByDate(rows) ==
    [d \in {rows[i].date : i \in DOMAIN rows} |->
        FoldLeft(LAMBDA acc, r : IF r.date = d THEN r.mg ELSE acc, Blank, rows)]

Period(start, mg) == [start |-> start, end |-> Active, mg |-> mg]

\* Mutant: every earlier period is given the date of the change.
ChangeDoseAll(acc, d, mg) ==
    Append([i \in DOMAIN acc |-> [acc[i] EXCEPT !.end = d]], Period(d, mg))

\* The open period is closed at the date of the change, the next one opened.
ChangeDose(acc, d, mg) ==
    Append(IF acc = <<>> THEN acc ELSE [acc EXCEPT ![Len(acc)].end = d], Period(d, mg))

\* Mutant: every dated row opens a period of its own.
SameDoseNever(acc, mg) == FALSE

\* The dose is that of the period still open.
SameDose(acc, mg) == acc # <<>> /\ Last(acc).mg = mg /\ Last(acc).end = Active

\* derive_dose_periods
DeriveDosePeriods(rows) ==
    LET by == ByDate(rows) IN
    FoldLeft(LAMBDA acc, d : IF SameDose(acc, by[d]) THEN acc ELSE ChangeDose(acc, d, by[d]),
             <<>>, SetToSortSeq(DOMAIN by, <))

-----------------------------------------------------------------------------

\* main: the readings, year tab by year tab, each with a request of its own.
ReadReadings ==
    /\ run.pc \in {"stopped", "readingTabs"}
    /\ LET t == run.tab + 1
           last == t = Len(readings)
       IN  run' = [run EXCEPT !.pc = IF last THEN "doseTabs" ELSE "readingTabs",
                              !.tab = IF last THEN 0 ELSE t,
                              !.keys = DistinctKeys(@ \o ParseReadings(readings[t]))]
    /\ UNCHANGED <<sheets, server, wire, faults, disturbed>>

\* The doses in the same way; after the last tab the periods are derived.  The
\* weights fetched then are payload of the readings, and their fetch never raises.
ReadDoses ==
    /\ run.pc = "doseTabs"
    /\ LET t == run.tab + 1
           rows == run.rows \o ParseDoseRows(doses[t])
       IN  \/ /\ t < Len(doses)
              /\ run' = [run EXCEPT !.tab = t, !.rows = rows]
           \/ /\ t = Len(doses)
              /\ run' = [run EXCEPT !.pc = "login", !.tab = 0, !.rows = <<>>, !.missed = FALSE,
                                    !.todo = DeriveDosePeriods(rows)]
    /\ UNCHANGED <<sheets, server, wire, faults, disturbed>>

\* Those whose key existing_vitals_keys does not hold.
NewKeys(keys) == SelectSeq(keys, LAMBDA k : vitals[k] = 0)

\* login and the listing of sync_readings; a dry run does neither.  The listing
\* is one GET, taken to answer with every row: no further page is asked for.
ListVitals ==
    /\ run.pc = "login"
    /\ run' = [run EXCEPT !.pc = "readings", !.keys = IF run.dry THEN @ ELSE NewKeys(@)]
    /\ UNCHANGED <<sheets, server, wire, faults, disturbed>>

\* What a request does to Medikeep.
Carry(q) ==
    CASE q.kind = "vital" ->
           vitals' = [vitals EXCEPT ![q.key] = @ + 1] /\ UNCHANGED periods
      [] q.kind = "post" ->
           periods' = Append(periods, q.row) /\ UNCHANGED vitals
      [] q.kind = "put" ->
           periods' = [periods EXCEPT ![q.id] = q.row] /\ UNCHANGED vitals

\* Medikeep.post and put: carried out; carried out though the response is lost;
\* or timed out and carried out later.  An error ends the process.
Send(q, next) ==
    \/ /\ Carry(q) /\ run' = next
       /\ UNCHANGED <<wire, faults, disturbed>>
    \/ /\ faults < MaxFaults
       /\ run' = Stopped(run.dry) /\ faults' = faults + 1
       /\ \/ Carry(q) /\ UNCHANGED <<wire, disturbed>>
          \/ /\ "late" \in Disturbances /\ wire = NoRequest
             /\ wire' = q /\ disturbed' = disturbed \cup {"late"}
             /\ UNCHANGED server

\* One new reading of sync_readings; its read-back is only logged.
PostReading ==
    /\ run.pc = "readings" /\ run.keys # <<>>
    /\ LET next == [run EXCEPT !.keys = Tail(@)] IN
         IF run.dry
           THEN run' = next /\ UNCHANGED <<server, wire, faults, disturbed>>
           ELSE Send([kind |-> "vital", key |-> Head(run.keys)], next)
    /\ UNCHANGED sheets

\* existing_treatments; a dry run lists nothing.
ListTreatments ==
    /\ run.pc = "readings" /\ run.keys = <<>>
    /\ run' = [run EXCEPT !.pc = "dose", !.found = IF run.dry THEN <<>> ELSE periods]
    /\ UNCHANGED <<sheets, server, wire, faults, disturbed>>

\* by_start: of rows with the same start the last one is found.
Matches(start) == {i \in DOMAIN run.found : run.found[i].start = start}
Match(start) == CHOOSE i \in Matches(start) : \A j \in Matches(start) : j <= i

\* Mutant: the periods are synced from the last one.
NextPeriodLast(todo) == Last(todo)

\* `for p in periods`, oldest first.
NextPeriod(todo) == Head(todo)

\* A dry run only logs the POST or the PUT it would send.
Writes == ~run.dry

\* Mutant: a period that is there is left alone.
StaleNever(p) == FALSE

\* The row found has another end, and so another status.
Stale(p) == run.found[Match(p.start)].end # p.end

\* One period of sync_dose: posted when its start is not there, put when the
\* row found is stale, else left alone.
SyncPeriod ==
    /\ run.pc = "dose" /\ run.todo # <<>>
    /\ LET p == NextPeriod(run.todo)
           next == [run EXCEPT !.todo = SelectSeq(@, LAMBDA x : x # p)] IN
         IF Writes /\ Matches(p.start) = {}
           THEN Send([kind |-> "post", row |-> p], next)
         ELSE IF Writes /\ Stale(p)
           THEN Send([kind |-> "put", id |-> Match(p.start), row |-> p], next)
         ELSE run' = next /\ UNCHANGED <<server, wire, faults, disturbed>>
    /\ UNCHANGED sheets

Finish ==
    /\ run.pc = "dose" /\ run.todo = <<>>
    /\ run' = Stopped(run.dry)
    /\ UNCHANGED <<sheets, server, wire, faults, disturbed>>

\* The pod is killed, or a request fails without effect.
Fail ==
    /\ run.pc # "stopped" /\ faults < MaxFaults
    /\ run' = Stopped(run.dry) /\ faults' = faults + 1
    /\ UNCHANGED <<sheets, server, wire, disturbed>>

\* Medikeep carries out a request its client gave up on.
Deliver ==
    /\ wire # NoRequest
    /\ Carry(wire) /\ wire' = NoRequest
    /\ UNCHANGED <<sheets, run, faults, disturbed>>

Step == ReadReadings \/ ReadDoses \/ ListVitals \/ PostReading \/ ListTreatments \/ SyncPeriod \/ Finish

Next == AddReading \/ AddDose \/ Step \/ Fail \/ Deliver

Spec == Init /\ [][Next]_vars

\* The CronJob keeps running it, and requests are carried out in the end.
FairSpec == Spec /\ WF_vars(Step) /\ WF_vars(Deliver)

-----------------------------------------------------------------------------

Rows == [start : 1..MaxDate, end : 0..MaxDate, mg : Amounts]

\* The values the state can take.
TypeOK ==
    /\ readings \in Seq(Seq(Keys \cup {Blank}))
    /\ doses \in Seq(Seq([date : 1..MaxDate, mg : Amounts \cup {Blank}]))
    /\ vitals \in [Keys -> Nat]
    /\ periods \in Seq(Rows) /\ run.todo \in Seq(Rows) /\ run.found \in Seq(Rows)
    /\ run.pc \in {"stopped", "readingTabs", "doseTabs", "login", "readings", "dose"}
    /\ run.rows \in Seq([date : 1..MaxDate, mg : Amounts]) /\ run.tab \in Nat
    /\ run.dry \in BOOLEAN /\ run.keys \in Seq(Keys)
    /\ faults \in 0..MaxFaults /\ disturbed \subseteq Disturbances

\* "Idempotent, additive" (ingest.py:6): however often a run fails, is killed or
\* loses a response between two writes, no reading and no period is written
\* twice, as long as no request is carried out after it timed out.
NoDuplicates ==
    "late" \notin disturbed =>
        /\ \A k \in Keys : vitals[k] <= 1
        /\ \A i, j \in DOMAIN periods : periods[i].start = periods[j].start => i = j

\* A patient has one active dose: the old period is closed before the next one
\* is posted, so no crash leaves two open, as long as doses are only appended,
\* no request comes late and no run reads a torn sheet.  From a torn one it posts
\* the later dose as the active period, and the next run the missed one beside
\* it (ingest.py:203-207, 371-397, 426-429).
OneActive ==
    disturbed = {} =>
        \A i, j \in DOMAIN periods :
            periods[i].end = Active /\ periods[j].end = Active => i = j

\* History stays: under the same three conditions a closed period is never
\* changed or opened again, and what is written is never taken away
\* (ingest.py:6, 388-397).
ClosedStaysClosed ==
    [][disturbed' = {} => \A i \in DOMAIN periods :
         /\ i \in DOMAIN periods' /\ periods'[i].start = periods[i].start
         /\ periods[i].end # Active => periods'[i] = periods[i]]_vars

\* "a misconfigured job must not write medical rows" (ingest.py:78): whatever
\* the sheets hold and wherever it fails, a dry run leaves Medikeep as it was.
DryRunWritesNothing ==
    run.dry => wire = NoRequest /\ periods = <<>> /\ \A k \in Keys : vitals[k] = 0

\* What Medikeep holds in every state: no row twice, one active dose, and
\* nothing at all from a dry run.
RecordSound == TypeOK /\ NoDuplicates /\ OneActive /\ DryRunWritesNothing

\* derive_dose_periods against its definition: the periods start exactly where
\* the dose differs from the one of the date before, and each lasts until the
\* next one starts (ingest.py:193-208).
DerivedIsChanges ==
    LET rows == ParseDoseRows(FlattenSeq(doses))
        by == ByDate(rows)
        ps == DeriveDosePeriods(rows)
        Changes == {d \in DOMAIN by :
                      ~\E e \in DOMAIN by : /\ e < d /\ by[e] = by[d]
                                            /\ \A f \in DOMAIN by : ~(e < f /\ f < d)}
    IN  /\ {ps[i].start : i \in DOMAIN ps} = Changes /\ Len(ps) = Cardinality(Changes)
        /\ \A i \in DOMAIN ps :
             /\ ps[i].mg = by[ps[i].start]
             /\ ps[i].end = IF i = Len(ps) THEN Active ELSE ps[i + 1].start

Synced ==
    /\ \A k \in ToSet(ParseReadings(FlattenSeq(readings))) : vitals[k] > 0
    /\ ToSet(periods) = ToSet(DeriveDosePeriods(ParseDoseRows(FlattenSeq(doses))))

\* Once people stop typing and requests stop failing, Medikeep holds every
\* reading and exactly the derived periods, whatever was half done before, unless
\* a dose was amended, a request was carried out late or a torn sheet was read:
\* a period whose start is no longer derived is never removed, and one posted
\* twice stays so (ingest.py:371-397).  Dry runs write nothing.
Converges == <>[](Synced \/ run.dry \/ disturbed # {})
=============================================================================
