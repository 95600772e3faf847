---------------------------- MODULE Observability ----------------------------
(***************************************************************************)
(* What the control plane does with the logs and metrics agents report for *)
(* one service: it stores log lines, indexes those that look like errors,  *)
(* raises incidents for them (observability_service.go,                    *)
(* error_knowledge_service.go, proactive_alert_service.go), and answers    *)
(* the pages that show logs, page after page, and metrics over time.       *)
(*                                                                         *)
(* A line has a text and a level.  "panic", "failed" and "crash" are texts *)
(* with words the code looks for, "plain" has none.                        *)
(***************************************************************************)
EXTENDS Integers, Sequences, FiniteSets

CONSTANTS IngestCalls,  \* log batches that may be ingested at the same time, numbered
          Texts,        \* the texts of lines
          LogIds,       \* identifiers of rows, in the order the database compares them
          Quiet,        \* proactiveAlertSuppressionWindow
          Lengths,      \* how long the rollups of agents may be
          Step, Window, \* of the metric dashboard
          MaxTicks,     \* bound on the clock
          MaxBatches, MaxRollups

ASSUME ObservabilityAssumption ==
    /\ IngestCalls \subseteq Nat /\ Quiet \in Nat /\ Window \in Nat
    /\ LogIds \subseteq Nat /\ IsFiniteSet(LogIds)
    /\ Lengths \subseteq Nat
    /\ Step \in Nat /\ Step > 0 /\ Window >= Step /\ Window % Step = 0  \* normalizeMetricDashboardRange

VARIABLES logs,        \* the stored lines
          unique,      \* whether (project, fingerprint) is unique among the documents: AutoMigrate
                       \* makes no such index, an operator may have added one
          knowledge,   \* texts with a document
          alerts,      \* the rows of alert states
          incidents,   \* the incidents, oldest first
          ingests,     \* progress of the batches
          heard,       \* history: text -> when it last made an incident or was suppressed
          torn,        \* history: texts whose row may not tell so: it was not saved, or by several at once
          crossed,     \* history: batches at a line that another was at too
          reader,      \* a reader of the log pages
          rollups, clock, budget

alertVars == <<knowledge, alerts, incidents, heard, torn, crossed>>
obsVars == <<logs, unique, alertVars, ingests, reader, rollups, clock, budget>>

Levels == {"error", "info"}
Lines == [text : Texts, level : Levels]

-----------------------------------------------------------------------------
(* Ingestion of logs. *)

shouldIndexErrorKnowledge(line) == line.level = "error" \/ line.text \in {"panic", "failed", "crash"}

proactiveAlertSeverity(line) ==
    CASE line.text = "panic" -> 3
      [] line.level = "error" \/ line.text = "failed" -> 2
      [] OTHER -> 1

IdleIngest == [pc |-> "idle", lines |-> {}]

(* The rows are written together; `ids` are those of the rows a page may   *)
(* show, all of the time `at`.                                             *)
CreateBatch(c, ids, at) == \E batch \in SUBSET Lines :
    /\ ingests[c].pc = "idle" /\ budget < MaxBatches
    /\ Cardinality(batch) \in 1..2 /\ Cardinality(ids) <= Cardinality(batch)
    /\ logs' = logs \cup {[id |-> i, at |-> at] : i \in ids}
    /\ ingests' = [ingests EXCEPT ![c] = [pc |-> "index", lines |-> batch]]
    /\ budget' = budget + 1
    /\ UNCHANGED <<unique, alertVars, reader, rollups, clock>>

(* UpsertByFingerprint names (project_id, fingerprint) as the conflict     *)
(* target, which the database refuses unless the two are unique; an error  *)
(* ends the ingestion, before the alerts.                                  *)
IndexLogEntries(c) ==
    LET found == {l \in ingests[c].lines : shouldIndexErrorKnowledge(l)}
    IN  /\ ingests[c].pc = "index"
        /\ IF found = {} \/ unique
           THEN /\ knowledge' = knowledge \cup {l.text : l \in found}
                /\ ingests' = [ingests EXCEPT ![c] = [pc |-> "alerts", lines |-> found]]
           ELSE ingests' = [ingests EXCEPT ![c] = IdleIngest] /\ UNCHANGED knowledge
        /\ UNCHANGED <<logs, unique, alerts, incidents, heard, torn, crossed, reader, rollups, clock, budget>>

-----------------------------------------------------------------------------
(* Alerts. *)

(* Two batches that find no row of a text each insert one: nothing makes   *)
(* the fingerprint unique, and the row with the least id is read from then *)
(* on.  A call inserts at most one row of a text, so it identifies it; the *)
(* ids are random, as is the order of the calls.                           *)
NewRow(c, text) == [id |-> c, text |-> text, sev |-> 0, until |-> 0, incident |-> FALSE]

IsFirst(row, text) ==
    row.text = text /\ \A r \in alerts : r.text = text => row \in alerts /\ row.id <= r.id

AtText(text) == {d \in IngestCalls : ingests[d].pc \in {"raise", "save"} /\ ingests[d].line.text = text}

(* A line is taken up, of several with the same fingerprint one, and its   *)
(* row is read.                                                            *)
GetByFingerprint(c) == \E line \in ingests[c].lines : \E row \in alerts \cup {NewRow(c, line.text)} :
    LET others == AtText(line.text)
    IN  /\ ingests[c].pc = "alerts" /\ IsFirst(row, line.text)
        /\ ingests' = [ingests EXCEPT ![c] = [pc |-> "raise", line |-> line, row |-> row, now |-> clock,
                           lines |-> {l \in @.lines : l.text # line.text}]]
        /\ crossed' = IF others = {} THEN crossed ELSE crossed \cup others \cup {c}
        /\ torn' = IF others = {} THEN torn ELSE torn \cup {line.text}
        /\ UNCHANGED <<logs, unique, knowledge, alerts, incidents, heard, reader, rollups, clock, budget>>

(* A line is suppressed while the row says so, unless it is more severe    *)
(* than the last.                                                          *)
Suppressed(call) == call.now < call.row.until /\ proactiveAlertSeverity(call.line) <= call.row.sev

IncidentFor(call) ==
    LET text == call.line.text
    IN  [text |-> text, sev |-> proactiveAlertSeverity(call.line), torn |-> text \in torn,
         early |-> heard[text] # 0 /\ call.now < heard[text] + Quiet]

(* An error ends the batch.                                                *)
createIncident(c) ==
    /\ ingests[c].pc = "raise" /\ ~Suppressed(ingests[c])
    /\ \/ /\ incidents' = Append(incidents, IncidentFor(ingests[c]))
          /\ ingests' = [ingests EXCEPT ![c] = [pc |-> "save", line |-> @.line, row |-> @.row, now |-> @.now,
                             lines |-> @.lines]]
          /\ UNCHANGED crossed
       \/ /\ ingests' = [ingests EXCEPT ![c] = IdleIngest] /\ crossed' = crossed \ {c}
          /\ UNCHANGED incidents
    /\ UNCHANGED <<logs, unique, knowledge, alerts, heard, torn, reader, rollups, clock, budget>>

(* The states of suppressed lines are not saved.                           *)
suppressedUnsaved(row) == row.incident

Saved(row) == TRUE

(* The row goes back, with the severity of this line and a new end of the  *)
(* quiet time, once an incident is made or the line is suppressed.  An     *)
(* error ends the batch, as a restart of the control plane does.           *)
SaveState(c) == \E saved \in BOOLEAN :
    LET call == ingests[c]
        text == call.line.text
        row == [call.row EXCEPT !.sev = proactiveAlertSeverity(call.line), !.until = call.now + Quiet,
                                !.incident = call.pc = "save"]
    IN  /\ call.pc = "save" \/ (call.pc = "raise" /\ Suppressed(call))
        /\ alerts' = IF saved /\ Saved(row)
                     THEN {r \in alerts : r.text # text \/ r.id # row.id} \cup {row} ELSE alerts
        /\ heard' = [heard EXCEPT ![text] = call.now]
        /\ torn' = IF ~saved THEN torn \cup {text} ELSE IF c \in crossed THEN torn ELSE torn \ {text}
        /\ ingests' = [ingests EXCEPT ![c] = IF saved THEN [pc |-> "alerts", lines |-> call.lines] ELSE IdleIngest]
        /\ crossed' = crossed \ {c}
        /\ UNCHANGED <<logs, unique, knowledge, incidents, reader, rollups, clock, budget>>

processLogRecord(c) == GetByFingerprint(c) \/ createIncident(c) \/ SaveState(c)

(* No line is left, or a row could not be read.                            *)
LogBatchDone(c) ==
    /\ ingests[c].pc = "alerts"
    /\ ingests' = [ingests EXCEPT ![c] = IdleIngest]
    /\ UNCHANGED <<logs, unique, alertVars, reader, rollups, clock, budget>>

-----------------------------------------------------------------------------
(* Pages of logs, newest first. *)

Newer(a, b) == a.at > b.at \/ (a.at = b.at /\ a.id > b.id)

NoCursor == [at |-> -1, id |-> 0]

beforeByTime(row, cursor) == cursor = NoCursor \/ row.at < cursor.at

(* ListByQuery: the rows behind the cursor.                                *)
before(row, cursor) == cursor = NoCursor \/ Newer(cursor, row)

ListByQuery(cursor, limit) ==
    LET rows == {l \in logs : before(l, cursor)}
    IN  {l \in rows : Cardinality({k \in rows : Newer(k, l)}) < limit}

(* A reader begins, and asks with the cursor of the last row it was given. *)
PreviewLogs == \E limit \in 1..2 :
    LET page == ListByQuery(reader.cursor, limit)
        last == CHOOSE l \in page : \A k \in page : k = l \/ Newer(k, l)
    IN  /\ ~reader.over
        /\ reader' = [cursor |-> IF page = {} THEN reader.cursor ELSE [at |-> last.at, id |-> last.id],
                      since |-> IF reader.cursor = NoCursor THEN logs ELSE reader.since,
                      shown |-> [l \in logs |-> (IF l \in DOMAIN reader.shown THEN reader.shown[l] ELSE 0)
                                               + (IF l \in page THEN 1 ELSE 0)],
                      over |-> page = {}]
        /\ UNCHANGED <<logs, unique, alertVars, ingests, rollups, clock, budget>>

-----------------------------------------------------------------------------
(* Metrics. *)

(* What a rollup message says of the service's requests.                   *)
RollupMessages == [length : Lengths, count : 1..2]

(* The rollup covers the time up to its arrival.  (An aggregate without    *)
(* samples stores no row.)                                                 *)
IngestMetricRollup == \E msg \in RollupMessages :
    /\ Cardinality(rollups) < MaxRollups
    /\ rollups' = rollups \cup {[n |-> Cardinality(rollups), start |-> clock - msg.length,
                                 end |-> clock, count |-> msg.count]}
    /\ UNCHANGED <<logs, unique, alertVars, ingests, reader, clock, budget>>

alignMetricTimestamp(t) == t - (t % Step)
windowEnd == alignMetricTimestamp(clock)
windowStart == windowEnd - Window

ListByProjectAndService == {r \in rollups : r.end >= windowStart /\ r.start <= windowEnd}

(* The points of the chart.                                                *)
buildEmptyMetricSeries == {windowStart + k * Step : k \in 0..(Window \div Step)}

bucketAt(r) == CASE alignMetricTimestamp(r.end) < windowStart -> windowStart
                 [] alignMetricTimestamp(r.end) > windowEnd -> windowEnd
                 [] OTHER -> alignMetricTimestamp(r.end)

InRange(r) == r.end >= windowStart /\ r.end <= windowEnd + Step

(* The requests rollups have counted.  A sum of counts is how many there   *)
(* are.                                                                    *)
RequestsOf(S) == UNION {{r} \X (1..r.count) : r \in S}

Point(t) == Cardinality(RequestsOf({r \in ListByProjectAndService : InRange(r) /\ bucketAt(r) = t}))
BuildMetricDashboard ==
    LET series == [t \in buildEmptyMetricSeries |-> Point(t)]
    IN  [series |-> series,
         requests |-> Cardinality(UNION {{t} \X (1..series[t]) : t \in DOMAIN series})]

ClockMoves ==
    /\ clock < Window + MaxTicks /\ clock' = clock + 1
    /\ UNCHANGED <<logs, unique, alertVars, ingests, reader, rollups, budget>>

-----------------------------------------------------------------------------
ObsInit ==
    /\ logs = {} /\ knowledge = {} /\ alerts = {} /\ incidents = <<>> /\ rollups = {}
    /\ unique \in BOOLEAN
    /\ ingests = [c \in IngestCalls |-> IdleIngest]
    /\ heard = [t \in Texts |-> 0] /\ torn = {} /\ crossed = {}
    /\ reader = [cursor |-> NoCursor, since |-> {}, shown |-> <<>>, over |-> FALSE]
    /\ clock = Window /\ budget = 0

(* The tables as AutoMigrate creates them.                                 *)
MigratedInit == ObsInit /\ unique = FALSE

LogsIngested == \E c \in IngestCalls :
    \/ CreateBatch(c, {}, clock) \/ IndexLogEntries(c)
    \/ processLogRecord(c) \/ LogBatchDone(c)
AlertsNext == LogsIngested \/ ClockMoves
PagesNext ==
    \/ \E c \in IngestCalls :
        \/ \E ids \in SUBSET (LogIds \ {l.id : l \in logs}), at \in {clock, clock - 1} :
               CreateBatch(c, ids, at)
        \/ IndexLogEntries(c) \/ LogBatchDone(c)
    \/ PreviewLogs \/ ClockMoves
DashboardNext == IngestMetricRollup \/ ClockMoves

ObsSpec == ObsInit /\ [][AlertsNext \/ PagesNext \/ DashboardNext]_obsVars
MigratedSpec == MigratedInit /\ [][LogsIngested \/ ClockMoves]_obsVars

-----------------------------------------------------------------------------
(* Properties. *)

(* A text whose severity does not depend on the level it is logged at.     *)
OneSeverity(text) == \A l, m \in {k \in Lines : k.text = text /\ shouldIndexErrorKnowledge(k)} :
    proactiveAlertSeverity(l) = proactiveAlertSeverity(m)

(* An error whose severity does not change makes no other incident until   *)
(* it was not heard of for a whole suppression window, however long the    *)
(* burst lasts, except while it is torn: its last row was not saved, or    *)
(* batches that overlapped were at it, and since then no batch was at it   *)
(* alone and saved it.  One such batch (processLogRecord) is enough to end *)
(* the exception.  (A text that alternates between two severities raises   *)
(* an incident at every other line.)                                       *)
QuietBetweenIncidents ==
    \A j \in DOMAIN incidents :
        OneSeverity(incidents[j].text) /\ ~incidents[j].torn => ~incidents[j].early

(* As above, whatever fails or overlaps: it does not hold.                 *)
OneIncidentPerBurst ==
    \A j \in DOMAIN incidents : OneSeverity(incidents[j].text) => ~incidents[j].early

(* Paging to the end shows every line that was there at the beginning      *)
(* exactly once, and no line twice, while other lines arrive with the same *)
(* or earlier times.                                                       *)
PagedOnce ==
    /\ \A l \in DOMAIN reader.shown : reader.shown[l] <= 1
    /\ reader.over => \A l \in reader.since : reader.shown[l] = 1

(* The dashboard's total and its chart count each rollup once that ended   *)
(* within the window, the ones on its edges included, unless it began      *)
(* after the last point of the chart.                                      *)
DashboardComplete ==
    BuildMetricDashboard.requests =
        Cardinality(RequestsOf({r \in rollups : r.end >= windowStart /\ r.start <= windowEnd}))

(* As above, for all of them.  It does not hold where a step is longer     *)
(* than a rollup: one of the unfinished step is bucketed with the last     *)
(* point, but ListByProjectAndService does not find it before the next.    *)
DashboardUpToDate ==
    BuildMetricDashboard.requests = Cardinality(RequestsOf({r \in rollups : r.end >= windowStart}))

(* "expected error knowledge to be indexed": when the ingestion of an      *)
(* error line has ended, there is a document for it.                       *)
ErrorsAreIndexed == [][
    \A c \in IngestCalls : ingests[c].pc # "idle" /\ ingests'[c].pc = "idle" =>
        \A l \in ingests[c].lines : l.level = "error" => l.text \in knowledge']_obsVars

(* The two views of what was stored are complete: the pages of the log     *)
(* preview (PreviewLogs) and the series of the dashboard                   *)
(* (BuildMetricDashboard).                                                 *)
ViewsComplete == PagedOnce /\ DashboardComplete

=============================================================================
