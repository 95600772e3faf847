----------------------------- MODULE Telemetry -----------------------------
(***************************************************************************)
(* What the agent reports of a binding: its logs (agent runtime            *)
(* /log_collector.go), which the main loop and report_log_batch commands   *)
(* flush, and its metrics (metric_aggregator.go, node_metrics.go), which   *)
(* health gates and report_metric_rollup commands roll up.  Flushes and    *)
(* rollups overlap: only the steps under the collectors' locks are atomic. *)
(* The last part is the goroutines that follow a log.                      *)
(***************************************************************************)
EXTENDS Naturals, FiniteSets, Sequences

CONSTANTS LogFlushers, Rollups,
          MaxLines,      \* bound on lines logged
          BufferLimit,   \* MaxBufferSize
          SampleLimit,   \* MaxSamplesPerSlot
          MaxRequests,   \* bound on requests in one file of the gateway's access log
          MaxFiles,      \* bound on those files
          MaxReads       \* bound on rollups

ASSUME TelemetryAssumption == /\ MaxLines \in Nat /\ BufferLimit \in Nat \ {0} /\ SampleLimit \in Nat \ {0}
                              /\ MaxRequests \in Nat /\ MaxReads \in Nat /\ MaxFiles \in Nat

VARIABLES
    tLines,     \* lines logged so far, 1..tLines; a line has the message its number is even or odd to
    tBuffer,    \* the lines buffered
    tCool,      \* the messages in their cooldown
    tFlush,     \* flusher -> the batch it sends, {} when idle
    tSent,      \* line -> how often it was sent
    tLost,      \* the lines counted as dropped
    tAccess,    \* the access log: [file, size], the file written now and the requests in it
    tRolled,    \* the sizes of the files it rolled away
    tOffset,    \* what the aggregator has passed: [file, at]; it stores only "at"
    tRoll,      \* rollup -> [step, file, from, upto, samples]; upto is the size at first
    tCounted,   \* the requests some rollup counted, each a file and its place there
    tBlind,     \* history: a rollup took a file for the one its offset is of
    tSlot,      \* the samples of the open window, and whether it is over: [n, over]
    tNode,      \* the node's counters at the last collection, and the collections: [last, seen]
    tReads      \* rollups so far

telemetryVars == <<tLines, tBuffer, tCool, tFlush, tSent, tLost, tAccess, tRolled, tOffset, tRoll, tCounted, tBlind,
                   tSlot, tNode, tReads>>
logVars       == <<tLines, tBuffer, tCool, tFlush, tSent, tLost>>
accessVars    == <<tAccess, tRolled, tOffset, tCounted, tBlind>>
metricVars    == <<accessVars, tRoll, tSlot, tNode, tReads>>

Message(line) == line % 2
NoRoll == [step |-> "idle", file |-> 1, from |-> 0, upto |-> 0, samples |-> 0]

TelemetryInit ==
    /\ tLines = 0 /\ tBuffer = {} /\ tCool = {} /\ tLost = {}
    /\ tFlush = [f \in LogFlushers |-> {}]
    /\ tSent = [l \in 1..MaxLines |-> 0]
    /\ tAccess = [file |-> 1, size |-> 0] /\ tRolled = <<>>
    /\ tOffset = [file |-> 1, at |-> 0] /\ tCounted = {} /\ tBlind = FALSE
    /\ tRoll = [r \in Rollups |-> NoRoll]
    /\ tSlot = [n |-> 0, over |-> FALSE]
    /\ tNode = [last |-> 0, seen |-> FALSE]
    /\ tReads = 0

\* A line of a service, of a container or of the agent itself: dropped without a
\* source or when the buffer is full, silently left out during its cooldown.
Ingest(sourced) ==
    /\ tLines < MaxLines /\ tLines' = tLines + 1
    /\ LET line == tLines + 1
       IN  IF ~sourced \/ Cardinality(tBuffer) >= BufferLimit
           THEN tLost' = tLost \cup {line} /\ UNCHANGED <<tBuffer, tCool>>
           ELSE IF Message(line) \in tCool THEN UNCHANGED <<tLost, tBuffer, tCool>>
           ELSE tBuffer' = tBuffer \cup {line} /\ tCool' = tCool \cup {Message(line)} /\ UNCHANGED tLost
    /\ UNCHANGED <<tFlush, tSent, metricVars>>

CooldownEnds == tCool # {} /\ tCool' = {} /\ UNCHANGED <<tLines, tBuffer, tFlush, tSent, tLost, metricVars>>

\* CollectExpiredBatches: the buffer is old enough or large enough.
CollectExpiredBatches(f) ==
    /\ tFlush[f] = {} /\ tBuffer # {}
    /\ tFlush' = [tFlush EXCEPT ![f] = tBuffer] /\ tBuffer' = {}
    /\ UNCHANGED <<tLines, tCool, tSent, tLost, metricVars>>

\* HandleReportLogBatch after that: a batch that no project is known for, or that
\* cannot be sent or written, is gone.
HandleReportLogBatch(f, sent) ==
    /\ tFlush[f] # {} /\ tFlush' = [tFlush EXCEPT ![f] = {}]
    /\ tSent' = IF sent THEN [l \in 1..MaxLines |-> tSent[l] + IF l \in tFlush[f] THEN 1 ELSE 0] ELSE tSent
    /\ UNCHANGED <<tLines, tBuffer, tCool, tLost, metricVars>>

\* Record: samples of a window that is over are thrown away with it.
Recorded(n) == IF tSlot.over THEN n ELSE IF tSlot.n + n > SampleLimit THEN SampleLimit ELSE tSlot.n + n

\* Collect of the node and FeedToAggregator: what a counter grew by since the last
\* collection, nothing at the first one or after it was reset.
CounterDelta(now) == IF tNode.seen /\ now >= tNode.last THEN now - tNode.last ELSE 0

FeedToAggregator(now) ==
    /\ tNode' = [last |-> now, seen |-> TRUE]
    /\ LET fed == IF CounterDelta(now) > 0 THEN 2 ELSE 1
       IN  tSlot' = [n |-> Recorded(fed), over |-> FALSE]
    /\ UNCHANGED <<logVars, accessVars, tRoll, tReads>>

WindowEnds == tSlot.n > 0 /\ ~tSlot.over /\ tSlot' = [tSlot EXCEPT !.over = TRUE]
              /\ UNCHANGED <<logVars, accessVars, tRoll, tNode, tReads>>

\* A rollup takes the windows, all of them or those that are over.
TakeWindows(r, force) ==
    /\ tRoll[r] = NoRoll /\ tReads < MaxReads /\ tReads' = tReads + 1
    /\ LET taken == IF force \/ tSlot.over THEN tSlot.n ELSE 0
       IN  /\ tRoll' = [tRoll EXCEPT ![r] = [NoRoll EXCEPT !.step = "open", !.samples = taken]]
           /\ tSlot' = IF taken > 0 THEN [n |-> 0, over |-> FALSE] ELSE tSlot
    /\ UNCHANGED <<logVars, accessVars, tNode>>

\* countNewAccessLogEntries: the file is opened and its size taken, then the offset is
\* read under the lock, then the file to its end without it.  A file smaller than the
\* offset has replaced the one the offset is of, and is read from its start; one that
\* has grown past the offset meanwhile is not told apart.
OpenAccessLog(r) ==
    /\ tRoll[r].step = "open"
    /\ tRoll' = [tRoll EXCEPT ![r] = [@ EXCEPT !.step = "seek", !.file = tAccess.file, !.upto = tAccess.size]]
    /\ UNCHANGED <<logVars, accessVars, tSlot, tNode, tReads>>

SeekTo(r, from) ==
    /\ tRoll[r].step = "seek"
    /\ tRoll' = [tRoll EXCEPT ![r] = [@ EXCEPT !.step = "read", !.from = from, !.upto = 0]]
    /\ tBlind' = (tBlind \/ (tOffset.file # tRoll[r].file /\ tOffset.at <= tRoll[r].upto /\ tOffset.at > 0))
    /\ UNCHANGED <<logVars, tAccess, tRolled, tOffset, tCounted, tSlot, tNode, tReads>>

\* Slip: the offset is kept when the file is smaller.
seekStored(r) == SeekTo(r, tOffset.at)

SeekOffset(r) == SeekTo(r, IF tRoll[r].upto < tOffset.at THEN 0 ELSE tOffset.at)

\* What rolled away is read to its end too: the file stays open under its new name.
SizeOf(file) == IF file = tAccess.file THEN tAccess.size ELSE tRolled[file]

\* Behind the end of the file there is nothing to read.
ReadUpTo(roll) == IF SizeOf(roll.file) < roll.from THEN roll.from ELSE SizeOf(roll.file)

ReadAccessLog(r, fails) ==
    /\ tRoll[r].step = "read"
    /\ tRoll' = [tRoll EXCEPT ![r] =
          IF fails THEN NoRoll
          ELSE [@ EXCEPT !.step = "report", !.upto = ReadUpTo(tRoll[r])]]
    /\ UNCHANGED <<logVars, accessVars, tSlot, tNode, tReads>>

\* HandleReportMetricRollup: the offset is stored and the rollup sent, or lost.
HandleReportMetricRollup(r) ==
    /\ tRoll[r].step = "report"
    /\ tOffset' = [file |-> tRoll[r].file, at |-> tRoll[r].upto]
    /\ tCounted' = tCounted \cup {tRoll[r].file} \X ((tRoll[r].from + 1)..tRoll[r].upto)
    /\ tRoll' = [tRoll EXCEPT ![r] = NoRoll]
    /\ UNCHANGED <<logVars, tAccess, tRolled, tBlind, tSlot, tNode, tReads>>

RequestServed ==
    /\ tAccess.size < MaxRequests /\ tAccess' = [tAccess EXCEPT !.size = @ + 1]
    /\ UNCHANGED <<logVars, tRolled, tOffset, tRoll, tCounted, tBlind, tSlot, tNode, tReads>>

\* Caddy renames a file that has grown large and begins a new one.
LogRolls ==
    /\ tAccess.size > 0 /\ tAccess.file < MaxFiles
    /\ tRolled' = Append(tRolled, tAccess.size)
    /\ tAccess' = [file |-> tAccess.file + 1, size |-> 0]
    /\ UNCHANGED <<logVars, tOffset, tRoll, tCounted, tBlind, tSlot, tNode, tReads>>

LogsNext ==
    \/ CooldownEnds
    \/ \E b \in BOOLEAN : Ingest(b)
    \/ \E f \in LogFlushers : CollectExpiredBatches(f) \/ \E b \in BOOLEAN : HandleReportLogBatch(f, b)

MetricsNext ==
    \/ WindowEnds \/ RequestServed \/ LogRolls
    \/ \E now \in 0..1 : FeedToAggregator(now)
    \/ \E r \in Rollups, b \in BOOLEAN :
          TakeWindows(r, b) \/ OpenAccessLog(r) \/ SeekOffset(r) \/ ReadAccessLog(r, b) \/ HandleReportMetricRollup(r)

TelemetryNext == LogsNext \/ MetricsNext

TelemetrySpec == TelemetryInit /\ [][TelemetryNext]_telemetryVars

\* A line that was logged is in one place and is sent once at most: a flush of the
\* main loop and one a command asks for never send it twice (CollectExpiredBatches).
EntrySentOnce ==
    \A l \in 1..tLines :
        tSent[l] + (IF l \in tBuffer THEN 1 ELSE 0) + Cardinality({f \in LogFlushers : l \in tFlush[f]}) <= 1

\* What the aggregator has passed of a file was counted by some rollup, whatever
\* rollups overlap or fail half-way and however the log rolls, until a rollup takes a
\* new file that has grown past the offset for the old one (countNewAccessLogEntries).
\* Overlapping rollups may count a request twice, and what rolls away before a rollup
\* has opened it is never counted.
NoRequestSkipped == ~tBlind => \A q \in 1..tOffset.at : <<tOffset.file, q>> \in tCounted

\* What leaves the node: no line is sent twice by the flushes, no request skipped in
\* the middle of a file by the rollups.
NothingTwiceNorSkipped == EntrySentOnce /\ NoRequestSkipped

-----------------------------------------------------------------------------
(* The goroutines that follow a log (agent runtime/live_log_watchers.go,   *)
(* and the gateway's file watchers): one per key, replaced by a later one, *)
(* each removing its own registration when it ends.                        *)

CONSTANTS LogKeys, MaxFollowers

ASSUME FollowersAssumption == MaxFollowers \in Nat

VARIABLES
    followers,    \* id -> [key, cancelled, running]; ids count from 1
    registered    \* key -> id of the handle in the map, 0 for none

followerVars == <<followers, registered>>

FollowersInit == followers = <<>> /\ registered = [k \in LogKeys |-> 0]

Cancelled(fs, id) == [i \in DOMAIN fs |-> IF i = id THEN [fs[i] EXCEPT !.cancelled = TRUE] ELSE fs[i]]

\* startDockerLogFollower, startGatewayFileWatcher: the handle is swapped under the
\* lock, the one it replaces is cancelled after it; here that is one step.
startFollower(k) ==
    LET id == Cardinality(DOMAIN followers) + 1 IN
    /\ id <= MaxFollowers
    /\ followers' = [i \in 1 .. id |-> IF i = id THEN [key |-> k, cancelled |-> FALSE, running |-> TRUE]
                                       ELSE Cancelled(followers, registered[k])[i]]
    /\ registered' = [registered EXCEPT ![k] = id]

stopLogFollower(k) ==
    /\ registered[k] # 0
    /\ followers' = Cancelled(followers, registered[k])
    /\ registered' = [registered EXCEPT ![k] = 0]

\* Slip: the registration is removed whoever holds it now.
followEndsUnchecked(id) ==
    /\ followers[id].running
    /\ followers' = [followers EXCEPT ![id].running = FALSE]
    /\ registered' = [registered EXCEPT ![followers[id].key] = 0]

\* The stream ends, by itself or because it was cancelled; clearLogFollower removes
\* the handle only if it is still this follower's.
followEnds(id) ==
    LET k == followers[id].key IN
    /\ followers[id].running
    /\ followers' = [followers EXCEPT ![id].running = FALSE]
    /\ registered' = [registered EXCEPT ![k] = IF @ = id THEN 0 ELSE @]

FollowersNext ==
    \/ \E k \in LogKeys : startFollower(k) \/ stopLogFollower(k)
    \/ \E id \in DOMAIN followers : followEnds(id)

FollowersSpec == FollowersInit /\ [][FollowersNext]_followerVars

\* Whoever follows a log without having been told to stop is the follower the map
\* names, so that it can be stopped; the end of a
\* replaced follower races the start of its successor (clearLogFollower).
NoStrayFollower ==
    \A id \in DOMAIN followers :
        followers[id].running /\ ~followers[id].cancelled => registered[followers[id].key] = id

=============================================================================
