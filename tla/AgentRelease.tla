---------------------------- MODULE AgentRelease ----------------------------
(***************************************************************************)
(* The release commands as the agent runs them.  The control client starts *)
(* a goroutine per command (agent/internal/control/websocket_client.go),   *)
(* the handlers (agent/internal/runtime/service.go) call the filesystem    *)
(* driver and then store.Update, which loads the state file, changes the   *)
(* copy and saves it without holding the lock in between                   *)
(* (agent/internal/state/store.go).  The heartbeat loop                    *)
(* (agent/internal/app/app.go) updates the same file.                      *)
(*                                                                         *)
(* A handler is cut into steps wherever what it read may be stale when it  *)
(* is used: between the load and the save of the state file, and, in the   *)
(* driver, which takes no lock either, between the load and the save of    *)
(* candidate.json and between the read of the traffic record, its write    *)
(* and the candidate record's.                                             *)
(***************************************************************************)
EXTENDS ReleaseRules, TLC

CONSTANTS
    Handlers,  \* goroutines that run commands
    App        \* the goroutine of the heartbeat loop

ASSUME AppAssumption == App \notin Handlers

VARIABLES
    cand,     \* cand[r]: workspace and candidate record of r on disk
    traffic,  \* the binding's live traffic record on disk
    cache,    \* the revision cache in the state file
    pc,       \* pc[w]: the next step of goroutine w
    rev,      \* rev[h]: revision of the command h runs
    seen,     \* seen[h]: candidate state h has loaded and not saved again
    shift,    \* shift[h]: traffic record h is about to write
    copy,     \* copy[w]: revision cache w has loaded, or is about to save
    served    \* history: revisions that have received traffic

vars == <<cand, traffic, cache, pc, rev, seen, shift, copy, served>>
files == <<cand, traffic, cache>>

Writers == Handlers \cup {App}

FirstStep == {"prepare", "start", "gate", "promote", "rollback"}
Steps ==
    FirstStep \cup {"idle", "load", "save"} \cup
    {"start_save", "gate_report", "record"} \cup
    {"promote_check", "promote_shift", "promote_save"} \cup
    {"rollback_plan", "rollback_shift", "annotate", "annotate_save"}

(* The steps that write candidate.json from the record loaded earlier. *)
CandidateSaves == {"start_save", "gate_report", "promote_save", "annotate_save"}

(* Every variable stays in its range. *)
TypeOK ==
    /\ cand \in [Revisions -> CandidateStates]
    /\ traffic \in TrafficRecords
    /\ cache \in Caches
    /\ pc \in [Writers -> Steps]
    /\ rev \in [Handlers -> OptRevision]
    /\ \A h \in Handlers : pc[h] # "idle" => rev[h] \in Revisions
    /\ pc[App] \in {"idle", "save"}
    /\ seen \in [Handlers -> CandidateStates]
    /\ shift \in [Handlers -> TrafficRecords]
    /\ copy \in [Writers -> Caches]
    /\ served \subseteq Revisions

Init ==
    /\ cand = [r \in Revisions |-> "none"]
    /\ traffic = NoTraffic
    /\ cache = EmptyCache
    /\ pc = [w \in Writers |-> "idle"]
    /\ rev = [h \in Handlers |-> None]
    /\ seen = [h \in Handlers |-> "none"]
    /\ shift = [h \in Handlers |-> NoTraffic]
    /\ copy = [w \in Writers |-> EmptyCache]
    /\ served = {}

Goto(w, s) == pc' = [pc EXCEPT ![w] = s]

-----------------------------------------------------------------------------
(* handleInbound: a command for r gets a goroutine of its own. *)
Accept(h, r) ==
    /\ pc[h] = "idle"
    /\ \E s \in FirstStep : Goto(h, s)
    /\ rev' = [rev EXCEPT ![h] = r]
    /\ UNCHANGED <<files, seen, shift, copy, served>>

(* The handler answers with an error, or a result, and ends.  What it read *)
(* is forgotten.                                                           *)
End(h) ==
    /\ Goto(h, "idle")
    /\ rev' = [rev EXCEPT ![h] = None]
    /\ seen' = [seen EXCEPT ![h] = "none"]
    /\ shift' = [shift EXCEPT ![h] = NoTraffic]
    /\ copy' = [copy EXCEPT ![h] = EmptyCache]

(* A command is refused, or a file operation fails before it took effect:  *)
(* an error is answered.                                                   *)
Fail(h) ==
    /\ pc[h] # "idle"
    /\ End(h)
    /\ UNCHANGED <<files, served>>

(* PrepareReleaseWorkspace; on an error the deferred clean-up removes the  *)
(* whole directory of the revision, whatever was there before.             *)
PrepareReleaseWorkspace(h) ==
    LET r == rev[h]
    IN  /\ pc[h] = "prepare"
        /\ \/ /\ cand' = [cand EXCEPT ![r] = IF @ = "none" THEN "workspace" ELSE @]
              /\ Goto(h, "load")
              /\ UNCHANGED <<rev, seen, shift, copy>>
           \/ cand' = [cand EXCEPT ![r] = "none"] /\ End(h)
        /\ UNCHANGED <<traffic, cache, served>>

(* The candidate record of h's revision is loaded, and h goes on at s. *)
LoadCandidate(h, s) ==
    /\ seen' = [seen EXCEPT ![h] = cand[rev[h]]]
    /\ Goto(h, s)
    /\ UNCHANGED <<files, rev, served>>

(* The loaded record is saved in state c, and h goes on at s.  Without its *)
(* directory the write is an error (Fail).                                 *)
SaveCandidate(h, c, s) ==
    /\ cand[rev[h]] # "none"
    /\ cand' = [cand EXCEPT ![rev[h]] = c]
    /\ seen' = [seen EXCEPT ![h] = "none"]
    /\ Goto(h, s)
    /\ UNCHANGED <<traffic, cache, rev, shift, copy, served>>

(* StartReleaseCandidate looks for a record; one that exists is left ...   *)
StartReleaseCandidate(h) ==
    LET exists == cand[rev[h]] # "workspace"
    IN  /\ pc[h] = "start"
        /\ cand[rev[h]] # "none"
        /\ \/ ~exists /\ LoadCandidate(h, "start_save")
           \/ exists /\ Goto(h, "load") /\ UNCHANGED <<files, rev, seen, served>>
        /\ UNCHANGED <<shift, copy>>

(* ... and otherwise a new one is saved. *)
RecordCandidate(h) ==
    /\ pc[h] = "start_save"
    /\ SaveCandidate(h, Started(seen[h]), "load")

(* RunHealthGate reads the candidate, waits for the grace period and the   *)
(* probes, ...                                                             *)
RunHealthGate(h) ==
    /\ pc[h] = "gate"
    /\ cand[rev[h]] \notin {"none", "workspace"}
    /\ LoadCandidate(h, "gate_report")
    /\ UNCHANGED <<shift, copy>>

(* ... and saves the record it read with the verdict.  The verdict of the  *)
(* probes is the environment's choice.                                     *)
HealthGateReport(h) ==
    /\ pc[h] = "gate_report"
    /\ \/ /\ moveCandidateToPromotable(seen[h]) = "promotable"
          /\ SaveCandidate(h, moveCandidateToPromotable(seen[h]), "load")
       \/ SaveCandidate(h, moveCandidateToFailed(seen[h]), "load")

(* Slip: the cache is prepared with the candidate before it has traffic. *)
populateRolloutContextEager(h) ==
    /\ \/ pc[h] = "promote" /\ Goto(h, "record")
       \/ pc[h] = "rollback" /\ Goto(h, "rollback_plan")
    /\ copy' = [copy EXCEPT ![h] =
                  IF pc[h] = "promote" THEN [current |-> rev[h], prev |-> cache.current] ELSE cache]
    /\ UNCHANGED <<files, rev, seen, shift, served>>

(* populateRolloutContext, before a promotion or a rollback. *)
populateRolloutContext(h) ==
    /\ \/ pc[h] = "promote" /\ Goto(h, "promote_check")
       \/ pc[h] = "rollback" /\ Goto(h, "rollback_plan")
    /\ copy' = [copy EXCEPT ![h] = cache]
    /\ UNCHANGED <<files, rev, seen, shift, served>>

(* What the driver has decided and h carries: the traffic record t it will *)
(* write, and the cache c the handler will record.                         *)
Plan(h, t, c) ==
    /\ shift' = [shift EXCEPT ![h] = t]
    /\ copy' = [copy EXCEPT ![h] = c]

(* PromoteRelease: only a candidate it reads as promotable.                *)
PromoteRelease(h) ==
    LET t == PromotedTraffic(rev[h], copy[h])
    IN  /\ pc[h] = "promote_check"
        /\ cand[rev[h]] = "promotable"
        /\ LoadCandidate(h, "promote_shift")
        /\ Plan(h, t, [current |-> rev[h], prev |-> t.prev])

(* RollbackRelease: the plan is made from the traffic record it reads, and *)
(* the restored revision must still have its workspace.  Then processes    *)
(* are stopped and started.                                                *)
RollbackRelease(h) ==
    LET plan == selectRollbackPlan(rev[h], copy[h], traffic)
    IN  /\ pc[h] = "rollback_plan"
        /\ traffic.active # None
        /\ plan.restored # None
        /\ cand[plan.restored] # "none"
        /\ Plan(h, RolledBackTraffic(plan), [current |-> plan.restored, prev |-> None])
        /\ Goto(h, "rollback_shift")
        /\ UNCHANGED <<files, rev, seen, served>>

(* The planned traffic record is written over the one on disk. *)
Shift(h) ==
    /\ \/ pc[h] = "promote_shift" /\ Goto(h, "promote_save")
       \/ pc[h] = "rollback_shift" /\ Goto(h, "annotate")
    /\ traffic' = shift[h]
    /\ served' = served \cup {shift[h].active}
    /\ shift' = [shift EXCEPT ![h] = NoTraffic]
    /\ UNCHANGED <<cand, cache, rev, seen, copy>>

(* PromoteRelease saves the record it read, with a summary added. *)
AnnotatePromoted(h) ==
    /\ pc[h] = "promote_save"
    /\ SaveCandidate(h, seen[h], "record")

(* annotateRolledBackCandidate reads the record once more, when there is   *)
(* one; an error there is only logged.                                     *)
LoadRolledBack(h) ==
    /\ pc[h] = "annotate"
    /\ \/ cand[rev[h]] \notin {"none", "workspace"} /\ LoadCandidate(h, "annotate_save")
       \/ Goto(h, "record") /\ UNCHANGED <<files, rev, seen, served>>
    /\ UNCHANGED <<shift, copy>>

AnnotateRolledBack(h) ==
    /\ pc[h] = "annotate_save"
    /\ \/ SaveCandidate(h, RolledBackCandidate(seen[h]), "record")
       \/ /\ Goto(h, "record")
          /\ seen' = [seen EXCEPT ![h] = "none"]
          /\ UNCHANGED <<files, rev, shift, copy, served>>

(* store.Update after a promotion or a rollback overwrites both fields, so *)
(* its load is of no consequence.                                          *)
RecordShift(h) ==
    /\ pc[h] = "record"
    /\ cache' = copy[h]
    /\ End(h)
    /\ UNCHANGED <<cand, traffic, served>>

(* store.Update of the other commands leaves the two fields as loaded. *)
Load(h) ==
    /\ pc[h] = "load"
    /\ copy' = [copy EXCEPT ![h] = cache]
    /\ Goto(h, "save")
    /\ UNCHANGED <<files, rev, seen, shift, served>>

Save(h) ==
    /\ pc[h] = "save"
    /\ cache' = copy[h]
    /\ End(h)
    /\ UNCHANGED <<cand, traffic, served>>

(* A tick of the heartbeat loop is a store.Update as well. *)
HeartbeatLoad ==
    /\ pc[App] = "idle"
    /\ copy' = [copy EXCEPT ![App] = cache]
    /\ Goto(App, "save")
    /\ UNCHANGED <<files, rev, seen, shift, served>>

HeartbeatSave ==
    /\ pc[App] = "save"
    /\ cache' = copy[App]
    /\ copy' = [copy EXCEPT ![App] = EmptyCache]
    /\ Goto(App, "idle")
    /\ UNCHANGED <<cand, traffic, rev, seen, shift, served>>

(* The agent process dies and restarts: its goroutines are gone, the files *)
(* are as they were.                                                       *)
Crash ==
    /\ pc' = [w \in Writers |-> "idle"]
    /\ rev' = [h \in Handlers |-> None]
    /\ seen' = [h \in Handlers |-> "none"]
    /\ shift' = [h \in Handlers |-> NoTraffic]
    /\ copy' = [w \in Writers |-> EmptyCache]
    /\ UNCHANGED <<files, served>>

Handle(h) ==
    \/ \E r \in Revisions : Accept(h, r)
    \/ Fail(h)
    \/ PrepareReleaseWorkspace(h)
    \/ StartReleaseCandidate(h)
    \/ RecordCandidate(h)
    \/ RunHealthGate(h)
    \/ HealthGateReport(h)
    \/ populateRolloutContext(h)
    \/ PromoteRelease(h)
    \/ RollbackRelease(h)
    \/ Shift(h)
    \/ AnnotatePromoted(h)
    \/ LoadRolledBack(h)
    \/ AnnotateRolledBack(h)
    \/ RecordShift(h)
    \/ Load(h)
    \/ Save(h)

Next ==
    \/ \E h \in Handlers : Handle(h)
    \/ HeartbeatLoad
    \/ HeartbeatSave
    \/ Crash

Spec == Init /\ [][Next]_vars

-----------------------------------------------------------------------------
(* Properties *)

(* The state file only ever names revisions that have served traffic as    *)
(* stable or previous stable, whatever was interrupted, stale or lost: the *)
(* traffic record is written first.                                        *)
CacheNamesServed ==
    /\ cache.current # None => cache.current \in served
    /\ cache.prev # None => cache.prev \in served

(* A revision is never recorded as its own predecessor, in the traffic     *)
(* record or in the cache: a rollback always has somewhere else to go or   *)
(* refuses.                                                                *)
PredecessorDiffers ==
    /\ traffic.active # None => traffic.active # traffic.prev
    /\ cache.current # None => cache.current # cache.prev

(* A candidate that failed its gate leaves that state only with its        *)
(* workspace, or by a command that loaded the record before it failed and  *)
(* saves it only now: no command revives a candidate it has seen failed    *)
(* ("candidate is already failed and must be restarted before another      *)
(* health gate").                                                          *)
FailedIsFinal ==
    [][\A r \in Revisions :
        cand[r] = "failed" /\ cand'[r] \notin {"failed", "none"} =>
            \E h \in Handlers :
                rev[h] = r /\ pc[h] \in CandidateSaves /\ seen[h] # "failed"]_vars

(* A rollback hands traffic to a revision that has carried it before       *)
(* ("traffic returned to stable revision %s after rollback").              *)
RestoresServed ==
    [][\A h \in Handlers :
        (pc[h] = "rollback_shift" /\ pc'[h] = "annotate") => traffic'.active \in served]_vars

(* A stable revision recorded by a promotion or rollback stays recorded    *)
(* until another one replaces it.                                          *)
OnlyShiftsMoveStable ==
    [][cache'.current # cache.current => \E h \in Handlers : pc[h] = "record"]_vars

(* What a later rollback relies on in the state file and the traffic       *)
(* record: revisions that have served, and never one as its own successor. *)
RecordsSound == CacheNamesServed /\ PredecessorDiffers

(* For TLC: revisions and handlers are interchangeable, and no property    *)
(* names one of them.                                                      *)
Symmetry == Permutations(Revisions) \cup Permutations(Handlers)

=============================================================================
