----------------------------- MODULE ReleaseRules ----------------------------
(***************************************************************************)
(* What the standalone agent's commands do to the release of one binding:  *)
(* the candidate record of each revision, the traffic record of the        *)
(* binding and the revision cache in the agent's state file                *)
(* (agent/internal/runtime/{candidate,health_gate,promotion,rollback}.go). *)
(* These are functions of the values a handler has read; when it reads and *)
(* writes them is the matter of AgentRelease and RolloutExecution.         *)
(***************************************************************************)
CONSTANTS
    Revisions,  \* revision ids of one binding
    None        \* the empty revision id

ASSUME NoneAssumption == None \notin Revisions

(* "none": no workspace on disk; "workspace": prepared, no candidate       *)
(* record.  Healthy and unhealthy are passed through inside one handler    *)
(* and never saved.                                                        *)
CandidateStates == {"none", "workspace", "starting", "promotable", "failed"}

OptRevision == Revisions \cup {None}

(* TrafficShiftRecord and RevisionCache, as far as a rollback reads them.  *)
(* The cache's current and stable revision are always written together.    *)
TrafficRecords == [active : OptRevision, prev : OptRevision]
Caches == [current : OptRevision, prev : OptRevision]

NoTraffic == [active |-> None, prev |-> None]
EmptyCache == [current |-> None, prev |-> None]

firstNonEmpty(a, b) == IF a # None THEN a ELSE b

Unless(a, b) == IF a = b THEN None ELSE a

(* StartReleaseCandidate records a candidate for a prepared workspace and  *)
(* leaves one that exists as it is.                                        *)
Started(c) == IF c = "workspace" THEN "starting" ELSE c

(* Slip: a failed candidate passes a later health gate. *)
moveCandidateToPromotableAny(c) ==
    IF c \in {"starting", "failed"} THEN "promotable" ELSE c

(* A failed candidate stays failed: the gate's success is then an error.   *)
moveCandidateToPromotable(c) == IF c = "starting" THEN "promotable" ELSE c

moveCandidateToFailed(c) == IF c \in {"starting", "promotable"} THEN "failed" ELSE c

(* PromoteRelease: the revision the cache holds as current becomes the     *)
(* previous stable one, unless it is r itself.                             *)
PromotedTraffic(r, cache) ==
    [active |-> r, prev |-> Unless(cache.current, r)]

(* The plan of a rollback commanded for r: a revision that is neither the  *)
(* stable nor the serving one is a failed candidate, and the stable one is *)
(* kept; otherwise the serving revision is replaced by the previous one.   *)
selectRollbackPlan(r, cache, traffic) ==
    LET stable == firstNonEmpty(cache.current, traffic.active)
        prev == firstNonEmpty(cache.prev, traffic.prev)
    IN  IF r \notin {stable, traffic.active}
        THEN [failed |-> r, restored |-> stable]
        ELSE [failed |-> traffic.active, restored |-> Unless(prev, traffic.active)]

RolledBackTraffic(plan) == [active |-> plan.restored, prev |-> plan.failed]

(* annotateRolledBackCandidate, on the record of the commanded revision. *)
RolledBackCandidate(c) == IF c = "promotable" THEN "failed" ELSE c

=============================================================================
