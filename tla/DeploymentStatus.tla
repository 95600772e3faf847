-------------------------- MODULE DeploymentStatus --------------------------
(***************************************************************************)
(* The status values of deployments and desired-state revisions and the    *)
(* transition tables every checked status change consults                  *)
(* (backend/internal/service/deployment_service.go).  The revision         *)
(* statuses draft, building and superseded are in the tables although no   *)
(* code of the repository ever writes them.                                *)
(***************************************************************************)

RevisionStatus ==
    {"draft", "queued", "building", "artifact_ready", "planned", "applying"} \cup
    {"promoted", "failed", "rolled_back", "superseded"}

DeploymentStatusSet ==
    {"queued", "running", "candidate_ready", "promoted", "failed"} \cup
    {"rolled_back", "canceled"}

RevisionSuccessors ==
    [s \in RevisionStatus |->
        CASE s = "draft" -> {"queued", "building", "planned", "failed", "superseded"}
          [] s = "queued" -> {"building", "planned", "failed", "superseded"}
          [] s = "building" -> {"artifact_ready", "failed", "superseded"}
          [] s = "artifact_ready" -> {"planned", "failed", "superseded"}
          [] s = "planned" -> {"applying", "failed", "superseded"}
          [] s = "applying" -> {"promoted", "failed", "rolled_back"}
          [] s = "promoted" -> {"rolled_back", "superseded"}
          [] OTHER -> {}]

DeploymentSuccessors ==
    [s \in DeploymentStatusSet |->
        CASE s = "queued" -> {"running", "failed", "canceled"}
          [] s = "running" -> {"candidate_ready", "promoted", "failed", "rolled_back", "canceled"}
          [] s = "candidate_ready" -> {"promoted", "failed", "rolled_back", "canceled"}
          [] s = "promoted" -> {"rolled_back"}
          [] OTHER -> {}]

canTransitionRevisionStatus(current, next) ==
    current = next \/ next \in RevisionSuccessors[current]

canTransitionDeploymentStatus(current, next) ==
    current = next \/ next \in DeploymentSuccessors[current]

(* A deployment or revision in one of these has been taken up by a rollout. *)
rolloutAlreadyStarted(deploymentStatus, revisionStatus) ==
    \/ deploymentStatus # "queued"
    \/ revisionStatus \in {"planned", "applying", "promoted", "failed", "rolled_back", "superseded"}

-----------------------------------------------------------------------------
(* What the page of a deployment makes of the two statuses (Get): the      *)
(* state it shows and the buttons it offers.                               *)

(* A deployment counts as promoted when either status says so. *)
buildDeploymentOverview(d, r) ==
    [build |-> r, rollout |-> d, promoted |-> d = "promoted" \/ r = "promoted"]

(* Slip: a deployment that still waits cannot be canceled, one that ended  *)
(* in failure can be rolled back.                                          *)
ButtonsByTable(o) ==
    (IF o.rollout = "candidate_ready" THEN {"promote"} ELSE {}) \cup
    (IF o.rollout \in {"running", "candidate_ready"} THEN {"cancel"} ELSE {}) \cup
    (IF o.rollout \in {"promoted", "failed"} THEN {"rollback"} ELSE {})

(* buildDeploymentDetail: can_promote, can_cancel and can_rollback. *)
ButtonsOffered(o) ==
    (IF o.rollout = "candidate_ready" /\ ~o.promoted THEN {"promote"} ELSE {}) \cup
    (IF o.rollout \in {"queued", "running", "candidate_ready"} THEN {"cancel"} ELSE {}) \cup
    (IF o.rollout = "promoted" \/ o.build = "promoted" THEN {"rollback"} ELSE {})

(* Act on a button: the status each of the two rows is to get.  Promote    *)
(* and rollback move the revision first, cancel the deployment; only       *)
(* cancel puts up with a revision that cannot be moved.                    *)
StatusesAsked == [promote  |-> [dep |-> "promoted", rev |-> "promoted"],
          rollback |-> [dep |-> "rolled_back", rev |-> "rolled_back"],
          cancel   |-> [dep |-> "canceled", rev |-> "failed"]]

ButtonAccepted(button, d, r) ==
    /\ canTransitionDeploymentStatus(d, StatusesAsked[button].dep)
    /\ button # "cancel" => canTransitionRevisionStatus(r, StatusesAsked[button].rev)

=============================================================================
