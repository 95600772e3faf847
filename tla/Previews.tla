------------------------------ MODULE Previews ------------------------------
(***************************************************************************)
(* Preview environments of pull requests                                   *)
(* (service/preview_environment_service.go).  A preview is a row that is   *)
(* never deleted; a row has a random primary key, and looking a pull       *)
(* request up takes the first row in key order, so any of its rows.  The   *)
(* application builds the service and calls none of its operations yet:    *)
(* they are modelled as the service offers them, overlapping as they like. *)
(***************************************************************************)
EXTENDS Naturals, Sequences, FiniteSets, SequencesExt

CONSTANTS PRs,           \* pull requests of one project
          Creations,     \* calls of CreateFromPR that may run at once
          MaxPreviews    \* bound on the creations that pass their checks

VARIABLES previews,      \* the rows in creation order: [pr, status, stale, reason]
          previewing,    \* whether previews are enabled on the project's link
          creating,      \* call -> [pc, pr]: how far a creation has come
          prWrites,      \* rows written: [checked, revisions, deployments]
          crossed        \* pull requests of which two creations ran at once

previewVars == <<previews, previewing, creating, prWrites, crossed>>

\* What UpdatePreviewStatus is given; destroying has its own operations.
PreviewStatuses == {"provisioning", "active", "failed"}

NoCreation(pr) == [pc |-> "idle", pr |-> pr]
FirstPR == CHOOSE pr \in PRs : TRUE

PreviewsInit ==
    /\ previews = <<>>
    /\ previewing = TRUE
    /\ creating = [c \in Creations |-> NoCreation(FirstPR)]
    /\ prWrites = [checked |-> 0, revisions |-> 0, deployments |-> 0]
    /\ crossed = {}

Rows(pr)  == {i \in DOMAIN previews : previews[i].pr = pr}
Live(i)   == previews[i].status # "destroyed"

\* The rows GetByPRNumber may return; 0 when there is none.
GetByPRNumber(pr) == IF Rows(pr) = {} THEN {0} ELSE Rows(pr)

\* CreateFromPR up to its first write: the flag of the link, then a row of the
\* pull request that is not destroyed.
CreateCheck(c, pr) ==
    /\ creating[c].pc = "idle" /\ previewing /\ prWrites.checked < MaxPreviews
    /\ \E i \in GetByPRNumber(pr) : IF i = 0 THEN TRUE ELSE ~Live(i)
    /\ creating' = [creating EXCEPT ![c] = [pc |-> "checked", pr |-> pr]]
    /\ crossed' = IF \E d \in Creations : creating[d].pc # "idle" /\ creating[d].pr = pr
                  THEN crossed \cup {pr} ELSE crossed
    /\ prWrites' = [prWrites EXCEPT !.checked = @ + 1]
    /\ UNCHANGED <<previews, previewing>>

\* A revision, then a deployment, in state queued.
CreateRevision(c) ==
    /\ creating[c].pc = "checked" /\ creating' = [creating EXCEPT ![c].pc = "revised"]
    /\ prWrites' = [prWrites EXCEPT !.revisions = @ + 1]
    /\ UNCHANGED <<previews, previewing, crossed>>
CreateDeployment(c) ==
    /\ creating[c].pc = "revised" /\ creating' = [creating EXCEPT ![c].pc = "deployed"]
    /\ prWrites' = [prWrites EXCEPT !.deployments = @ + 1]
    /\ UNCHANGED <<previews, previewing, crossed>>

\* The row of the preview; nothing keeps a pull request to one of them.
CreateFromPR(c) ==
    /\ creating[c].pc = "deployed" /\ creating' = [creating EXCEPT ![c].pc = "idle"]
    /\ previews' = Append(previews, [pr |-> creating[c].pr, status |-> "provisioning",
                                     stale |-> FALSE, reason |-> ""])
    /\ UNCHANGED <<previewing, prWrites, crossed>>

\* A write fails, or the process ends; what was written before stays.
CreationEnds(c) ==
    /\ creating[c].pc # "idle" /\ creating' = [creating EXCEPT ![c].pc = "idle"]
    /\ UNCHANGED <<previews, previewing, prWrites, crossed>>

Destroyed(row, why) == [row EXCEPT !.status = "destroyed", !.reason = why]

DestroyPreview(i) ==
    /\ Live(i)
    /\ previews' = [previews EXCEPT ![i] = Destroyed(@, "request")]
    /\ UNCHANGED <<previewing, creating, prWrites, crossed>>

\* A row that is destroyed already is returned as it is.
DestroyPreviewByPR(pr) ==
    \E i \in GetByPRNumber(pr) : i # 0 /\ DestroyPreview(i)

\* Every preview older than the limit that is neither destroyed nor failed.
CleanupStalePreviews ==
    /\ \E i \in DOMAIN previews : previews[i].stale
    /\ previews' = [i \in DOMAIN previews |->
          IF previews[i].stale /\ previews[i].status \notin {"destroyed", "failed"}
          THEN Destroyed(previews[i], "stale_preview_auto_cleanup") ELSE previews[i]]
    /\ UNCHANGED <<previewing, creating, prWrites, crossed>>

\* The status is written whatever the row's status is.
UpdatePreviewStatus(i, status) ==
    /\ previews' = [previews EXCEPT ![i].status = status]
    /\ UNCHANGED <<previewing, creating, prWrites, crossed>>

Age(i) ==
    /\ previews' = [previews EXCEPT ![i].stale = TRUE]
    /\ UNCHANGED <<previewing, creating, prWrites, crossed>>

\* LinkRepository sets the flag of the link.
SetPreviewing ==
    /\ previewing' = ~previewing
    /\ UNCHANGED <<previews, creating, prWrites, crossed>>

PreviewsNext ==
    \/ SetPreviewing \/ CleanupStalePreviews
    \/ \E pr \in PRs : DestroyPreviewByPR(pr) \/ \E c \in Creations : CreateCheck(c, pr)
    \/ \E c \in Creations :
          CreateRevision(c) \/ CreateDeployment(c) \/ CreateFromPR(c) \/ CreationEnds(c)
    \/ \E i \in DOMAIN previews :
          \/ DestroyPreview(i) \/ Age(i)
          \/ \E s \in PreviewStatuses : UpdatePreviewStatus(i, s)

\* Unless two creations for a pull request ran at once, it has two live previews
\* only if one of its rows was destroyed before: ErrPreviewAlreadyExists refuses a
\* second one until then, whatever happened to the first meanwhile and whichever
\* creations stopped half-way (CreateFromPR, GetByPRNumber).
SecondPreviewAfterDestroy ==
    \A pr \in PRs \ crossed : Cardinality({i \in Rows(pr) : Live(i)}) > 1 =>
        \E i \in Rows(pr) : previews[i].reason # "" \/ ~Live(i)
=============================================================================
