------------------------------ MODULE Bootstrap ------------------------------
(***************************************************************************)
(* The bootstrap orchestrator of one project                               *)
(* (backend/internal/service/bootstrap_orchestrator.go) and the deployment *)
(* bindings it writes (deployment_binding_service.go).  A binding says in  *)
(* which runtime mode, on which target, the project is deployed.  Three    *)
(* writers meet on them: the owner by hand, AutoBootstrap, and the hook    *)
(* that runs whenever an instance or cluster changes; the last two read    *)
(* the bindings and the inventory before they write the row of reference   *)
(* "auto-primary".  The status page derives, from the same tables, whether *)
(* a deployment may be started with one click, and OneClickDeploy decides  *)
(* again for itself.                                                       *)
(***************************************************************************)
EXTENDS Naturals, Sequences, SequencesExt, DeploymentStatus

CONSTANTS BootCalls,     \* calls that may be under way at the same time
          BootTargets,   \* the targets the owner may come to have
          ServiceSets,   \* the sets of services the owner may configure
          MaxBindings,   \* bound on the bindings of the project
          MaxHistory,    \* bound on its builds and deployments
          MaxChanges     \* bound on the steps of everything around the orchestrator

VARIABLES services,   \* the configured services, a subset of AllServices
          linked,     \* whether a repository is linked
          installation, \* the owner's installation: "hidden" when it does not show the repository,
                        \* "shown" or "revoked"
          inventory,  \* the owner's targets and their statuses
          bindings,   \* the rows, in the order they were created
          history,    \* builds and deployments, in the order they were created
          calls, changes

bootVars == <<services, linked, installation, inventory, bindings, history, calls, changes>>

(* web declares its port, api declares none and has no image; db is internal. *)
RepoServices == services \ {"db"}

(* Targets, in the order the stores list them. *)
Clusters == <<"c1", "c2">>
Meshes == <<"m1">>
Instances == <<"i1">>
Statuses == {"absent", "down", "up"}
Targets == UNION {ToSet(s) : s \in {Clusters, Meshes, Instances}}

KindOf == [t \in Targets |-> CASE t \in ToSet(Clusters) -> "cluster"
                               [] t \in ToSet(Meshes) -> "mesh"
                               [] OTHER -> "instance"]
Modes == {"standalone", "distributed-mesh", "distributed-k3s"}
AutoPrimary == "auto-primary"

Commands == [lock : Modes \cup {"none"}, prefer : ToSet(Clusters) \cup {"none"},
             by : {"user", "inventory"}]

Fits(mode, kind) ==
    CASE kind = "instance" -> mode \in {"standalone", "distributed-mesh"}
      [] kind = "mesh" -> mode = "distributed-mesh"
      [] OTHER -> mode = "distributed-k3s"

-----------------------------------------------------------------------------
(* Choosing a mode and a target. *)

listed(inv, order) == {t \in ToSet(order) : inv[t] # "absent"}
healthy(inv, order) == {t \in ToSet(order) : inv[t] = "up"}

(* Without a lock the mode is always k3s, with or without a cluster. *)
inferBootstrapMode(lock) == IF lock = "none" THEN "distributed-k3s" ELSE lock

firstHealthy(inv, order) ==
    LET up == {i \in DOMAIN order : inv[order[i]] = "up"}
    IN  IF up = {} THEN "none" ELSE order[CHOOSE i \in up : \A j \in up : i <= j]

(* The preferred cluster is taken as soon as it exists, ready or not. *)
chooseBindingTarget(inv, mode, prefer) ==
    CASE mode = "distributed-k3s" ->
            IF prefer \in listed(inv, Clusters) THEN prefer ELSE firstHealthy(inv, Clusters)
      [] mode = "distributed-mesh" -> firstHealthy(inv, Meshes \o Instances)
      [] OTHER -> firstHealthy(inv, Instances)

AutoIndex(bs) == {i \in DOMAIN bs : bs[i].ref = AutoPrimary}

(* The automatic binding if there is one, else the oldest; empty: none. *)
resolvePrimaryBinding ==
    {bindings[i] : i \in IF AutoIndex(bindings) # {} THEN AutoIndex(bindings)
                        ELSE {1} \cap DOMAIN bindings}

-----------------------------------------------------------------------------
(* The status page. *)

codeVisible == IF RepoServices = {} \/ linked \/ installation = "shown" THEN "healthy" ELSE "missing"
codeState == IF RepoServices = {} \/ linked THEN "healthy" ELSE "missing"

deriveInfraState ==
    IF healthy(inventory, Clusters) # {} THEN "ready"
    ELSE IF listed(inventory, Clusters) \cup listed(inventory, Instances) # {} THEN "degraded"
    ELSE "missing"

Builds == {i \in DOMAIN history : history[i].kind = "build"}
Deployments == {i \in DOMAIN history : history[i].kind = "deployment"}
Newest(s) == CHOOSE i \in s : \A j \in s : j <= i

findLatestDeployment == IF Deployments = {} THEN 0 ELSE Newest(Deployments)

(* A deployment counts as promoted when it or its revision is. *)
findStableDeployment ==
    {i \in Deployments : "promoted" \in {history[i].status, history[i].rev}}

(* A finished build is shown until a deployment newer than it exists. *)
latestBuildShouldSurface ==
    /\ Builds # {}
    /\ \/ history[Newest(Builds)].status \in {"queued", "running"}
       \/ findLatestDeployment < Newest(Builds)

(* A succeeded build always carries details, so it shows as an error until *)
(* its deployment appears.                                                 *)
buildState ==
    IF history[Newest(Builds)].status \in {"queued", "running"} THEN "building" ELSE "error"

(* `stuck` says that the newest deployment showed no activity for longer   *)
(* than bootstrapDeployStuckTimeout.                                       *)
deriveDeployState(stuck) ==
    IF \/ services = {}
       \/ RepoServices # {} /\ codeState # "healthy"
       \/ deriveInfraState = "missing" THEN "blocked"
    ELSE IF latestBuildShouldSurface THEN buildState
    ELSE IF Deployments = {} THEN "ready"
    ELSE    LET status == history[findLatestDeployment].status
            IN  CASE status \in {"queued", "running", "candidate_ready"} ->
                        IF stuck THEN "error" ELSE "deploying"
                  [] status = "promoted" -> "healthy"
                  [] status = "rolled_back" -> "rolled_back"
                  [] OTHER -> "error"

deriveOverallState(deploy) ==
    CASE deploy \in {"building", "deploying"} -> deploy
      [] deploy = "healthy" -> "running"
      [] deploy \in {"error", "rolled_back"} -> "attention_required"
      [] codeState = "healthy" /\ deriveInfraState = "ready" /\ deploy = "ready" ->
            "ready_to_deploy"
      [] codeState = "missing" /\ deriveInfraState = "missing" -> "not_ready"
      [] OTHER -> "partially_ready"

(* What the page says of the workload, its sidecar and internal services.  *)
runtimeInventory ==
    LET latest == IF Deployments = {} THEN "none" ELSE history[findLatestDeployment].status
        moving == latest \in {"queued", "running", "candidate_ready"}
    IN  IF findStableDeployment # {}
        THEN [sync |-> "synced", app |-> "live", internal |-> "running"]
        ELSE [sync |-> CASE latest = "none" -> "missing" [] moving -> "progressing"
                         [] OTHER -> "stale",
              app |-> CASE latest \in {"none", "promoted"} -> "unavailable"
                        [] latest = "running" -> "starting"
                        [] latest \in {"queued", "candidate_ready"} -> latest
                        [] OTHER -> "inactive",
              internal |-> IF moving THEN "starting" ELSE "configured"]

-----------------------------------------------------------------------------
(* One-click deployment. *)

(* On a k3s binding every repo service needs an image (one image given     *)
(* with the command serves a single repo service) and a known port.        *)
validateOneClickDeployReadiness(binding, image) ==
    \/ binding.mode # "distributed-k3s" \/ RepoServices = {}
    \/ image /\ RepoServices = {"web"}

(* The checks that come before anything is queued or created. *)
OneClickAllowed ==
    /\ services # {}
    /\ RepoServices = {} \/ linked
    /\ resolvePrimaryBinding # {}

(* A build is made with the installation the link names, if not revoked.   *)
resolveRepoLinkGitHubInstallationID == installation # "revoked"

enqueueOneClickRepoBuild ==
    /\ resolveRepoLinkGitHubInstallationID
    /\ history' = IF \E i \in Builds : history[i].status \in {"queued", "running"} THEN history
                  ELSE Append(history, [kind |-> "build", status |-> "queued", rev |-> "none"])

Idle == [pc |-> "idle"]

(* The deployment is created, then started; a start that fails for a       *)
(* reason other than "not yet" marks the revision and the deployment       *)
(* failed, in two checked transitions.                                     *)
OneClickDeploy(c) == \E image \in BOOLEAN, outcome \in {"started", "pending", "failed"} :
    /\ calls[c] = Idle /\ OneClickAllowed /\ Len(history) < MaxHistory
    /\ IF RepoServices # {} /\ ~image
       THEN enqueueOneClickRepoBuild /\ UNCHANGED calls
       ELSE /\ \E binding \in resolvePrimaryBinding : validateOneClickDeployReadiness(binding, image)
            /\ history' = Append(history, [kind |-> "deployment",
                    status |-> IF outcome = "started" THEN "running" ELSE "queued",
                    rev |-> IF outcome = "started" THEN "applying" ELSE "queued"])
            /\ calls' = IF outcome # "failed" THEN calls
                        ELSE [calls EXCEPT ![c] = [pc |-> "failrev", at |-> Len(history) + 1]]
    /\ UNCHANGED <<services, linked, installation, inventory, bindings, changes>>

(* TransitionRevisionStatus, then TransitionDeploymentStatus; a transition *)
(* that is not allowed any more is ignored.                                *)
markOneClickRolloutFailed(c) ==
    /\ calls[c].pc \in {"failrev", "faildep"}
    /\ LET i == calls[c].at
           h == history[i]
       IN  IF calls[c].pc = "failrev"
           THEN /\ history' = IF canTransitionRevisionStatus(h.rev, "failed")
                              THEN [history EXCEPT ![i].rev = "failed"] ELSE history
                /\ calls' = [calls EXCEPT ![c].pc = "faildep"]
           ELSE /\ history' = IF canTransitionDeploymentStatus(h.status, "failed")
                              THEN [history EXCEPT ![i].status = "failed"] ELSE history
                /\ calls' = [calls EXCEPT ![c] = Idle]
    /\ UNCHANGED <<services, linked, installation, inventory, bindings, changes>>

(* Steps outside the orchestrator; together they are bounded.              *)
Change == changes < MaxChanges /\ changes' = changes + 1

-----------------------------------------------------------------------------
(* The writers of the bindings. *)

(* The command of AutoBootstrap names a lock and a preferred cluster; the  *)
(* one of OnInventoryChanged names neither.                                *)
AutoBootstrap(c) == \E cmd \in Commands :
    /\ calls[c] = Idle
    /\ cmd.by = "inventory" => cmd.lock = "none" /\ cmd.prefer = "none"
    /\ calls' = [calls EXCEPT ![c] =
            [pc |-> IF cmd.by = "user" THEN "link" ELSE "bindings", cmd |-> cmd]]
    /\ UNCHANGED <<services, linked, installation, inventory, bindings, history, changes>>

(* The repository is linked when it is not and an installation shows it;   *)
(* not finding it is no error.                                             *)
ensureRepoLink(c) ==
    /\ calls[c].pc = "link"
    /\ linked' = (linked \/ installation = "shown")
    /\ calls' = [calls EXCEPT ![c].pc = "bindings"]
    /\ UNCHANGED <<services, installation, inventory, bindings, history, changes>>

(* A project with bindings of its own and no automatic one is left alone. *)
readBindings(c) ==
    /\ calls[c].pc = "bindings"
    /\ calls' = [calls EXCEPT ![c] =
            IF AutoIndex(bindings) = {} /\ bindings # <<>> THEN Idle
            ELSE [pc |-> "inventory", cmd |-> calls[c].cmd, seen |-> AutoIndex(bindings) # {}]]
    /\ UNCHANGED <<services, linked, installation, inventory, bindings, history, changes>>

(* The choice is made on the inventory read here; there is no target when  *)
(* none of the mode's kind qualifies, and the call ends without a write.   *)
collectInventory(c) ==
    /\ calls[c].pc = "inventory"
    /\ LET cmd == calls[c].cmd
           mode == inferBootstrapMode(cmd.lock)
           target == chooseBindingTarget(inventory, mode, cmd.prefer)
       IN  calls' = [calls EXCEPT ![c] =
                IF target = "none" THEN Idle
                ELSE [pc |-> "upsert", mode |-> mode, target |-> target,
                      by |-> IF cmd.lock # "none" THEN "lock" ELSE cmd.by]]
    /\ UNCHANGED <<services, linked, installation, inventory, bindings, history, changes>>

(* UpsertAuto: one row of reference auto-primary, inserted or overwritten. *)
ensureBinding(c) ==
    /\ calls[c].pc = "upsert"
    /\ LET row == [ref |-> AutoPrimary, mode |-> calls[c].mode, target |-> calls[c].target,
                   by |-> calls[c].by]
       IN  IF AutoIndex(bindings) # {}
           THEN bindings' = [i \in DOMAIN bindings |->
                                IF bindings[i].ref = AutoPrimary THEN row ELSE bindings[i]]
           ELSE /\ Len(bindings) < MaxBindings
                /\ bindings' = Append(bindings, row)
    /\ calls' = [calls EXCEPT ![c] = Idle]
    /\ UNCHANGED <<services, linked, installation, inventory, history, changes>>

(* DeploymentBindingService.Create: a reference may be used once, and the  *)
(* mode must suit the target, whose status is not looked at.               *)
CreateBinding == \E ref \in {"prod", "stage"}, mode \in Modes, target \in Targets :
    /\ Change /\ Len(bindings) < MaxBindings
    /\ inventory[target] # "absent"
    /\ \A i \in DOMAIN bindings : bindings[i].ref # ref
    /\ Fits(mode, KindOf[target])
    /\ bindings' = Append(bindings, [ref |-> ref, mode |-> mode, target |-> target, by |-> "hand"])
    /\ UNCHANGED <<services, linked, installation, inventory, history, calls>>

-----------------------------------------------------------------------------
(* The tables others write. *)

ServicesChange == \E new \in ServiceSets :
    /\ Change /\ new # services
    /\ services' = new
    /\ UNCHANGED <<linked, installation, inventory, bindings, history, calls>>

(* A target never disappears; its status changes with the agents'.         *)
TargetChanges == \E t \in BootTargets, status \in Statuses \ {"absent"} :
    /\ Change /\ inventory[t] # status
    /\ inventory' = [inventory EXCEPT ![t] = status]
    /\ UNCHANGED <<services, linked, installation, bindings, history, calls>>

(* A sync revokes the installation or finds it again; a link stays.        *)
InstallationSynced == \E new \in {"hidden", "shown", "revoked"} :
    /\ Change /\ installation' = new /\ new # installation
    /\ UNCHANGED <<services, linked, inventory, bindings, history, calls>>

(* A worker takes the build up and its callback settles it; a build that   *)
(* succeeds usually creates the deployment.                                *)
BuildMoves == \E i \in Builds, outcome \in {"running", "succeeded", "failed"}, deploys \in BOOLEAN :
    /\ Change
    /\ history[i].status = IF outcome = "running" THEN "queued" ELSE "running"
    /\ deploys => outcome = "succeeded" /\ Len(history) < MaxHistory
    /\ LET settled == [history EXCEPT ![i].status = outcome]
       IN  history' = IF deploys
                      THEN Append(settled, [kind |-> "deployment", status |-> "queued", rev |-> "queued"])
                      ELSE settled
    /\ UNCHANGED <<services, linked, installation, inventory, bindings, calls>>

(* Where rollouts leave a deployment and its revision, the status of one   *)
(* written before that of the other.                                       *)
RolloutPairs == {<<"running", "planned">>, <<"candidate_ready", "applying">>,
    <<"candidate_ready", "promoted">>, <<"promoted", "promoted">>, <<"promoted", "rolled_back">>,
    <<"rolled_back", "promoted">>, <<"rolled_back", "rolled_back">>, <<"failed", "failed">>}

RolloutMoves == \E i \in Deployments, p \in RolloutPairs :
    /\ Change
    /\ history[i].status \in {"queued", "running", "candidate_ready", "promoted"}
    /\ history[i].status = "promoted" => p[1] = "rolled_back" \/ p[2] = "rolled_back"
    /\ history' = [history EXCEPT ![i].status = p[1], ![i].rev = p[2]]
    /\ UNCHANGED <<services, linked, installation, inventory, bindings, calls>>

BootInit ==
    /\ services \in ServiceSets /\ linked = FALSE /\ installation = "hidden"
    /\ inventory = [t \in Targets |-> "absent"]
    /\ bindings = <<>> /\ history = <<>>
    /\ calls = [c \in BootCalls |-> Idle] /\ changes = 0

BootNext ==
    \/ \E c \in BootCalls :
        \/ AutoBootstrap(c) \/ ensureRepoLink(c) \/ readBindings(c) \/ collectInventory(c)
        \/ ensureBinding(c) \/ OneClickDeploy(c) \/ markOneClickRolloutFailed(c)
    \/ CreateBinding \/ ServicesChange \/ TargetChanges \/ InstallationSynced
    \/ BuildMoves \/ RolloutMoves

BootSpec == BootInit /\ [][BootNext]_bootVars

-----------------------------------------------------------------------------
(* Properties. *)

(* The owner's click names no image: repository services are built first. *)
ClickIsAccepted ==
    /\ OneClickAllowed
    /\ IF RepoServices # {} THEN resolveRepoLinkGitHubInstallationID
       ELSE \E binding \in resolvePrimaryBinding : validateOneClickDeployReadiness(binding, FALSE)

(* The page and the endpoint agree: when the page offers "deploy now"      *)
(* (deployState ready) and the project has a binding, OneClickDeploy does  *)
(* not refuse, whatever order services, repository, inventory, builds and  *)
(* deployments changed in, unless the services are built from a repository *)
(* whose installation is revoked: the page only looks for the link.        *)
ReadyIsAccepted ==
    \A stuck \in BOOLEAN :
        /\ deriveDeployState(stuck) = "ready" /\ resolvePrimaryBinding # {}
        /\ RepoServices # {} => installation # "revoked"
        => ClickIsAccepted

(* Not so: a page may say ready although the installation is revoked.      *)
ReadyIsNeverRefused ==
    \A stuck \in BOOLEAN :
        deriveDeployState(stuck) = "ready" /\ resolvePrimaryBinding # {} => ClickIsAccepted

(* Every writer leaves bindings a rollout can execute: the mode of each    *)
(* binding suits the kind of its target, and at most one is automatic.     *)
BindingsExecutable ==
    /\ \A i \in DOMAIN bindings : Fits(bindings[i].mode, KindOf[bindings[i].target])
    /\ \A i, j \in DOMAIN bindings : bindings[i].ref = bindings[j].ref => i = j

(* The parts of the page agree: the overall state, taken from the newest   *)
(* deployment, says running only while the runtime inventory, taken from   *)
(* the first promoted one, shows a live app.                               *)
PageAgrees == \A stuck \in BOOLEAN :
    deriveOverallState(deriveDeployState(stuck)) = "running" => runtimeInventory.app = "live"

(* What the owner reads on the page is true: "ready" is accepted, but for  *)
(* a revoked installation, "running" is served, and every binding can be   *)
(* executed (GetStatus and OneClickDeploy of bootstrap_orchestrator.go     *)
(* read the same rows by other paths).                                     *)
PageIsTrue == ReadyIsAccepted /\ PageAgrees /\ BindingsExecutable

(* "manual_lock", upshiftAllowed false: a mode the owner locked is not     *)
(* changed by the hook that runs when the inventory changes.               *)
LockHonoured == [][
    \A i \in DOMAIN bindings :
        bindings[i].by = "lock" /\ bindings'[i].by = "inventory"
            => bindings'[i].mode = bindings[i].mode]_bootVars

=============================================================================
