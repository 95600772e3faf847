------------------------------ MODULE K3sNode ------------------------------
(***************************************************************************)
(* Revisions on a k3s cluster (agent runtime/k3s_driver.go,                *)
(* k3s_manifest_validation.go): a revision is reconciled with kubectl, its *)
(* health gate reads the deployments and their pods, a rollback applies    *)
(* the manifest of the stable revision, and each reconciled service has a  *)
(* log tail.  Commands run in a goroutine each; the backend sends one at a *)
(* time for a revision, and revisions overlap.                             *)
(*                                                                         *)
(* The cluster itself is external: kubectl and the pods are as the driver  *)
(* uses them.                                                              *)
(***************************************************************************)
EXTENDS Naturals, FiniteSets

CONSTANTS K3sRevs, K3sServices,
          MaxK3sCalls,    \* bound on commands
          MaxK3sFaults    \* bound on kubectl failures and pods that fail

ASSUME K3sAssumption == MaxK3sCalls \in Nat /\ MaxK3sFaults \in Nat

VARIABLES
    kApplied,    \* the revision whose manifest was applied last, or "stable"
    kPods,       \* service -> [new, old]: the pods of the applied and the replaced manifest
    kCall,       \* revision -> the command in progress [step, left, ok]
    kGate,       \* revision -> what its last health gate said
    kStops,      \* (revision, service) -> the tail whose cancel function is kept, or 0
    kTails,      \* the running tails: [id, key, live]
    kReport,     \* severity of what the last reconciliation reported
    kUsed        \* [calls, faults, tails] so far

k3sVars == <<kApplied, kPods, kCall, kGate, kStops, kTails, kReport, kUsed>>

TailKeys == K3sRevs \X K3sServices
NoK3sCall == [step |-> "idle", left |-> {}, ok |-> TRUE]

\* A service of a manifest as the preflight sees it: whether its name is valid and
\* used once, its kind, its ports, and the documents that stand for it.
SpecFaults == {"none", "bad_name", "duplicate", "no_image", "no_port", "path_without_port", "port_conflict"}
DocFaults  == {"none", "no_service", "no_deployment", "no_secret", "secret_unreferenced",
               "no_pvc", "pvc_unreferenced", "duplicate_doc", "unnamed_doc"}
ManagedKinds == {"postgres", "mysql", "mongodb", "redis", "rabbitmq", "kafka", "internal-db"}

\* validateK3sServicePorts: a managed service needs neither an image nor a port, a
\* private worker without a health check no port.
RequiresImage(kind) == kind \notin ManagedKinds \cup {"eureka-server"}
RequiresPort(kind, worker) == RequiresImage(kind) /\ ~worker
RequiresPVC(kind, sized) == sized \/ kind \in ManagedKinds

SpecRefused(s) ==
    \/ s.spec \in {"bad_name", "duplicate", "path_without_port", "port_conflict"}
    \/ s.spec = "no_image" /\ RequiresImage(s.kind)
    \/ s.spec = "no_port" /\ RequiresPort(s.kind, s.worker)

\* The documents of the services; none at all is only a warning.
DocsRefused(s) ==
    \/ s.docs \in {"no_service", "no_deployment", "duplicate_doc", "unnamed_doc"}
    \/ s.docs \in {"no_secret", "secret_unreferenced"} /\ s.env
    \/ s.docs \in {"no_pvc", "pvc_unreferenced"} /\ RequiresPVC(s.kind, s.sized)

Manifests == [spec : SpecFaults, docs : DocFaults \cup {"absent"}, kind : {"postgres", "app"},
              worker : BOOLEAN, env : BOOLEAN, sized : BOOLEAN]
validateK3sManifestPreflight(s) == SpecRefused(s) \/ (s.docs # "absent" /\ DocsRefused(s))

\* ContextFromPreparePayload: the ids, the projects of the binding and the revision,
\* their modes, and the names of the services.
ContextRefused(p) ==
    \/ ~p.ids \/ "other" \in {p.bindingProject, p.revisionProject}
    \/ p.bindingMode # p.revisionMode \/ p.bindingMode = "unknown"
    \/ p.services \in {"none", "unnamed", "duplicate"}
Payloads == [ids : BOOLEAN, bindingProject : {"none", "same", "other"}, revisionProject : {"none", "same", "other"},
             bindingMode : {"k3s", "unknown"}, revisionMode : {"k3s", "unknown"},
             services : {"none", "unnamed", "duplicate", "named"}]
PreflightResults == {validateK3sManifestPreflight(s) : s \in Manifests} \cup {ContextRefused(p) : p \in Payloads}

\* buildRolloutProgress: the observed generation is copied, never compared.
RolloutStatus(p) == IF p.new = "ready" THEN "ready" ELSE "progressing"

\* kubectl rollout status ends well, or times out and is tolerated because the
\* replicas are all there (shouldTolerateRolloutStatusFailure).
RolledOut(p) == p.new = "ready" /\ ~p.old
shouldTolerate(p) == RolloutStatus(p) = "ready" /\ p.old

\* evaluateK3sServicePodsHealth: every active pod is ready, and there is one.
PodsHealthy(p) == p.new = "ready"

\* buildPortApplyObservation of the ports expected and observed, 0 when unknown.
PortStatus(expected, container, target) ==
    CASE expected > 0 /\ ((container > 0 /\ container # expected) \/ (target > 0 /\ target # expected)) -> "mismatch"
      [] container = 0 /\ target = 0 -> "unverified"
      [] OTHER -> "matched"

\* collectIngressObservations: hosts of the ingress and external addresses, or none.
IngressStatus(readable, hosts, addresses) ==
    CASE ~readable /\ ~addresses -> "missing"
      [] ~readable /\ addresses  -> "pending"
      [] readable /\ addresses   -> "ready"
      [] readable /\ hosts /\ ~addresses  -> "pending_address"
      [] OTHER -> "pending_rules"

\* handleReconcileRevision: an event of severity warning for what is not as wanted.
Severity(ports, progress, ingress) ==
    IF ports = "mismatch" \/ progress # "ready" \/ ingress # "ready" THEN "warning" ELSE "info"

K3sInit ==
    /\ kApplied = "stable"
    /\ kPods = [s \in K3sServices |-> [new |-> "ready", old |-> FALSE]]
    /\ kCall = [r \in K3sRevs |-> NoK3sCall]
    /\ kGate = [r \in K3sRevs |-> "none"]
    /\ kStops = [k \in TailKeys |-> 0]
    /\ kTails = {}
    /\ kReport = "info"
    /\ kUsed = [calls |-> 0, faults |-> 0, tails |-> 0]

Stop(r) == kCall' = [kCall EXCEPT ![r] = NoK3sCall]
GoTo(r, step) == kCall' = [kCall EXCEPT ![r] = [step |-> step, left |-> K3sServices, ok |-> TRUE]]
K3sFault == kUsed.faults < MaxK3sFaults /\ kUsed' = [kUsed EXCEPT !.faults = @ + 1]

\* A command of r begins: a reconciliation that passes the preflight (a refused one
\* changes nothing), a health gate or a rollback; the last is refused without a
\* rollback manifest.
CallBegins(r) ==
    /\ kCall[r] = NoK3sCall /\ kUsed.calls < MaxK3sCalls
    /\ kUsed' = [kUsed EXCEPT !.calls = @ + 1]
    /\ \/ \E refused \in PreflightResults : IF refused THEN UNCHANGED kCall ELSE GoTo(r, "apply")
       \/ GoTo(r, "gate")
       \/ \E bundled \in BOOLEAN : IF bundled THEN GoTo(r, "rollback") ELSE UNCHANGED kCall
    /\ UNCHANGED <<kApplied, kPods, kGate, kStops, kTails, kReport>>

\* kubectl fails: the command ends with what was done so far.
KubectlFails(r) ==
    /\ kCall[r].step \notin {"idle", "tails"} /\ K3sFault /\ Stop(r)
    /\ kGate' = IF kCall[r].step = "gate" THEN [kGate EXCEPT ![r] = "failed"] ELSE kGate
    /\ UNCHANGED <<kApplied, kPods, kStops, kTails, kReport>>

\* ReconcileRevision, RollbackRelease: the namespace, the dry run and the apply.
ApplyManifest(r) ==
    /\ kCall[r].step \in {"apply", "rollback"}
    /\ LET wanted == IF kCall[r].step = "apply" THEN r ELSE "stable"
       IN  /\ kApplied' = wanted
           /\ kPods' = IF kApplied = wanted THEN kPods
                       ELSE [s \in K3sServices |-> [new |-> "starting", old |-> kPods[s].new = "ready" \/ kPods[s].old]]
           /\ GoTo(r, IF kCall[r].step = "apply" THEN "status" ELSE "restored")
    /\ UNCHANGED <<kGate, kStops, kTails, kReport, kUsed>>

\* rollout status of the services one by one; only a reconciliation tolerates.
RolloutStatusOf(r, s) ==
    /\ kCall[r].step \in {"status", "restored"} /\ s \in kCall[r].left
    /\ \/ /\ RolledOut(kPods[s]) \/ (kCall[r].step = "status" /\ shouldTolerate(kPods[s]))
          /\ IF kCall[r].left # {s} THEN kCall' = [kCall EXCEPT ![r].left = @ \ {s}]
             ELSE IF kCall[r].step = "status" THEN GoTo(r, "tails") ELSE Stop(r)
       \/ ~RolledOut(kPods[s]) /\ ~(kCall[r].step = "status" /\ shouldTolerate(kPods[s])) /\ Stop(r)
    /\ UNCHANGED <<kApplied, kPods, kGate, kStops, kTails, kReport, kUsed>>

\* ensureLiveLogTails of one service: a key that has a cancel function is left.
EnsureTail(r, s, started) ==
    /\ kCall[r].step = "tails" /\ s \in kCall[r].left
    /\ IF started
       THEN /\ kUsed' = [kUsed EXCEPT !.tails = @ + 1]
            /\ kStops' = [kStops EXCEPT ![<<r, s>>] = kUsed.tails + 1]
            /\ kTails' = kTails \cup {[id |-> kUsed.tails + 1, key |-> <<r, s>>, live |-> TRUE]}
       ELSE UNCHANGED <<kStops, kTails, kUsed>>
    /\ IF kCall[r].left = {s} THEN Stop(r) ELSE kCall' = [kCall EXCEPT ![r].left = @ \ {s}]
    /\ \E container, target \in {0, 1, 2} : \E readable, hosts, addresses \in BOOLEAN :
          kReport' = Severity(PortStatus(1, container, target), RolloutStatus(kPods[s]),
                              IngressStatus(readable, hosts, addresses))
    /\ UNCHANGED <<kApplied, kPods, kGate>>

\* Slip: the key is not looked at.
ensureTailAlways(r, s) == EnsureTail(r, s, TRUE)

ensureLiveLogTails(r, s) == EnsureTail(r, s, kStops[<<r, s>>] = 0)

\* RunHealthGate of one service: the rollout, then its pods.
runK3sServiceHealthGateCheck(r, s) ==
    /\ kCall[r].step = "gate" /\ s \in kCall[r].left
    /\ LET passed == (RolledOut(kPods[s]) \/ shouldTolerate(kPods[s])) /\ PodsHealthy(kPods[s])
           ok     == kCall[r].ok /\ passed
       IN  IF kCall[r].left = {s}
           THEN Stop(r) /\ kGate' = [kGate EXCEPT ![r] = IF ok THEN "promotable" ELSE "failed"]
           ELSE kCall' = [kCall EXCEPT ![r] = [@ EXCEPT !.left = @ \ {s}, !.ok = ok]] /\ UNCHANGED kGate
    /\ UNCHANGED <<kApplied, kPods, kStops, kTails, kReport, kUsed>>

\* GarbageCollectRuntime: the tails of the revision are cancelled and forgotten.
GarbageCollectRuntime(r) ==
    /\ kUsed.calls < MaxK3sCalls /\ \E s \in K3sServices : kStops[<<r, s>>] # 0
    /\ kTails' = {[t EXCEPT !.live = @ /\ t.id # kStops[t.key]] : t \in {u \in kTails : u.key[1] = r}}
                 \cup {u \in kTails : u.key[1] # r}
    /\ kStops' = [k \in TailKeys |-> IF k[1] = r THEN 0 ELSE kStops[k]]
    /\ kUsed' = [kUsed EXCEPT !.calls = @ + 1]
    /\ UNCHANGED <<kApplied, kPods, kCall, kGate, kReport>>

\* tailServiceLogs: the loop ends once its context is done, and only then.
TailEnds == \E t \in kTails :
    ~t.live /\ kTails' = kTails \ {t} /\ UNCHANGED <<kApplied, kPods, kCall, kGate, kStops, kReport, kUsed>>

\* RestartDeployment: every pod is replaced.
RestartDeployment(s) ==
    /\ kUsed.calls < MaxK3sCalls /\ kUsed' = [kUsed EXCEPT !.calls = @ + 1]
    /\ kPods' = [kPods EXCEPT ![s] = [new |-> "starting", old |-> kPods[s].new = "ready" \/ kPods[s].old]]
    /\ UNCHANGED <<kApplied, kCall, kGate, kStops, kTails, kReport>>

PodsMove(s) ==
    /\ \/ kPods[s].new = "starting" /\ kPods' = [kPods EXCEPT ![s].new = "ready"] /\ UNCHANGED kUsed
       \/ kPods[s].new = "ready" /\ kPods[s].old /\ kPods' = [kPods EXCEPT ![s].old = FALSE] /\ UNCHANGED kUsed
       \/ kPods[s].new # "failed" /\ K3sFault /\ kPods' = [kPods EXCEPT ![s].new = "failed"]
    /\ UNCHANGED <<kApplied, kCall, kGate, kStops, kTails, kReport>>

K3sNext ==
    \/ TailEnds
    \/ \E r \in K3sRevs : CallBegins(r) \/ KubectlFails(r) \/ ApplyManifest(r) \/ GarbageCollectRuntime(r)
    \/ \E r \in K3sRevs, s \in K3sServices :
          RolloutStatusOf(r, s) \/ ensureLiveLogTails(r, s) \/ runK3sServiceHealthGateCheck(r, s)
    \/ \E s \in K3sServices : RestartDeployment(s) \/ PodsMove(s)

K3sSpec == K3sInit /\ [][K3sNext]_k3sVars

\* A tail that was not cancelled is the one whose cancel function is kept for its
\* key, whatever reconciliations and collections of the revision overlapped: there
\* is one per service, and a collection reaches it (ensureLiveLogTails,
\* stopRevisionLogTails).
TailsCanBeStopped == \A t \in kTails : t.live => kStops[t.key] = t.id
=============================================================================
