----------------------------- MODULE BuildPorts -----------------------------
(***************************************************************************)
(* How a build finds the port of a service and how the build callback      *)
(* accepts it.  The worker (pkg/buildworker/worker.go) resolves a port     *)
(* from what the user declared, the nixpacks plan, the language, or the    *)
(* image; the backend (service/build_callback_service.go) writes it into   *)
(* the service and refuses the build when the outcome is not usable.       *)
(*                                                                         *)
(* Ports are natural numbers and 0 means "none", as in the code.  Lists of *)
(* ports are sets: both sides deduplicate and sort them.  A healthcheck is *)
(* [port, path].  Reasons and other texts are left out.                    *)
(***************************************************************************)
EXTENDS Naturals, FiniteSets

NoHealth   == [port |-> 0, path |-> ""]

\* The resolution of one image: buildPortResolution.
Resolution(status, source, candidates, port, health) ==
    [status |-> status, source |-> source, candidates |-> candidates,
     port |-> port, health |-> health]

Unresolved(source)             == Resolution("unresolved", source, {}, 0, NoHealth)
Ambiguous(source, candidates)  == Resolution("ambiguous", source, candidates, 0, NoHealth)

normalizeCandidatePorts(ports) == {p \in ports : p > 0}

TheOne(S) == CHOOSE x \in S : TRUE

-----------------------------------------------------------------------------
(* The worker. *)

\* Only package.json names a framework, and every framework suggests 3000.
detectFrontendMetadata(framework) ==
    IF framework = "" THEN NoHealth ELSE [port |-> 3000, path |-> "/"]

declaredHealthcheckHint(health) ==
    IF health.port > 0 /\ health.path # "" THEN health ELSE NoHealth

declaredPortHint(target) ==
    IF target.targetPort > 0 THEN target.targetPort
    ELSE IF target.servicePort > 0 THEN target.servicePort
    ELSE target.health.port

\* Exposed and smoke-tested ports; a port is exposed only if the image says so.
mergeDetectedPorts(exposed, smoke) ==
    {[port |-> p, exposed |-> p \in exposed] :
        p \in normalizeCandidatePorts(exposed \cup smoke)}

selectLanguageFallbackPort(langs, framework) ==
    IF framework # "" THEN 3000
    ELSE IF langs \cap {"go", "java", "php"} # {} THEN 8080
    ELSE IF "python" \in langs THEN 8000
    ELSE IF langs \cap {"node", "ruby", "rust"} # {} THEN 3000
    ELSE 0

\* A suggested healthcheck follows the resolved port.
HealthAt(suggested, port) ==
    IF suggested.path # "" THEN [port |-> port, path |-> suggested.path] ELSE NoHealth

\* One candidate resolves, several are ambiguous.
FromCandidates(source, candidates, suggested) ==
    LET port == TheOne(candidates) IN
    IF Cardinality(candidates) = 1
    THEN Resolution("resolved", source, candidates, port, HealthAt(suggested, port))
    ELSE Ambiguous(source, candidates)

resolveBuildPortFromNixpacksPlan(start, suggested) ==
    IF ~start.found THEN Unresolved("")
    ELSE IF start.ports = {} THEN Unresolved("nixpacks_plan")
    ELSE FromCandidates("nixpacks_plan", start.ports, suggested)

resolveBuildPortFromLanguageFallback(langs, framework, suggested) ==
    LET port == selectLanguageFallbackPort(langs, framework) IN
    IF port = 0 THEN Unresolved("language_default")
    ELSE Resolution("resolved", "language_default", {port}, port, HealthAt(suggested, port))

resolveBuildPortFromExpose(detected, suggested) ==
    LET exposed == {d.port : d \in {e \in detected : e.exposed}} IN
    IF exposed = {} THEN Unresolved("")
    ELSE FromCandidates("docker_inspect", exposed, suggested)

Declared(target) ==
    LET port == declaredPortHint(target) IN
    Resolution("resolved", "explicit", {port}, port, declaredHealthcheckHint(target.health))

\* A service of the repository: what is declared wins, then the nixpacks plan
\* (or, failing that, the language), then the image.
resolveRepoServiceBuildPort(target, langs, framework, detected, start, usedNixpacks) ==
    LET suggested == detectFrontendMetadata(framework)
        plan      == resolveBuildPortFromNixpacksPlan(start, suggested)
        fallback  == resolveBuildPortFromLanguageFallback(langs, framework, suggested) IN
    IF declaredPortHint(target) > 0 THEN Declared(target)
    ELSE IF ~usedNixpacks THEN resolveBuildPortFromExpose(detected, suggested)
    ELSE IF plan.status = "unresolved" /\ fallback.status = "resolved" THEN fallback
    ELSE plan

\* The whole repository as one image, with nothing declared: every hint counts
\* and they must agree.  The languages name no internal service, so the
\* internal default never applies, and there is no start hint.
resolveBuildPort(framework, detected, smoke) ==
    LET suggested == detectFrontendMetadata(framework)
        exposed   == {d.port : d \in {e \in detected : e.exposed}}
        hints     == [framework_hint |-> normalizeCandidatePorts({suggested.port}),
                      docker_inspect |-> exposed,
                      smoke_run      |-> normalizeCandidatePorts(smoke)]
        found     == UNION {hints[h] : h \in DOMAIN hints}
        sources   == {h \in DOMAIN hints : hints[h] # {}}
        source    == IF Cardinality(sources) = 1 THEN TheOne(sources) ELSE "mixed" IN
    CASE found = {}             -> Unresolved("")
      [] Cardinality(found) > 1 -> Ambiguous(source, found)
      [] OTHER -> Resolution("resolved", source, found, TheOne(found),
                     IF suggested.port = TheOne(found) THEN suggested ELSE NoHealth)

-----------------------------------------------------------------------------
(* The callback. *)

\* The port the artifact suggests, from what the worker sent.  The worker always
\* sends a status, so the guesses for callers that do not are not reached.
normalizeSuggestedTargetPort(res) ==
    IF res.port > 0 THEN res.port
    ELSE IF res.status # "resolved" THEN 0
    ELSE IF Cardinality(res.candidates) = 1 THEN TheOne(res.candidates)
    ELSE res.health.port

isGenericFallbackHealthcheck(health) == health.port = 8080 /\ health.path \in {"", "/"}

\* Write the artifact's port and healthcheck into a service.  What the service
\* has wins, unless it is the generated default of a one-click project.
applyArtifactToBlueprintService(svc, res, force) ==
    LET suggested == normalizeSuggestedTargetPort(res)
        own(p)    == IF p = 0 THEN svc.health.port ELSE p
        port(p)   == IF suggested > 0 /\ (force \/ own(p) = 0) THEN suggested ELSE own(p) IN
    [svc EXCEPT
        !.image       = TRUE,
        !.targetPort  = port(@),
        !.servicePort = port(@),
        !.health      = IF res.health.port > 0 /\ (force \/ @ = NoHealth)
                        THEN res.health ELSE @]

ResolvedPort(svc) == IF svc.targetPort > 0 THEN svc.targetPort ELSE svc.servicePort

validateServiceHealthcheckConsistency(svc) ==
    /\ svc.health.path # "" => svc.health.port > 0
    /\ svc.health.port > 0 /\ ResolvedPort(svc) > 0 => svc.health.port = ResolvedPort(svc)

HasDeclaredPort(target) == declaredPortHint(target) > 0

requiresResolvedServicePort(svc, target) ==
    /\ ~svc.internal
    /\ \/ HasDeclaredPort(target) \/ ResolvedPort(svc) > 0
       \/ ~(svc.worker /\ ~svc.public /\ svc.health.port = 0)

\* Slip: a port the language suggests is not accepted.
StrictPortSource(source) == source \in {"explicit", "nixpacks_plan", "docker_inspect"}

isAcceptedResolvedServicePortSource(source) ==
    source \in {"explicit", "nixpacks_plan", "language_default", "docker_inspect"}

\* Whether the callback accepts the service for rollout; staged: the service is
\* one of the build's targets.
validateResolvedServicePorts(svc, target, staged, res) ==
    /\ requiresResolvedServicePort(svc, target) =>
          /\ ResolvedPort(svc) > 0
          /\ staged /\ ~HasDeclaredPort(target) =>
                isAcceptedResolvedServicePortSource(res.source)
    /\ validateServiceHealthcheckConsistency(svc)
-----------------------------------------------------------------------------
(* One service through a build and its callback.  The target is the copy of   *)
(* the service made when the build was queued; the user may edit the service  *)
(* before the callback compiles it.                                           *)

CONSTANTS Targets,    \* the services as they are declared
          Images,     \* what can be found out about a build (see BuildPortsInit)
          Roles       \* public, worker, internal and one-click default services

\* Ports the nixpacks plan names are positive (parseStartHintPorts).
ASSUME PortsAssumption ==
    /\ \A t \in Targets :
          t.targetPort \in Nat /\ t.servicePort \in Nat /\ t.health.port \in Nat
    /\ \A i \in Images :
          /\ i.exposed \subseteq Nat /\ i.smoke \subseteq Nat
          /\ i.start.ports \subseteq Nat \ {0}
          /\ IsFiniteSet(i.exposed) /\ IsFiniteSet(i.smoke) /\ IsFiniteSet(i.start.ports)

VARIABLES service,    \* the service as it is declared when the callback runs
          build,      \* the target, the image and whether the target is staged
          resolution, \* what the worker resolved, or NoResolution
          outcome     \* what the callback made of it

portVars == <<service, build, resolution, outcome>>

NoResolution == Resolution("none", "", {}, 0, NoHealth)

DeclaredPorts(t) == {t.targetPort, t.servicePort, t.health.port} \ {0}

ServiceOf(t, r) == [targetPort |-> t.targetPort, servicePort |-> t.servicePort,
                    health |-> t.health, image |-> FALSE, role |-> r,
                    declared |-> DeclaredPorts(t),
                    internal |-> r = "internal", worker |-> r = "worker",
                    public |-> r \in {"public", "one_click"}]

NothingDeclared == [targetPort |-> 0, servicePort |-> 0, health |-> NoHealth]

PortsInit ==
    /\ \E t \in Targets, i \in Images, r \in Roles, staged \in BOOLEAN :
          /\ service = ServiceOf(t, r)
          /\ build = [target |-> IF staged THEN t ELSE NothingDeclared,
                       image |-> i, staged |-> staged]
    /\ resolution = NoResolution
    /\ outcome = "building"

\* The user edits the service while the build runs.
EditService ==
    /\ outcome = "building"
    /\ \E t \in Targets : service' = ServiceOf(t, service.role)
    /\ UNCHANGED <<build, resolution, outcome>>

WorkerResolves ==
    /\ resolution = NoResolution
    /\ LET i == build.image
           detected == mergeDetectedPorts(i.exposed, i.smoke) IN
       resolution' = IF build.staged
                     THEN resolveRepoServiceBuildPort(build.target, i.langs, i.framework,
                              detected, i.start, i.usedNixpacks)
                     ELSE resolveBuildPort(i.framework, detected, i.smoke)
    /\ UNCHANGED <<service, build, outcome>>

\* createArtifactReadyRevision, as far as one service is concerned.
CallbackApplies ==
    /\ resolution # NoResolution /\ outcome = "building"
    /\ LET force == service.role = "one_click" /\ ~build.staged
                      /\ isGenericFallbackHealthcheck(service.health)
           svc   == applyArtifactToBlueprintService(service, resolution, force) IN
       /\ service' = svc
       /\ outcome' = IF validateResolvedServicePorts(svc, build.target, build.staged, resolution)
                     THEN "accepted" ELSE "rejected"
    /\ UNCHANGED <<build, resolution>>

PortsNext == EditService \/ WorkerResolves \/ CallbackApplies

\* A service accepted for rollout that needs a port has one, and it is a port
\* the worker resolved without ambiguity, unless the user declared one: the
\* callback never guesses (validateResolvedServicePorts, normalizeSuggestedTargetPort).
AcceptedPortBacked ==
    outcome = "accepted" /\ requiresResolvedServicePort(service, build.target) =>
        /\ ResolvedPort(service) > 0
        /\ service.health.port \in {0, ResolvedPort(service)}
        /\ \/ ResolvedPort(service) \in service.declared
           \/ resolution.status = "resolved" /\ ResolvedPort(service) \in resolution.candidates

\* What the worker resolves for a staged service, the callback accepts, unless
\* the ports declared and resolved contradict each other or a healthcheck has a
\* path and no port: the two programs agree on which sources count.
ResolvedAccepted ==
    outcome = "rejected" /\ build.staged /\ resolution.status = "resolved" =>
        \/ Cardinality(service.declared \cup DeclaredPorts(build.target) \cup resolution.candidates) > 1
        \/ service.health.path # "" /\ service.health.port = 0

\* The port a service is started with, from both ends: accepted ports are backed by
\* something the worker or the user said, and backed ports are accepted.
PortsSettled == AcceptedPortBacked /\ ResolvedAccepted

=============================================================================
