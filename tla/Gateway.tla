------------------------------ MODULE Gateway -------------------------------
(***************************************************************************)
(* The gateway of a binding (agent runtime/gateway_manager.go): a version  *)
(* of the Caddy configuration is rendered, validated, copied over the live *)
(* files, loaded by Caddy, and rolled back when one of that fails.  The    *)
(* agent runs every command in a goroutine of its own and a render takes   *)
(* no lock: two may overlap, and the agent may stop between any two steps. *)
(*                                                                         *)
(* The live files are the configuration, the plan and active.json; each is *)
(* abstracted to the version it holds, "none" when it is absent or cut     *)
(* short.  A host of a service is described by its kind: none, only a      *)
(* primary one, one of its own, or one that another service claims too.    *)
(***************************************************************************)
EXTENDS Naturals, FiniteSets

CONSTANTS Renders,       \* the goroutines that may render
          Versions,
          GatewayInputs, \* what may be rendered: [version, injected, standalone, domain, paths]
          MaxRenders,    \* bound on renders
          MaxFaults      \* bound on failing steps and crashes

ASSUME GatewayAssumption ==
    /\ MaxRenders \in Nat /\ MaxFaults \in Nat
    /\ \A v \in GatewayInputs : v.version \in Versions

VARIABLES
    gwLive,       \* the live files: [config, plan, active], each a version or "none"
    gwCaddy,      \* "absent" (no binary), "down", or the version Caddy runs
    gwRender,     \* each render in progress: where it is, its version, and the one that was active
    gwPlan,       \* the plan of each, with what was observed of its hosts
    gwBudget,     \* [renders, faults] made so far
    gwTorn        \* history: what may have left the live files of several versions, and
                  \* no render that had them for itself has ended since

gatewayVars == <<gwLive, gwCaddy, gwRender, gwPlan, gwBudget, gwTorn>>

HostKinds == {"none", "primary", "own", "shared"}
NoLive    == [config |-> "none", plan |-> "none", active |-> "none"]
NoPlan    == [hosts |-> [s \in {} |-> "none"], sites |-> {}, urls |-> {}, status |-> ""]

\* "alone" is history: no other render was under way since this one began.
NoRender  == [step |-> "idle", version |-> "none", previous |-> "none", alone |-> FALSE]

GatewayInit ==
    /\ gwLive = NoLive /\ gwCaddy \in {"absent", "down"}
    /\ gwRender = [r \in Renders |-> NoRender] /\ gwPlan = [r \in Renders |-> NoPlan]
    /\ gwBudget = [renders |-> 0, faults |-> 0] /\ gwTorn = FALSE

Renderable(kind) == kind \in {"own", "shared"}

\* buildPlan: outside of the standalone mode a service without a host gets two magic ones.
PlannedHosts(standalone, injected) ==
    [s \in DOMAIN injected |-> IF injected[s] = "none" /\ ~standalone THEN "own" ELSE injected[s]]

\* resolveAutoStripPrefixRoutes: "auto" asks the upstream which of the two health
\* paths answers and keeps the flag unless exactly one of them does.
StripPrefix(route, withStrip, without) ==
    CASE route.mode = "always" -> TRUE
      [] route.mode = "never"  -> FALSE
      [] route.mode = "auto" /\ ~route.ws /\ route.path # "/" /\ withStrip # without -> withStrip
      [] OTHER -> route.strip

\* The sites of the Caddyfile, as [host, to, strip]: the host stands for a service's
\* own hosts or for the shared domain.
ServiceSites(hosts) ==
    {[host |-> s, to |-> s, strip |-> FALSE] : s \in {t \in DOMAIN hosts : Renderable(hosts[t])}}

PathSites(hosts, paths) ==
    {[host |-> "domain", to |-> r.service, strip |-> r.strip] : r \in {x \in paths : x.service \in DOMAIN hosts}}

Sites(hosts, domain, paths) ==
    ServiceSites(hosts) \cup IF domain THEN PathSites(hosts, paths) ELSE {}

GatewayPlanOf(revision, withStrip, without) ==
    LET hosts == PlannedHosts(revision.standalone, revision.injected)
        paths == {[service |-> r.service, strip |-> StripPrefix(r, withStrip, without)] : r \in revision.paths}
    IN  [NoPlan EXCEPT !.hosts = hosts, !.sites = Sites(hosts, revision.domain, paths)]

DuplicateHosts(plan) == Cardinality({s \in DOMAIN plan.hosts : plan.hosts[s] = "shared"}) > 1

FaultGw == gwBudget.faults < MaxFaults /\ gwBudget' = [gwBudget EXCEPT !.faults = @ + 1]

RenderStep(r, step) == gwRender' = [gwRender EXCEPT ![r].step = step] /\ UNCHANGED gwPlan
RenderOver(r) ==
    gwRender' = [gwRender EXCEPT ![r] = NoRender] /\ gwPlan' = [gwPlan EXCEPT ![r] = NoPlan]

\* A live file is replaced without a temporary one: a write that fails leaves it as
\* it was, cut short, or written.
PutLive(file, version) == gwLive' = [gwLive EXCEPT ![file] = version]
TryLive(file, version) == \E v \in {gwLive[file], "none", version} : PutLive(file, v)

\* The live file a step of a render is about to write.
FileOf(step) ==
    CASE step \in {"config", "unconfig"} -> "config"
      [] step \in {"plan", "unplan", "report"} -> "plan"
      [] step \in {"active", "unactive"} -> "active"
      [] OTHER -> ""

\* RenderGatewayConfig up to the validation: the version's own files are written
\* and active.json is read.
RenderGatewayConfig(r) ==
    /\ gwRender[r].step = "idle" /\ gwBudget.renders < MaxRenders
    /\ gwBudget' = [gwBudget EXCEPT !.renders = @ + 1]
    /\ LET others == {o \in Renders : gwRender[o].step # "idle"}
       IN  \E revision \in GatewayInputs, strip, plain \in BOOLEAN :
              /\ gwRender' = [o \in Renders |->
                    IF o = r THEN [step |-> "validate", version |-> revision.version,
                                   previous |-> gwLive.active, alone |-> others = {}]
                    ELSE [gwRender[o] EXCEPT !.alone = FALSE]]
              /\ gwPlan' = [gwPlan EXCEPT ![r] = GatewayPlanOf(revision, strip, plain)]
              /\ gwTorn' = (gwTorn \/ others # {})
    /\ UNCHANGED <<gwLive, gwCaddy>>

\* A host of two services, a configuration that Caddy refuses, or a write of the
\* version's own files that fails ends the render.
defaultValidate(r) ==
    /\ gwRender[r].step = "validate"
    /\ \/ ~DuplicateHosts(gwPlan[r]) /\ RenderStep(r, "config") /\ UNCHANGED gwBudget
       \/ DuplicateHosts(gwPlan[r]) /\ RenderOver(r) /\ UNCHANGED gwBudget
       \/ FaultGw /\ RenderOver(r)
    /\ UNCHANGED <<gwLive, gwCaddy, gwTorn>>

\* Each live file is written in turn; a write that fails, of apply.json after the
\* last of them too, leads to the rollback.
WriteLive(r, step, file, next) ==
    /\ gwRender[r].step = step
    /\ \/ PutLive(file, gwRender[r].version) /\ RenderStep(r, next) /\ UNCHANGED gwBudget
       \/ FaultGw /\ TryLive(file, gwRender[r].version) /\ RenderStep(r, "unconfig")
    /\ UNCHANGED <<gwCaddy, gwTorn>>

defaultApply(r) ==
    \/ WriteLive(r, "config", "config", "plan")
    \/ WriteLive(r, "plan", "plan", "active")
    \/ WriteLive(r, "active", "active", "applied")

\* The version's own files are written again; when that fails the render ends
\* without a rollback, and Caddy is not told of the live files.
RecordApplied(r) ==
    /\ gwRender[r].step = "applied"
    /\ \/ RenderStep(r, "reload") /\ UNCHANGED <<gwBudget, gwTorn>>
       \/ FaultGw /\ RenderOver(r) /\ gwTorn' = (gwTorn /\ ~gwRender[r].alone)
    /\ UNCHANGED <<gwLive, gwCaddy>>

\* execCaddyReload: a running Caddy keeps its configuration when the reload fails;
\* one that is started may run although its admin API does not answer in time; and
\* reload.json may not be written although Caddy was told.  A configuration that is
\* gone, as an overlapping rollback may leave it, is refused.
Loaded == IF gwCaddy = "absent" THEN {"absent"} ELSE {gwLive.config} \ {"none"}

execCaddyReload(r) ==
    /\ gwRender[r].step = "reload"
    /\ \/ gwCaddy' \in Loaded /\ RenderStep(r, "observe") /\ UNCHANGED gwBudget
       \/ Loaded = {} /\ RenderStep(r, "unconfig") /\ UNCHANGED <<gwCaddy, gwBudget>>
       \/ gwCaddy' \in Loaded \cup {gwCaddy} /\ FaultGw /\ RenderStep(r, "unconfig")
    /\ UNCHANGED <<gwLive, gwTorn>>

\* A file of the version that was active when the render began is copied back, or
\* removed when there was none; a failure ends the rollback there.
Restore(r, step, file, next) ==
    /\ gwRender[r].step = step
    /\ \/ PutLive(file, gwRender[r].previous) /\ RenderStep(r, next) /\ UNCHANGED <<gwBudget, gwTorn>>
       \/ FaultGw /\ TryLive(file, gwRender[r].previous) /\ RenderOver(r) /\ gwTorn' = TRUE
    /\ UNCHANGED gwCaddy

RestoreLast(r) ==
    /\ gwRender[r].step = "unactive" /\ RenderOver(r)
    /\ \/ /\ PutLive("active", gwRender[r].previous) /\ UNCHANGED gwBudget
          /\ gwTorn' = (gwTorn /\ ~gwRender[r].alone)
       \/ FaultGw /\ TryLive("active", gwRender[r].previous) /\ gwTorn' = TRUE
    /\ UNCHANGED gwCaddy

\* Slip: the rollback leaves the live configuration as the failed version wrote it.
defaultRollbackFiles(r) ==
    \/ /\ gwRender[r].step = "unconfig" /\ RenderStep(r, "unplan")
       /\ UNCHANGED <<gwLive, gwCaddy, gwBudget, gwTorn>>
    \/ Restore(r, "unplan", "plan", "unactive") \/ RestoreLast(r)

\* The rollback, file by file; Caddy is not told.
defaultRollback(r) ==
    \/ Restore(r, "unconfig", "config", "unplan")
    \/ Restore(r, "unplan", "plan", "unactive")
    \/ RestoreLast(r)

\* observeGatewayTLS: what a TLS handshake with each host of the plan showed;
\* nothing is observed without Caddy.
UrlHosts(plan) == {s \in DOMAIN plan.hosts : plan.hosts[s] # "none"}

TLSSummary(seen) ==
    IF \E u \in DOMAIN seen : seen[u] = "ready" THEN "ready"
    ELSE IF \E u \in DOMAIN seen : seen[u] = "error" THEN "error"
    ELSE IF DOMAIN seen # {} THEN "pending" ELSE ""

collectPublicURLs(plan, seen) ==
    {u \in UrlHosts(plan) : DOMAIN seen # {} => seen[u] = "ready"}

observeGatewayTLS(r) ==
    /\ gwRender[r].step = "observe"
    /\ gwRender' = [gwRender EXCEPT ![r].step = "report"]
    /\ \E seen \in [IF gwCaddy = "absent" THEN {} ELSE UrlHosts(gwPlan[r]) -> {"ready", "pending", "error"}] :
          gwPlan' = [gwPlan EXCEPT ![r].status = TLSSummary(seen), ![r].urls = collectPublicURLs(gwPlan[r], seen)]
    /\ UNCHANGED <<gwLive, gwCaddy, gwBudget, gwTorn>>

\* The last writes of the plan: the version's own files, then the live plan once more.
RenderEnds(r) ==
    /\ gwRender[r].step = "report" /\ RenderOver(r)
    /\ \/ /\ PutLive("plan", gwRender[r].version) /\ UNCHANGED gwBudget
          /\ gwTorn' = (gwTorn /\ ~gwRender[r].alone)
       \/ FaultGw /\ TryLive("plan", gwRender[r].version) /\ gwTorn' = (gwTorn \/ gwLive' # gwLive)
    /\ UNCHANGED gwCaddy

\* The agent stops, in the middle of the write of one file perhaps; Caddy is a
\* session of its own and goes on.
AgentStops ==
    /\ FaultGw
    /\ \E r \in Renders : gwRender[r].step # "idle"
    /\ LET cut == {FileOf(gwRender[r].step) : r \in Renders} \ {""}
       IN  /\ gwLive' \in {gwLive} \cup {[gwLive EXCEPT ![f] = "none"] : f \in cut}
           /\ gwTorn' = (gwTorn \/ cut # {})
    /\ gwRender' = [r \in Renders |-> NoRender] /\ gwPlan' = [r \in Renders |-> NoPlan]
    /\ UNCHANGED gwCaddy

RenderOf(r) ==
    \/ RenderGatewayConfig(r) \/ defaultValidate(r) \/ defaultApply(r) \/ RecordApplied(r)
    \/ execCaddyReload(r) \/ defaultRollback(r) \/ observeGatewayTLS(r) \/ RenderEnds(r)

GatewayNext == AgentStops \/ \E r \in Renders : RenderOf(r)

GatewaySpec == GatewayInit /\ [][GatewayNext]_gatewayVars

\* What an interrupted render, a rollback that fails or two overlapping renders leave
\* of several versions among the live files lasts only until the next render that has
\* them for itself: when one ends, in success or by a rollback that goes through, the
\* three files are of one version, and they stay so until two renders overlap or one
\* is cut off between the files (RenderGatewayConfig, defaultApply, defaultRollback).
LiveFilesAgree ==
    (\A r \in Renders : gwRender[r].step = "idle") /\ ~gwTorn =>
        gwLive.config = gwLive.plan /\ gwLive.plan = gwLive.active
=============================================================================
