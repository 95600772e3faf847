------------------------------ MODULE Sidecars ------------------------------
(***************************************************************************)
(* The compatibility sidecars of a binding: the plan of a revision and its *)
(* live files (agent runtime/sidecar_manager.go), the companions started   *)
(* from the live files (process_manager.go, filesystem_driver.go) and the  *)
(* listeners of a companion (compatibility_sidecar.go, sidecar_proxy.go,   *)
(* postgres_adapter.go).  One plan of a binding is rendered at a time.     *)
(*                                                                         *)
(* The live configuration of a service is the one file all revisions       *)
(* share: a companion is recognised by that path, not by what it holds.    *)
(***************************************************************************)
EXTENDS Naturals, FiniteSets

CONSTANTS SideServices,
          MaxPlans,      \* bound on rendered plans
          MaxTroubles    \* bound on failing steps and restarts of the agent

ASSUME SidecarAssumption == MaxPlans \in Nat /\ MaxTroubles \in Nat

VARIABLES
    scLive,      \* service -> the configuration in live/services, or NoConfig
    scRender,    \* the render in progress: [step, want]
    scDone,      \* whether the last render went through
    scProc,      \* the process manager's entry: service -> [state, config]
    scBox,       \* the container: service -> [up, config]
    scUsed       \* [plans, troubles] so far

sidecarVars == <<scLive, scRender, scDone, scProc, scBox, scUsed>>

Policies == [env : BOOLEAN, managed : BOOLEAN, rescue : BOOLEAN, transparent : BOOLEAN]

\* A dependency: what it targets, its protocol, its local endpoint and how its
\* target was resolved.
Dep(target, protocol, host, port, route, upstream) ==
    [target |-> target, protocol |-> protocol, host |-> host, port |-> port,
     route |-> route, upstream |-> upstream]
Dependencies ==
    {Dep("postgres", "tcp", "loopback", 5432, "local", TRUE),
     Dep("service", "tcp", "loopback", 8001, "mesh_down", TRUE),
     Dep("service", "http", "loopback", 5432, "local", TRUE),
     Dep("service", "http", "other", 8080, "local", TRUE),
     Dep("service", "http", "none", 0, "local", FALSE),
     Dep("missing", "http", "none", 0, "local", TRUE)}

selectSidecarMode(p) ==
    CASE p.transparent -> "transparent_proxy"
      [] ~p.transparent /\ p.env -> "env_injection"
      [] ~p.transparent /\ ~p.env /\ p.managed -> "managed_credentials"
      [] ~p.transparent /\ ~p.env /\ ~p.managed /\ p.rescue -> "localhost_proxy"
      [] OTHER -> "none"

validateSelectedSidecarMode(p) ==
    /\ p.env => selectSidecarMode(p) = "env_injection"
    /\ ~p.env /\ p.managed => selectSidecarMode(p) = "managed_credentials"

shouldUseManagedDBAdapter(standalone, p, d) ==
    standalone /\ d.protocol = "tcp" /\ d.target = "postgres" /\ d.port > 0 /\ (p.rescue \/ p.managed)

Strategy(standalone, p, d) ==
    IF shouldUseManagedDBAdapter(standalone, p, d) THEN "managed_db_adapter" ELSE selectSidecarMode(p)

\* parseLocalhostEndpoint: an explicit port on a loopback address.
LocalListener(d) == d.host = "loopback" /\ d.port > 0

\* localhostRescueForwardingMode, localhostRescueFallback: a mesh route that is not
\* verified fails as network_down, anything else as service_down.
ForwardingMode(d) == IF d.route \in {"mesh_up", "mesh_down"} THEN "mesh_target" ELSE "local_target"
FallbackClass(d)  == IF d.route = "mesh_down" THEN "network_down" ELSE "service_down"

\* The contracts of a dependency that buildPlan refuses.
EnvContractRefused(d)      == ~d.upstream
CredentialRefused(d)       == d.protocol \notin {"http", "tcp"}
AdapterRefused(d)          == ~LocalListener(d) \/ ~d.upstream
RescueRefused(d)           ==
    \/ ~LocalListener(d) \/ ~d.upstream
    \/ FallbackClass(d) = "network_down" /\ (ForwardingMode(d) = "local_target" \/ d.route = "mesh_up")
TransparentRefused(d)      == d.host = "none"

ContractRefused(strategy, d) ==
    CASE strategy = "env_injection"       -> EnvContractRefused(d)
      [] strategy = "managed_credentials" -> CredentialRefused(d)
      [] strategy = "managed_db_adapter"  -> AdapterRefused(d)
      [] strategy = "localhost_proxy"     -> RescueRefused(d)
      [] strategy = "transparent_proxy"   -> TransparentRefused(d)
      [] OTHER                            -> TRUE

\* buildPlan refuses a revision: no mode, a policy against the precedence, a
\* dependency on a service it does not have, or a contract it cannot make.
PlanRefused(standalone, p, deps) ==
    \/ ~validateSelectedSidecarMode(p)
    \/ \E s \in SideServices : \E d \in deps[s] :
          d.target = "missing" \/ ContractRefused(Strategy(standalone, p, d), d)

\* generateProxyPort.
ProxyPort(port) ==
    LET known == [q \in {5432, 3306, 6379, 5672, 8000, 3000, 8080, 9000} |->
                    CASE q = 5432 -> 1 [] q = 3306 -> 2 [] q = 6379 -> 3 [] q = 5672 -> 4
                      [] q = 8000 -> 5 [] q = 3000 -> 6 [] q = 8080 -> 7 [] q = 9000 -> 8]
    IN  19000 + IF port \in DOMAIN known THEN known[port] ELSE port % 1000

\* The port a dependency's route or adapter listens on in the app's namespace; 0 for none.
ListenPort(strategy, d) ==
    CASE strategy = "transparent_proxy" -> ProxyPort(d.port)
      [] strategy \in {"localhost_proxy", "managed_db_adapter"} -> d.port
      [] OTHER -> 0

\* RunCompatibilitySidecar: the routes and then the adapters are started one by
\* one, a listener that is taken ends the companion; no plan is refused for it.
ListenersFit(standalone, p, ds) ==
    \A d, e \in ds : LET port(x) == ListenPort(Strategy(standalone, p, x), x)
                     IN  d # e /\ port(d) > 0 => port(d) # port(e)

\* What buildPlan makes of a revision, by service: nothing, a configuration whose
\* listeners fit, or one whose listeners clash.
Revisions == {deps \in [SideServices -> SUBSET Dependencies] : \A s \in SideServices : Cardinality(deps[s]) <= 2}
AcceptedPlans ==
    {[s \in SideServices |-> IF r.deps[s] = {} THEN "none"
                             ELSE IF ListenersFit(r.standalone, r.policy, r.deps[s]) THEN "fits" ELSE "clash"] :
        r \in {x \in [standalone : BOOLEAN, policy : Policies, deps : Revisions] :
                 ~PlanRefused(x.standalone, x.policy, x.deps)}}

NoConfig == [plan |-> 0, fits |-> FALSE]
Enabled(want) == {s \in SideServices : want[s] # NoConfig}

SidecarInit ==
    /\ scLive = [s \in SideServices |-> NoConfig]
    /\ scRender = [step |-> "idle", want |-> [s \in SideServices |-> NoConfig]]
    /\ scDone = TRUE
    /\ scProc = [s \in SideServices |-> [state |-> "stopped", config |-> NoConfig]]
    /\ scBox = [s \in SideServices |-> [up |-> FALSE, config |-> NoConfig]]
    /\ scUsed = [plans |-> 0, troubles |-> 0]

Trouble == scUsed.troubles < MaxTroubles /\ scUsed' = [scUsed EXCEPT !.troubles = @ + 1]
SidecarStep(step) == scRender' = [scRender EXCEPT !.step = step]

\* RenderSidecars up to the files of the version: refused, or on to the live files.
RenderSidecars ==
    /\ scRender.step = "idle" /\ scUsed.plans < MaxPlans
    /\ scUsed' = [scUsed EXCEPT !.plans = @ + 1]
    /\ \/ UNCHANGED scRender
       \/ \E plan \in AcceptedPlans :
             scRender' = [step |-> "create", want |-> [s \in SideServices |->
                 IF plan[s] = "none" THEN NoConfig ELSE [plan |-> scUsed.plans + 1, fits |-> plan[s] = "fits"]]]
    /\ scDone' = FALSE
    /\ UNCHANGED <<scLive, scProc, scBox>>

\* defaultCreate: the live file of each enabled service is overwritten.
defaultCreate ==
    /\ scRender.step = "create" /\ SidecarStep("remove")
    /\ scLive' = [s \in SideServices |-> IF s \in Enabled(scRender.want) THEN scRender.want[s] ELSE scLive[s]]
    /\ UNCHANGED <<scDone, scProc, scBox, scUsed>>

\* StopProcess of each in S, its error ignored.
StopCompanions(S) ==
    \E stuck \in SUBSET {s \in S : scProc[s].state # "stopped"} :
       /\ IF stuck = {} THEN UNCHANGED scUsed ELSE Trouble
       /\ scProc' = [s \in SideServices |->
              IF s \notin S \/ scProc[s].state = "stopped" THEN scProc[s]
              ELSE [scProc[s] EXCEPT !.state = IF s \in stuck THEN "stopping" ELSE "stopped"]]
       /\ scBox' = [s \in SideServices |->
              IF s \in S \ stuck /\ scProc[s].state # "stopped" THEN [up |-> FALSE, config |-> NoConfig] ELSE scBox[s]]

\* defaultReconcile and defaultRestart only record; defaultRemove stops the
\* companions of the enabled services and of the live files of no enabled service,
\* and deletes those files.
RemoveStale(S) ==
    /\ scRender.step = "remove" /\ SidecarStep("idle") /\ scDone' = TRUE
    /\ StopCompanions(S)
    /\ scLive' = [s \in SideServices |-> IF s \in Enabled(scRender.want) THEN scLive[s] ELSE NoConfig]

\* Slip: only the companions whose service left the plan are stopped.
removeOnlyStale == RemoveStale({s \in SideServices \ Enabled(scRender.want) : scLive[s] # NoConfig})

defaultRemove == RemoveStale({s \in SideServices : s \in Enabled(scRender.want) \/ scLive[s] # NoConfig})

\* A write fails or the agent dies: the files stay as they are.
RenderFails == Trouble /\ scRender.step # "idle" /\ SidecarStep("idle") /\ UNCHANGED <<scLive, scDone, scProc, scBox>>

\* StartProcess with the live file, by a release candidate after its render.  An
\* entry of the same path whose container runs is left alone.
StartCompanion(s) ==
    /\ scRender.step = "idle" /\ scDone /\ scLive[s] # NoConfig
    /\ ~(scProc[s].state = "running" /\ scBox[s].up)
    /\ scProc' = [scProc EXCEPT ![s] = [state |-> "running", config |-> scLive[s]]]
    /\ scBox' = [scBox EXCEPT ![s] = [up |-> scLive[s].fits, config |-> scLive[s]]]
    /\ UNCHANGED <<scLive, scRender, scDone, scUsed>>

\* RollbackRelease: the companions are stopped, then restarted with the live files
\* as they are, whichever revision wrote them.
RestartCompanion(s) ==
    /\ scRender.step = "idle" /\ scLive[s] # NoConfig
    /\ scProc' = [scProc EXCEPT ![s] = [state |-> "running", config |-> scLive[s]]]
    /\ scBox' = [scBox EXCEPT ![s] = [up |-> scLive[s].fits, config |-> scLive[s]]]
    /\ UNCHANGED <<scLive, scRender, scDone, scUsed>>

\* The agent restarts: its entries are gone, the containers run on.
AgentRestarts ==
    /\ Trouble /\ SidecarStep("idle") /\ scDone' = (scDone /\ scRender.step = "idle")
    /\ scProc' = [s \in SideServices |-> [state |-> "stopped", config |-> NoConfig]]
    /\ UNCHANGED <<scLive, scBox>>

SidecarNext ==
    \/ RenderSidecars \/ defaultCreate \/ defaultRemove \/ RenderFails \/ AgentRestarts
    \/ \E s \in SideServices : StartCompanion(s) \/ RestartCompanion(s)

SidecarSpec == SidecarInit /\ [][SidecarNext]_sidecarVars

\* After a render that went through, a companion whose entry in the process manager
\* says it runs holds the configuration that is live for its service, whatever earlier
\* renders left half done: a companion is reused by its path alone, so the render has to
\* stop it (defaultRemove, canReuseRunningProcess).  A container without such an entry,
\* one that outlived the agent or whose stop failed, may run on with an old one.
SidecarRunsPlan ==
    scDone /\ scRender.step = "idle" =>
        \A s \in SideServices : scProc[s].state = "running" => scProc[s].config = scLive[s]
=============================================================================
