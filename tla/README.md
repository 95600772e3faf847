# LazyOps: TLA+ models of the deployment control plane

LazyOps is a deployment control plane. A backend (`src/backend`) keeps projects,
builds, revisions and deployments in a database and drives rollouts; an agent
(`src/agent`) on every target runs the commands the backend sends over a WebSocket;
a build worker turns commits into images; a command-line client, a web frontend and
SDKs sit around them. This directory models the parts whose correctness is a matter
of order and of agreement: who has read what when it writes, which of two records is
believed, what survives a failed step, a lost answer, a crash or a reconnect.

`PROJECT.json` lists every component with what is modelled of it, every run, the
source lines each definition stands for, the hazards with the properties that watch
them, and the theorems.

## 1. Inventory

### Control path

| Component | State it keeps | Operations | Interacts with | What is hard | What makes it correct |
|---|---|---|---|---|---|
| Command tracker (`service/command_tracker.go`) | commands by request id, a channel for each | `Register`, `UpdateState`, `WaitForResult`, `Cleanup` | rollouts wait, controller handlers feed it | a timeout races a late answer, answers out of order | a waiter returns, with no verdict nobody gave |
| Control stream and hub (`controller/agent_control_controller.go`, `service/control_service.go`) | one connection per agent, registration queues | register, unregister, dispatch, reconnect recovery | tracker, rollouts, agents | the end of an old connection drops the new one | an agent on a good connection is reachable |
| Agent control client (`agent/internal/control`, `dispatcher`) | send queue, pending handshakes, connection loops | dial, replay, read, write, dispatch | control stream | old loops compete with new ones | commands reach an agent that is connected; no message arrives twice, and none is lost while nothing breaks |
| Enrollment (`agent_enrollment_service.go`, `instance_*.go`, agent `enroll`) | bootstrap and agent tokens, the agent of an instance, the agent's file, the install's key | install over SSH, join, enroll, heartbeat | agents, nodes | separate writes, answers after a timeout, repeated installs | the running agent is the one its instance names |
| Operator hub (`hub/hub.go`, `client.go`) | clients with bounded queues | register, unregister, broadcast | frontend | a slow client is dropped while it leaves | a channel is closed once |
| Rollout execution (`service/rollout_execution_service.go`, `rollout_planner.go`) | status of deployments and revisions, deployments under recovery | start, roll back, recover, operators' actions | tracker, agent | concurrent calls, crashes, half-done failures | rows and agent agree when a rollout ends |

### From a push to a deployment

| Component | State it keeps | Operations | Interacts with | What is hard | What makes it correct |
|---|---|---|---|---|---|
| Webhooks, installations, links (`github_*_service.go`, `project_repo_link_service.go`) | installation records, links | receive, sync, link | GitHub, build jobs | what GitHub says changes while it is copied | an event reaches one project of a user |
| Build jobs, worker, callback (`build_job_service.go`, `pkg/buildworker`, `build_callback_service.go`) | jobs, services' ports, artifacts | enqueue, claim, build, report | rollouts | double claims, lost callbacks, a service edited during its build | a settled job has the deployment its status says |
| Previews (`preview_environment_service.go`) | rows by pull request | create, mark stale, destroy | built by the application, called by nothing yet | rows are never deleted and looked up by pull request; nothing serialises two creations | no second live preview by creations one after the other, without a destroy |
| Services, blueprints, routing, manifests (`project_service.go`, `blueprint_service.go`, `routing_service.go`, `k8sgen`) | service rows, routes, compiled revisions | configure, compile, plan | deployments | two writers replace the same rows | what is planned can be applied and undone |
| Environment (`project_env_service.go` and what uses it) | the saved bundle | save, compile, inject | services, agent | a dozen templates meet in one process | a connection URL opens what was started |
| Bootstrap orchestrator (`bootstrap_orchestrator.go`) | bindings, the status page | auto-bootstrap, one-click deploy, hook | nearly everything above | page and endpoint decide separately | the page is true, but for a revoked installation |
| Domains, public addresses (`project_domain_*.go`, `public_*.go`) | hostname rows, the DNS record | allocate, rename, sync, observe | DNS provider, hosts | the answer of the provider is stored late | an active hostname is published |
| Clusters, nodes, tunnels (`cluster_node_service.go`, `mesh_planning_service.go`, `tunnel_*.go`) | topology rows, labels, sessions | join, label, report; open, stop | agents, command line | a join fails between its steps | what is offered is usable |
| Accounts and tokens (`auth_service.go`, `*_oauth_service.go`) | users, identities, tokens | login, link, revoke, authenticate | every request | logins of one person overlap | one account per person, a revoked token is refused |
| Observability and alerts (`observability_service.go`, `error_knowledge_service.go`, `proactive_alert_service.go`) | log lines, documents, incidents, rollups | ingest, page, chart | agents, operators | equal times, windows, suppression, two writes per incident | one incident per burst while rows are saved by one batch at a time, pages without gaps |

### On the agent

| Component | State it keeps | Operations | Interacts with | What is hard | What makes it correct |
|---|---|---|---|---|---|
| Release driver (`runtime/{filesystem_driver,candidate,health_gate,promotion,rollback}.go`) | candidate record per revision, traffic record | prepare, start, gate, promote, roll back | runtime service | stale reads over the grace period | traffic goes to revisions that passed or served |
| State store (`state/store.go`) | one file | `Load`, `Save`, `Update` | handlers, heartbeat | `Update` is not atomic | records name served revisions only |
| Workspaces (`filesystem_driver.go`, `runtime_ports.go`) | directories, ports, one file per service and a manifest | prepare | releases | preparations overlap, fail and are cut short between files | the files and the manifest of a revision prepared alone agree, each service has its port |
| Garbage collection (`garbage_collect.go`) | - | collect | - | - | not modelled: the agent refuses the command of the control plane |
| Process manager, internal Postgres (`process_manager.go`, `internal_postgres_credentials.go`) | containers, a credential and its marker | start, stop, provision | Docker | containers outlive the agent, keys change | the marker tells the truth |
| Sidecars (`sidecar_manager.go`, `compatibility_sidecar.go`) | plan and live files, listeners | render, start companion | releases, mesh | a container is recognised by a path | a companion the process manager holds for running has the live plan |
| Gateway (`gateway_manager.go`) | three live files, Caddy's configuration | render, apply, roll back | Caddy | renders overlap without a lock; cut off between two copies | the next render that runs alone makes the live files of one version |
| Autosleep and hold (`autosleep_manager.go`, `gateway_hold_manager.go`) | sleeping services, held requests | sleep, wake, hold, expire | gateway | loops and commands overlap | a request is counted once |
| k3s driver (`k3s_driver.go`) | manifests, log tails | reconcile, gate, roll back, collect | kubectl | overlapping reconciliations | a running tail can be stopped |
| Mesh (`mesh_manager.go`, `mesh_service.go`, `resolution.go`) | peers, routes, overlay files | foundation, ensure peer, sync | WireGuard, Tailscale | copies written back one after the other | a verified route has been up |
| Telemetry (`log_collector.go`, `metric_aggregator.go`) | buffers, offsets | collect, flush, roll up | backend | overlapping flushes and rollups, a log that rolls | no line sent twice, no request skipped in a file until a new one grows past the offset unseen |

Not modelled at all: the finops service and the assistant, the parts of the agent
nobody calls, the frontend, the SDKs and the infrastructure files (section 6).

## 2. Modules

Each component module declares its CONSTANTS and bounds, has one action per
operation or step, and ends with its specification and its properties. Every bound is
named `Max...` and says in a comment what it counts. Operators whose comment begins
with "Slip:" are faulty variants of the definition that follows them: substituted for
it, each makes TLC report the property it is meant for. They are used nowhere else.

| Module | Models |
|---|---|
| `CommandTracker` | the tracker, the handlers that feed it, the waiting goroutine |
| `DeploymentStatus` | the transition tables, `rolloutAlreadyStarted`, the buttons of a deployment's page |
| `ReleaseRules` | what each agent command does to candidate, traffic record and revision cache, as functions of what the handler read |
| `AgentRelease` | the agent's concurrent handlers, heartbeat and crash, at the grain of driver calls and of loads and saves of the state file |
| `RolloutExecution` | rollouts, recoveries, operators and backend crashes against the agent of one binding |
| `DeploymentLifecycle` | the abstract life of a deployment, which `RolloutExecution` implements |
| `RepoLinks`, `BuildPipeline` | installations and links; webhooks, jobs, the worker and its callback |
| `BuildPorts`, `BuildArtifacts`, `Previews` | how a port, an image and a preview are found for a service, a target, a pull request |
| `AgentSession`, `Enrollment`, `OperatorHub` | the control connection from both ends; installation and enrolment; the operators' hub |
| `Gateway`, `Autosleep`, `NodeContainers`, `Sidecars`, `Mesh`, `K3sNode`, `Telemetry` | the parts of an agent's node |
| `HealthGate`, `Workspaces` | the probes behind a gate's verdict; the ports and files of a preparation |
| `Bootstrap`, `ServiceInventory`, `Manifests`, `Domains`, `Hosts` | what the control plane decides for a project and the hosts of its owner |
| `ServiceEnv`, `PublicAddress`, `Observability`, `Accounts` | environment, addresses, logs and metrics, accounts |
| `MCRolloutExecution` | instances for TLC: symmetry, and which deployment each call is about |
| `MCBuild`, `MCSession`, `MCNode`, `MCPlatform`, `MCOperations` | several components side by side, with their inputs |
| `AgentRelease_proofs`, `RolloutExecution_proofs` | theorems about the rollout, on the agent and in the backend, and their proofs |
| `Session_proofs`, `Build_proofs`, `Node_proofs`, `Platform_proofs`, `Operations_proofs` | theorems about the components that the MC module of that name composes (`CommandTracker` is with the sessions), and their proofs |
| `Induction` | least and greatest elements of sets of numbers, functions given by a first value and a step, images of finite sets: the lemmas those proofs share |

The last MC modules have a variable `part`, chosen at the start: a behaviour exercises
one part and leaves the others at one of their initial states, so the state spaces add
up instead of multiplying. Parts that share state in the code are modelled in one
module (links and pipeline, routing and manifests, logins and tokens).

### CommandTracker

Every critical section of the tracker's mutex is one action. `WaitForResult` is
cut where it holds no lock: the lookup of the channel, the `select` (ready or
expired, both possible once the channel is closed), the cancellation and the
final `Get`. Request ids are fresh, so the waiter of a request is identified with
it. `verdicts` and `overtaken` are history variables. Command output and errors
are left out; no branch of the tracker depends on them.

### AgentRelease

The state is what the files hold: `cand` (workspace and `candidate.json` of each
revision), `traffic` (active and previous revision of the live traffic record)
and `cache` (current and previous stable revision in the state file; the code
always writes current and stable together). A handler is a goroutine and is cut
where what it has read may be stale when it is used: before a promotion or
rollback it loads the cache (`populateRolloutContext`); start, gate, promotion and
rollback load `candidate.json` (`seen`) and save it later, the gate after its grace
period; promotion and rollback decide on a traffic record (`shift`) and write it
after others had their turn; and `store.Update` loads and saves under separate
locks. A save into a directory that is gone is an error.
`Fail` may end a handler before any step, `PrepareReleaseWorkspace` may fail and
remove the directory, and `Crash` drops all goroutines and keeps the files. The
probes' verdict is the environment's choice here; `HealthGate` has the probes.

### RolloutExecution and DeploymentLifecycle

A deployment and its revision are created together and share an id; ids grow with
creation time, the order in which the repository lists them. The processes are
`StartDeployment` calls (requests and build callbacks), recoveries (one per
reconnect) and operator actions; `Crash` is the backend's. All of them run through
the same labels, so that for example recovery of a queued deployment is the whole
of `StartDeployment`. The table `Transition` lists the checked transitions with
the places control goes to when they succeed or are refused; each is a step that
reads and checks and a step that writes. `PromoteCandidate` and `FinalizeRollback`
write without a check, one table at a time.

The abstractions and why they lose nothing the properties see:

- The two reads at the head of `StartDeployment` are one step: a deployment never
  returns to queued and a revision never to an unstarted status, so a later second
  read can only add refusals. The same holds for `promoteCandidateIfNeeded`, whose
  two reads look for a state that is final for the rollout. The skip test and the
  dispatch that follows are one step; nothing is written in between.
- The five commands that prepare a release (prepare, sidecars, gateway, reconcile,
  internal services) are one: to the rollout they differ only in what they write
  to the workspace, and each fails the same way.
- The agent runs a command in one step; `AgentRelease` has the finer grain. A
  failing command may have had part of its effect, in the order of its writes.
- The planner's own health gate (`ExecuteHealthGate`) passes every candidate.
- `garbage_collect_runtime`, dispatched at the end of a rollout, is left out: the
  payload carries a revision id only (`dispatchGarbageCollect`), and the agent refuses
  it before reading anything (`ContextFromPreparePayload`).
- Errors of the database are left out, except as crashes.
- An expired wait gives the outcome cancelled, without an error, as in
  `CommandTracker`. A command given up may be lost or run later (`orphans`, at most
  `MaxLate` at a time).

`DeploymentLifecycle` says in six actions what a rollout promises: a deployment waits,
is worked on by one rollout, and ends live, failed or rolled back, in one piece;
traffic moves only for the one that is worked on; it goes live only while served and
is rolled back only to a live one. The refinement mapping takes a deployment to be
worked on from the first checked transition of its rollout to the return of the call,
and to be live as soon as its own row says promoted (`PhaseOf`).

### The build side

`BuildPipeline` has the requests of the backend (`Handlers`), the slots of the worker
and the callbacks under way as processes; a callback whose caller gave up goes on as
an abandoned call. A claim does not look at the number of rows it updated, so a job can
be claimed twice; `disturbed` remembers the jobs a fault or a second claim touched, so
that the other jobs can be held to a strict agreement. `RepoLinks` cuts a sync between
what GitHub answered and the record written, and lets the syncs of a user overlap, as
every login with GitHub starts one: an older list may then be written after a newer
one, so `SyncedRoutes` speaks of users whose row was last written from a list that still
is GitHub's. `Previews` has the four unlocked reads and writes of a creation, any of
which may be the last; two creations at once can leave a pull request two live previews,
and `crossed` remembers them. `BuildPorts` follows one port from the
declaration over the build to the callback, with an edit of the service in between;
`BuildArtifacts` follows names and paths, each as it is written and as it is compared.

### Sessions and enrolment

`AgentSession` draws connections from a pool and reuses one when no goroutine knows
it, so that old loops meet new connections; `link` says who gave a connection up.
A write to a connection that the network or the backend gave up vanishes until the agent
notices, so any number of messages can be lost between the two, and an old loop loses one
more when its write fails; `ReconnectSound` therefore bounds losses to broken connections
and shutdowns and not in number.
`Enrollment` makes every database write a step, lets the agent's HTTP client give up
while the handler goes on, and numbers encryption keys by the install that made them.
`OperatorHub` has the hub's unbuffered channels as meetings of two processes.

### The node

`Gateway` keeps of each live file the version it holds, lets two renders overlap (each
command has a goroutine and a render takes no lock) and may stop between any two
copies, in the middle of one too. `Mesh` gives each call a copy of the files it read and writes files back one
after the other. `Telemetry` has only the collectors' locked sections as atomic steps, and an access log
that Caddy rolls (its file output does by default) between any two steps of a rollup;
its last part is the pattern of registration and removal shared by the log watchers.
`K3sNode` treats kubectl and the pods as external; `Sidecars` and `NodeContainers`
treat Docker so: containers survive the agent. `Autosleep` keeps of a time
whether it has passed. The names of containers are kept as the joined identifiers cut
to 63 characters (`LongIds`): with the backend's identifiers all services of a binding
get the same name. `Workspaces` has a
step per port probed and per file written, and lets preparations, of one revision
too, run at once: `prepared` holds the revisions whose last preparation ran to its end
with no other writing the files. Garbage collection is not modelled: the command of
the control plane is refused by the agent.

### Control plane

A page is modelled together with the endpoint behind it: `Bootstrap` has `GetStatus`
and `OneClickDeploy`, `PublicAddress` a page and the probes it makes, `ServiceInventory`
the dialog of a deployment, whose identifiers were read earlier. `Domains` cuts a call
into reading the row, asking the provider and storing the whole row, each of which may
fail; `domainTorn` remembers the projects whose record was last written by a call that
overlapped another or whose row was not stored. `Accounts` cuts a
login where it has read an identity or an account and not yet written one.
`Manifests` renders documents as pairs of what they define and what they refer to; the
routes of a policy are a set, since the ingress matches the longest prefix wherever it
is listed, and a revision keeps its services under their places in the list. A plan takes
the policy in force, or the compiled one when it cannot be read, and falls back to the
newest promoted revision, or to its own manifest when that one cannot be looked up or
has none; a rollback looks again and is refused then.
`ServiceEnv` names a variable by its words and a value by its parts, so that prefixes
and connection URLs are what the code makes of them.

## 3. Runs

Passing:

| Run | Instance | Shows |
|---|---|---|
| `command_tracker` | 2 requests, all answers, timeouts, clean-ups | waiters are woken by final answers only, return no invented verdict, return one when answers come in order (`VerdictsSound`), and always return |
| `agent_release` | 2 revisions, 2 concurrent handlers and the heartbeat; any commands, failures, crashes | the records a rollback relies on name served revisions and never a revision as its own predecessor; a failed candidate is revived only by a command that loaded its record before the failure |
| `rollout_serial` | 3 deployments in any order, one rollout at a time; agent commands fail partly or wholly | every step of a rollout is one of the lifecycle or none; rows rest in agreement, what was rolled back is not served, every button works; a promotion coincides with the agent serving it; every call returns |
| `rollout_faults` | 1 deployment, 2 recoveries, 1 operator, 1 crash, lost and late commands | recoveries exclude one another per deployment; a deployment is shown promoted only after its revision |
| `build_pipeline` | 2 projects of a user, 2 request goroutines, 2 slots, 2 commits, 2 jobs, a fault; 6 declarations of a service against 40 images; 2 syncs and 2 creations at once; 3 previews | a delivery leads to the deployment its job's status says; a push reaches at most one project of a user, and none of those whose uninstall a sync noted last; a second live preview takes a destroy or two creations at once; accepted ports are backed and backed ports accepted; queued jobs are claimed |
| `agent_session` | 2 connections in reuse, queue of 2, a malformed command; 2 installs, 2 enrolment calls, 2 mishaps; 2 operators with queues of 2 | an agent on an open connection is reachable and becomes so again and again; no message arrives twice and none is lost before a connection breaks or the agent shuts down; an enrolled agent is the one its instance names; the hub closes a channel once |
| `agent_node` | per part 2 services, revisions, peers or calls that overlap, 3 renders of the gateway, 1 or 2 faults | live files agree once a render had them for itself; no follower or tail is out of reach; holds are counted once; marker, companions and routes are what they are said to be; no line is sent twice; requests are skipped only where the log rolled |
| `platform` | 2 clusters' and instances' statuses, 3 sets of services, 2 histories; 2 concurrent saves; 3 service lists, of 2 of which parts are deployed, under stored policies and those of a `lazyops.yaml` with two roots; 2 domains in 2 calls at a time; 2 joins; 2 tunnels | the page is true; services and their dependencies are kept; plans and fallbacks apply; a renamed domain is published; nodes and tunnel ports are used as recorded |
| `operations` | 3 batches of log lines, 2 at a time, each with a panic, failing writes; 3 log lines at equal or earlier times, 3 rollups shorter or longer than the step; 6 inventories of a build; 4 environments, 3 saved texts; 2 persons with 2 addresses in 2 logins; 4 releases under the gate; 2 targets behind a page; 2 preparations at a time of 2 revisions of 4 services, 5 commands, failures and changes of ports | incidents of one error are a quiet time apart, except right after a failed save or an overlap of batches; pages and charts complete; each target its image; environments delivered; one account per person; revoked tokens refused; verdicts earned and both gates agree; one answer per page; prepared revisions whole |

Why the bounds are enough to be interesting: a stale read needs a reader and a writer,
so every part with concurrency has two calls of the kind that races, and one event
around them for each kind of fault. Two revisions are a predecessor and a candidate;
three deployments are the least with a failed rollout and two candidates for its
rollback. The data parts (`BuildPorts`, `BuildArtifacts`, `ServiceEnv`, `Manifests`,
`HealthGate`) enumerate inputs chosen so that each branch of the code is taken: equal
names up to case and separators, two dependencies of one kind, a port declared twice,
shared paths, listeners of a companion on the declared port. That no bound hides its
property can be seen from the faulty variants: for each property one exists that TLC
reports within the run's own bounds. Deadlock is checked in `agent_release` only: in
the other runs everything may have returned, or the bounds may be used up.

Violations, each a disagreement between the code and what it, a test or a page says:

| Run | What happens |
|---|---|
| `rollout_timeout` | an expired wait is not an error to the rollout, so a deployment is promoted although the agent never answered; the branch that is to fail it is never taken |
| `cluster_env` | on a cluster a saved environment is not among the variables a service starts with, although the page on which it is saved says so |
| `error_knowledge` | with the tables as the migration creates them, the ingestion of an error line ends without a document and before the alerts, because the upsert needs a unique index that is not there |

The counterexamples are short; the findings in `PROJECT.json` quote the lines they
contradict. The alerts of `operations` are therefore about installations where an
operator has added the index (`unique` in `Observability`).

### Properties the code does not have

These are stated in the modules and fail. To see one, add it to the INVARIANTS or
PROPERTIES of the configuration named.

| Property | Add to | What happens |
|---|---|---|
| `RolloutExecution!RolloutExclusive` | `RolloutFaults.cfg` with `Starters = {s1, s2}` | two calls that both read queued both run the plan |
| `RolloutExecution!RecoveryCompletes` | `RolloutFaults.cfg` with `Starters = {s1}`, `Operators = {}`, without SYMMETRY | a crash between the two updates of a promotion leaves a deployment no recovery completes |
| `RolloutExecution!RollbackRestoresPlanned` | `RolloutSerial.cfg` | the rollback is recorded to the newest created promoted revision, the agent serves the one promoted last |
| `[][\A r \in Revisions : cand[r] = "failed" => cand'[r] \in {"failed", "none"}]_vars` | `AgentRelease.cfg` | a promotion, gate or rollback that loaded the record before the failure saves it afterwards, and the candidate can be promoted again |
| `AgentRelease!RestoresServed` | `AgentRelease.cfg` | a failed candidate that was rolled back becomes the target of the next rollback |
| `AgentRelease!OnlyShiftsMoveStable` | `AgentRelease.cfg` | a heartbeat's stale save takes back a recorded promotion |
| `BuildPipeline!ActiveBuildEnds` | `BuildPipeline.cfg` | a worker that dies leaves its job running, and polls list queued jobs only |
| `Enrollment!InstalledAgentRestarts` | `AgentSession.cfg` | a second install succeeds while the agent of the first is enrolling, which then stores its file under the old key |
| `Bootstrap!ReadyIsNeverRefused` | `Platform.cfg` | the page looks only whether a repository is linked; the click is refused when its installation is revoked |
| `Bootstrap!LockHonoured` | `Platform.cfg` (as PROPERTY) | the hook after a change of the inventory rewrites a mode the owner locked |
| `ServiceInventory!PortsDistinct` | `Platform.cfg` | two saves at once leave two services with one port |
| `Domains!ActiveIsPublished` | `Platform.cfg` | when the generated name changes, an active row whose address did not is stored under the new name without a record |
| `Domains!RenamedStaysPublished` | `Platform.cfg` | a second rename reaches the provider and its row cannot be stored, or it overlaps the first: the row is active under a name the record no longer has |
| `Manifests!FallbackIsAnother` | `Platform.cfg` | the promoted revision cannot be looked up or was never rendered, and the revision is stored with its own manifest as the one to fall back to |
| `BundleResolves` without the exception of roots | `Platform.cfg` | `validateRoutingPolicy` lets a `lazyops.yaml` have two roots, and its policy is kept when the one in force cannot be read |
| `Hosts!PlacementNodesLabelled` | `Platform.cfg` | the control plane's own node is offered for pinned placement and never labelled |
| `Observability!OneIncidentPerBurst` | `Operations.cfg` | the row of an incident is not saved, or two batches find no row and each raise one |
| `Observability!DashboardUpToDate` | `Operations.cfg` | where a step is longer than a rollup, one that lies wholly in the unfinished step would be bucketed with the last point, but the query leaves it out until the next point |
| `\A r \in Revisions : WritingOf(r) = {} /\ workspaceDirs[r] => runtimeFiles[r] = wsManifest[r]` | `Operations.cfg` | a preparation cut short by a restart, or two of one revision at once, leave files and a manifest of different preparations |
| `SecondPreviewAfterDestroy` with `PRs` for `PRs \ crossed` | `BuildPipeline.cfg` | two creations at once both find no preview and both write one |
| `(\A r \in Renders : gwRender[r].step = "idle") /\ gwBudget.faults = 0 => gwLive.config = gwLive.active` | `AgentNode.cfg` | two renders overlap, one writes the configuration first and active.json last, and both report success |
| `\A q \in 1..tOffset.at : <<tOffset.file, q>> \in tCounted` | `AgentNode.cfg` | the access log rolls and the new file has as many bytes as the offset when the next rollup looks: it goes on from there |
| `PublicAddress!DomainStaysOnTarget` | `Operations.cfg` | looking at deployments on another target moves the record there |

### Fairness

Only what the code's scheduling gives is assumed, always weak, and never of users,
operators, providers or faults.

- `CommandTracker`: each waiter's steps. A goroutine is scheduled, and every caller
  passes a context with a timeout, so the expiry branch of the `select` is enabled.
- `RolloutExecution`: the steps of a call under way, of the agent running a command
  sent to it, and of a recovery beginning: the client dials until it succeeds
  (`websocket_client.go`, `run`), and each new connection triggers a recovery.
- `BuildPipeline`: the worker's ticker, each slot's goroutine, each callback's handler.
- `AgentSession`: each loop goes on when it can, the hub reads its queues, and dials
  succeed again; a network that never comes back would leave nothing to claim.

## 4. Proofs

Each theorem holds for every value of the constants that the named assumptions of the
modules allow: sets of any size, any bounds.

| Theorem | States | Argument |
|---|---|---|
| `Session_proofs!Verdicts` (with `ReadySound`, `VerdictSound`, `PromptSound`) | `VerdictsSound` | A result holds what the entry read held, so the invariant adds `StateBacked`: a final state in the table is one an answer put there. The one step that writes a state without an answer, the cancellation, writes no final one. `ReadyHoldsVerdict` keeps the verdict of an entry answered in order until the waiter gives up. |
| `AgentRelease_proofs!Records` | `RecordsSound` | Goroutines save copies they made earlier, so what is claimed of the cache must hold of every copy (`CopiesServed`, `CopiesDiffer`) and of every traffic record about to be written (`ShiftSound`); it survives there because `served` only grows. Assumes that the empty id is no revision and the heartbeat no handler. |
| `AgentRelease_proofs!FailedFinal` | `FailedIsFinal` | An action property, from the type invariant: whatever a save makes of a record loaded as failed is failed again. |
| `RolloutExecution_proofs!RowsInOrder` | `PromotionOrder` | A process at a label that writes a deployment as promoted works on one whose revision was written (`RevisionFirst`). |
| `RolloutExecution_proofs!RecoveriesApart` | `RecoveryExclusive` | Only a recovery's own step takes its mark away; a crash takes all marks and all recoveries. Both are proved of one invariant (`OrderInv`). |
| `RolloutExecution_proofs!SerialRests` | two of the three parts of `RestsSettled`, for rollouts one after the other (`Serial`) | `SerialInv` says of each label of the one process under way which pairs of statuses its deployment may have (`Pairs`); every transition of the table is then allowed or leads to one that is, and all others rest. Commands may be lost and fail in any way. |
| `RolloutExecution_proofs!ImplementsLife` | `ImplementsLifecycle`, for rollouts one after the other over a link that loses nothing (`Reliable`) | `SerialInv` gives the phases; what the lifecycle says of traffic needs `AgentInv`: the agent's records name only deployments that are live or about to be, so a promoted candidate is served until its row is written and a rollback ends at a live one. Each step of a rollout is summed up by `Effect`, what it may write and where it may go. |
| `RolloutExecution_proofs!PromotesWhatIsServed`, `ReliableRests` | `PromotedIsServed`, `RestsSettled` | from the same invariant; without `Reliable` the first is false, as `rollout_timeout` shows |
| `Node_proofs!FollowersReachable` | `NoStrayFollower` | Followers are numbered without gaps, so a new one is none of those that run. |
| `Node_proofs!HoldsCounted` | `EveryHoldCountedOnce` | The counters are numbers, and each step moves one request from one to another. |
| `Node_proofs!MarkerTrue` | `SyncMarkerTrue` | `PgSound` follows a provisioning: at which step its credential is the stored one, the volume is there and the role has it. |
| `Node_proofs!TailsReachable` | `TailsCanBeStopped` | A key without a cancel function has no live tail. |
| `Session_proofs!HubClosesOnce` | `ClosedOnce` | A channel is closed only when its client leaves the set of clients, which it enters once. |
| `Node_proofs!RoutesWereUp` | `VerifiedWasUp` | Calls write a file from a copy they read before, so what the files claim must hold of every copy a call has (`Copies`). Assumes that no remote peer is called local. |
| `Operations_proofs!OneAccount` | `OneAccountPerPerson` | A completed login is in the account its person is linked to, and a link is written once (`LoginInv`). |
| `Operations_proofs!RevokedRefused` | `RevokedIsRefused` | A refused token is revoked in its row and stays so, thus no request under way was sent late (`TokenInv`). |
| `Session_proofs!ReconnectKeeps` | `ReconnectSound` | Of the connections dialled, the last is the hub's once the hub has registered all it was handed (`HeardInv`). Until the first break or a shutdown no loop has ended and no connection is given up, so a message taken from the queue arrives (`CalmInv`). That no message arrives twice needs that what is queued is behind the counter or the goroutine that made it, also in what the sends of a stale connection put back (`QueueInv`). |
| `Session_proofs!EnrolledIsServed` | `EnrolledAgentIsServed` | One call is under way at most until two overlap; how far it is says what it has done to tokens and instance (`CallSound`), and an agent that is enrolled makes no further call. |
| `Build_proofs!EventsReachTheirs` | `EventsRouted` | A sync works on a list it fetched before, so what a call holds must be known to be GitHub's state or not (`SnapshotsTrue`); of two rows of a pull request one says why it was destroyed (`ReasonsGiven`), and a creation that is under way alone found no row or such a one (`CreationsAlone`). |
| `Build_proofs!DeliveriesAreBuilt` | `DeliveriesBuilt` | `PipeInv` follows a job from its delivery on: a delivery that is known has its job (`KnownHasJob`), each call of a worker carries what it built (`CallsTrue`), the workers at a job and the deployments made of it agree with its status (`BuiltOnce`). Its steps are summed up by what they may do to a job and to a call (`Moves`, `Holds`, `Leaves`). |
| `Build_proofs!PortsAreSettled` | `PortsSettled` | A resolution has a port if and only if it is resolved, and the port is then its only candidate (`Sound`), for each of the ways a port is looked for; the callback accepts what a sound resolution applied. Assumes that declared numbers are numbers, sets of ports finite and the ports of a build plan positive. |
| `Node_proofs!LiveFiles` | `LiveFilesAgree` | While nothing is torn whatever renders does so alone; a lone render's files agree until it writes the first, are then of its version one by one, and of the previous one in the same order when it rolls back. |
| `Node_proofs!CompanionsRunThePlan` | `SidecarRunsPlan` | An entry of the process manager says running only where a live file is, so the removal that ends a render stops every such companion. Of containers without a running entry (they outlive the agent, or a stop failed) nothing is claimed, and renders of one binding do not overlap. |
| `Node_proofs!SentOnceCountedAll` | `NothingTwiceNorSkipped` | A line is in the buffer, in one flush or sent, and only one of them (`LinesInv`); what a rollup starts from in its file has been counted, even when another one takes the offset back or the log rolls, until the history variable `tBlind` says that a file was taken for another (`RollsInv`). |
| `Platform_proofs!RenamesPublished` | `RenamedIsPublished` | A record is named by the row and the calls of one project only (`RecordsApart`), so that no call changes another project's. A call of a project that is not torn is its only one (`CallsApart`), and what it has written is what the row it holds says (`CallsNamed`) before that row is stored (`RowsNamed`). |
| `Platform_proofs!HostsRecorded` | `HostsAsRecorded` | A join that reaches its row has seen its label written (`NodesInv`); what a tunnel call has seen of its port is closed or over and stays so (`TunnelInv`). |
| `Operations_proofs!IncidentsQuiet` | `QuietBetweenIncidents` | While a text is not torn, the first of its rows ends a window after it was last heard of (`RowsSound`), and a batch at the text is the only one and holds that row (`BatchesSound`). A failed save or a second batch tears the text; a batch that has it for itself reads the first row, and puts the two in step again when it saves. Assumes that batches are numbered. |
| `Operations_proofs!PagesAgree` | `OneAnswerPerPage` | A URL is asked once and the answer stays, so what was shown is what was seen (`PageInv`). |
| `Platform_proofs!NothingLost` | `ServicesKept` | The closure of a deployment is a sequence of sets, each with the dependencies of the one before. Either a round adds nothing, and nothing is added afterwards, or it adds a service, so that after as many rounds as there are services nothing is left to add. What a save puts in place has the internal rows it read (`Sane`). Assumes that the services offered are finitely many. |
| `Platform_proofs!PageTrue` | `PageIsTrue` | A binding is written for a target whose kind suits its mode, under a reference no other has, and a call holds a target that was there when it looked (`BootInv`). The page computes its parts from the same rows by different paths; that they agree follows by cases over the newest row and the first promoted one. Ready is claimed right only while the installation of the repository is not revoked. |
| `Operations_proofs!WorkspacesKept` | `PreparedWhole` | The ports a call has assigned are apart and fit their services; a call marked alone is the only one writing its revision, has written its own ports, and a revision some call writes is not counted as prepared (`WsInv`). Assumes positive ports and at least one to hand out. |
| `Node_proofs!GateEarned` | `GateVerdicts` | The counters of a probe are what its answers make them (`Counts`): the good ones in a row at the end, the bad ones likewise. On answers that end in as many good ones as wanted, within as many as both allow, the backend's evaluator has had enough good ones at some point and has not yet seen too many bad ones, because the bad ones up to a point are no more than those up to a later one. |
| `Operations_proofs!ImagesReachTheirs` | `EachTargetItsImage` | What is sent of a target has its name, path and reference and the digest built for it, and a reference in the registry stands for what some target sent under it was built to (`ArtInv`). The callback's coverage check then leaves exactly one artifact for each target, and its check against the inventory gives each a service of its own: targets, artifacts and services that run one are as many. Assumes that an inventory is a list and that no digest is the empty one. |
| `Operations_proofs!ViewsAreComplete` | `ViewsComplete` | A line is shown at most once, and a line that was shown is never ahead of the cursor again; of the lines that were there when it began, each was shown or is still ahead (`ViewsInv`). A page ends with a line behind which is all it leaves for the next. Each rollup the query finds has one point of the chart, and requests counted point by point are in bijection with the requests of those rollups. Assumes finitely many line identifiers and a step that divides the window, as every pair of the two that is accepted does. |
| `Operations_proofs!EnvIsDelivered` | `EnvDelivered` | A stored database has all it is started with, given, fixed or minted, each one word (`EnvRowsSound`). The URL a compilation derives for a dependency is made of those words, and filling in what is blank changes none of them, so it opens a database of the same revision (`CompiledSound`), and what a manifest adds for a managed kind it already has. In a container the saved value is put over all derived ones, except under the reserved names. Assumes that a value the user gives is one unit of the model or blank and that templates speak of the slots the code knows. |
| `Platform_proofs!PlansCanBeApplied` | `PlansApply` | Stored routes have paths of their own, in the order they were checked and after each normalisation, and so have the default ones: by induction over the list of services each new route gets a path none before it has, which exists because there are more suffixes than routes (`ManifestInv`); only roots of a `lazyops.yaml` may share theirs. What is rendered for sound routes can be applied by itself, and copies of it that other revisions keep stay so. What a rollback applies is copied from a revision that was promoted, which stays promoted or rolled back. Assumes that services are configured as a list. |

The steps that take most are the same everywhere: an invariant must also be claimed of
every copy that somebody read before and writes back later (the caches of
`AgentRelease`, the files of `Mesh`, the lists of `RepoLinks`, the rows of `Domains`
and of the alerts), and it is kept there because what it speaks of only grows or was
settled when the copy was made.

Where a definition runs over a list or in rounds, the induction is over numbers and done
in `Induction`, which never takes an operator as parameter: a set of numbers that is not
empty has a least element, so a claim about all of them holds if the least number for
which it fails cannot exist. The definitions in question are written over sets of places
and as functions for that reason.

Only model-checked are the liveness properties `WaitReturns`, `StartReturns`,
`QueuedIsClaimed` and `ReachableAgain`: temporal reasoning with fairness and ENABLED is
out of the prover's reach. Every other property of a passing run is stated by a theorem,
some under the assumption the table names.

## 5. Plan

In the order in which they would add most:

1. The plans of the k3s and mesh drivers as sequences of commands in
   `RolloutExecution`, in place of the standalone one.
2. `RolloutExecution` composed with `CommandTracker` and `AgentSession`, so that a
   command is lost only as a connection loses it.
3. Several bindings on one agent: the revision cache is per agent and they share it.
4. Traces and topology of `observability_service.go` with their retention.

## 6. Not modelled

- External programs are kept to what the code uses of them: Docker, Caddy, kubectl and
  the pods, WireGuard and Tailscale, GitHub, the DNS provider, PostgreSQL.
- Parts without callers. The agent never uses its trace collector, incident reporter,
  tunnel relay, routing detector, k3s detector, node-agent guard or redirection rules,
  nor starts its DNS server or `StartProxyProcess`; it does not install an
  `AutosleepManager` either, so `Autosleep` is the model of what the commands and loops
  do once one is installed. In the backend, `ValidateCluster`, `GetClusterReadiness`,
  `IngestNodeTelemetry` and `EnforceK3sBoundary` of `k3s_cluster_service.go`,
  `RefreshTopologyGraph`, the finops service and `UpdateScaleToZeroState` have none, and
  `GatewayConfigService` and `ProductionHealthGateEvaluator` are used by tests only; the
  evaluator's counting is modelled in `HealthGate` to be compared with the agent's.
- Removals that no code path offers: an OAuth identity is never revoked, an account
  never disabled.
- Tunnels relay no bytes, as nothing starts the relay; the command line's own list of
  sessions lives as long as one process.
- The assistant, which turns text into one-click deploys, and the wording of pages,
  incidents and hints.
- More than one binding per agent; the encryption of the state file and of tokens; HTTP
  validation and roles; services saved otherwise than through the configuration dialog
  in `ServiceEnv`.
- Frontend, SDKs, deployment files.

`PROJECT.json` has the status of every component with a note.
