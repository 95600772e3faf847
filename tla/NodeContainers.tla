--------------------------- MODULE NodeContainers ---------------------------
(***************************************************************************)
(* The containers of a standalone node: the processes of the services and  *)
(* their sidecars (agent runtime/process_manager.go), and the internal     *)
(* Postgres of a binding with its credential (filesystem_driver.go,        *)
(* internal_postgres_credentials.go).  The process manager holds its lock  *)
(* over a whole operation, Docker commands included.                       *)
(*                                                                         *)
(* The project, the binding and the service are joined and cut to 63       *)
(* characters to name a container.  The identifiers of the backend leave   *)
(* no room for the service: with them, Container is the same for all.      *)
(***************************************************************************)
EXTENDS Naturals

CONSTANTS AppServices, Revs,
          LongIds,         \* whether the identifiers fill the container name
          MaxRuns,         \* bound on containers started
          MaxPasswords,    \* bound on generated passwords
          MaxBreaks        \* bound on failures, crashes and reinstallations

ASSUME ContainersAssumption ==
    LongIds \in BOOLEAN /\ MaxRuns \in Nat /\ MaxPasswords \in Nat /\ MaxBreaks \in Nat

VARIABLES
    procs,      \* the manager's map: <<service, role>> -> [state, config]
    docker,     \* container name -> [up, runs, net]: which process, which container's network
    pg,         \* Postgres: [up, volume, role, sync, cred, key], see PgInit
    pgCall,     \* the provisioning in progress: [step, cred, fresh]
    used        \* [runs, passwords, breaks] so far

nodeVars == <<procs, docker, pg, pgCall, used>>

Keys == AppServices \X {"app", "sidecar"}
Container(k) == <<IF LongIds THEN "binding" ELSE k[1], k[2]>>
Containers == {Container(k) : k \in Keys}
Gone == [up |-> FALSE, runs |-> <<>>, net |-> 0]
Stopped == [state |-> "stopped", config |-> "none"]

\* Passwords and encryption keys are numbers; 0 stands for none.  role is the
\* password the database knows, sync the one the marker beside the data names.
PgInit == [up |-> FALSE, volume |-> FALSE, role |-> 0, sync |-> 0, cred |-> 0, credKey |-> 0, key |-> 1]
NoCall == [step |-> "idle", cred |-> 0, fresh |-> FALSE]

NodeInit ==
    /\ procs = [k \in Keys |-> Stopped] /\ docker = [c \in Containers |-> Gone]
    /\ pg = PgInit /\ pgCall = NoCall
    /\ used = [runs |-> 0, passwords |-> 0, breaks |-> 0]

Count(what, max) == used[what] < max /\ used' = [used EXCEPT ![what] = @ + 1]
Break == Count("breaks", MaxBreaks)
SetProc(k, state, config) == procs' = [procs EXCEPT ![k] = [state |-> state, config |-> config]]

\* canReuseRunningProcess: the same configuration, and a container of that name runs.
Reusable(k, r) == procs[k] = [state |-> "running", config |-> r] /\ docker[Container(k)].up

\* startContainerWorkload and startSidecarCompanion: a container of the name is
\* removed and a new one is run; a sidecar joins the network of the app's container.
RunContainer(k, r) ==
    /\ Count("runs", MaxRuns)
    /\ docker' = [docker EXCEPT ![Container(k)] =
           [up |-> TRUE, runs |-> <<k, r>>,
            net |-> IF k[2] = "app" THEN used.runs + 1 ELSE docker[Container(<<k[1], "app">>)].net]]
    /\ SetProc(k, "running", r)

\* startSidecarCompanion: not without the app's container.
JoinsApp(k) == k[2] = "sidecar" => docker[Container(<<k[1], "app">>)].up

StartProcess(k, r) ==
    /\ \/ Reusable(k, r) /\ UNCHANGED <<procs, docker, used>>
       \/ ~Reusable(k, r) /\ JoinsApp(k) /\ RunContainer(k, r)
       \/ ~Reusable(k, r) /\ ~JoinsApp(k) /\ SetProc(k, "stopped", r) /\ UNCHANGED <<docker, used>>
       \/ /\ ~Reusable(k, r) /\ Break /\ SetProc(k, "stopped", r)
          /\ docker' \in {docker, [docker EXCEPT ![Container(k)] = Gone]}
    /\ UNCHANGED <<pg, pgCall>>

\* A container that cannot be removed leaves the process "stopping".
StopProcess(k) ==
    /\ procs[k].state # "stopped"
    /\ \/ /\ SetProc(k, "stopped", procs[k].config)
          /\ docker' = [docker EXCEPT ![Container(k)] = Gone] /\ UNCHANGED used
       \/ Break /\ SetProc(k, "stopping", procs[k].config) /\ UNCHANGED docker
    /\ UNCHANGED <<pg, pgCall>>

ContainerDies ==
    /\ Break /\ \E c \in Containers : docker[c].up /\ docker' = [docker EXCEPT ![c].up = FALSE]
    /\ UNCHANGED <<procs, pg, pgCall>>

\* The containers outlive the agent, its map and its calls do not.  A reinstalled
\* agent has another encryption key and the old files.
AgentRestart ==
    /\ Break
    /\ procs' = [k \in Keys |-> Stopped] /\ pgCall' = NoCall
    /\ pg' \in {pg, [pg EXCEPT !.key = @ + 1]}
    /\ UNCHANGED docker

\* materializeInternalPostgresCredentialState: the stored password if it can be
\* decrypted, else a new one; it is stored under the present key.
Password == IF pg.cred # 0 /\ pg.credKey = pg.key THEN pg.cred ELSE used.passwords + 1

PgStep(step) == pgCall' = [pgCall EXCEPT !.step = step]

\* ProvisionInternalServices: without postgres among the services its container is
\* removed; one that runs is left alone.
ProvisionInternalServices ==
    /\ pgCall.step = "idle"
    /\ \/ pg.up /\ pg' = [pg EXCEPT !.up = FALSE] /\ UNCHANGED <<pgCall, used>>
       \/ ~pg.up /\ PgStep("credential") /\ UNCHANGED <<pg, used>>
    /\ UNCHANGED <<procs, docker>>

\* loadOrCreateInternalPostgresCredentialState, internalPostgresDataDirFresh.
ensureInternalPostgresCredentialState ==
    /\ pgCall.step = "credential"
    /\ IF Password = pg.cred THEN UNCHANGED used ELSE Count("passwords", MaxPasswords)
    /\ pg' = [pg EXCEPT !.cred = Password, !.credKey = pg.key]
    /\ pgCall' = [step |-> "run", cred |-> Password, fresh |-> ~pg.volume]
    /\ UNCHANGED <<procs, docker>>

\* docker run; a fresh volume is initialised with the password of the environment.
recreateInternalServiceContainer ==
    /\ pgCall.step = "run" /\ PgStep("ready")
    /\ pg' = [pg EXCEPT !.up = TRUE, !.volume = TRUE, !.role = IF pg.volume THEN @ ELSE pgCall.cred]
    /\ UNCHANGED <<procs, docker, used>>

\* waitForInternalPostgres, internalPostgresPasswordSyncNeeded.
waitForInternalPostgres ==
    /\ pgCall.step = "ready" /\ pg.up
    /\ PgStep(IF pgCall.fresh THEN "persist" ELSE IF pg.sync = pgCall.cred THEN "idle" ELSE "alter")
    /\ UNCHANGED <<procs, docker, pg, used>>

\* Slip: the marker is written before the password is changed.
alterRoleMarkedFirst ==
    /\ pgCall.step = "alter" /\ PgStep("persist")
    /\ pg' = [pg EXCEPT !.sync = pgCall.cred]
    /\ UNCHANGED <<procs, docker, used>>

ensureInternalPostgresAuthentication ==
    /\ pgCall.step = "alter" /\ pg.up /\ PgStep("persist")
    /\ pg' = [pg EXCEPT !.role = pgCall.cred]
    /\ UNCHANGED <<procs, docker, used>>

persistInternalPostgresPasswordSyncState ==
    /\ pgCall.step = "persist" /\ pgCall' = NoCall
    /\ pg' = [pg EXCEPT !.sync = pgCall.cred]
    /\ UNCHANGED <<procs, docker, used>>

\* A command, the wait or a write fails, or the container dies.
ProvisionFails ==
    /\ Break /\ pgCall.step # "idle" /\ pgCall' = NoCall
    /\ pg' \in {pg, [pg EXCEPT !.up = FALSE]}
    /\ UNCHANGED <<procs, docker>>

PostgresNext ==
    \/ ProvisionInternalServices \/ ensureInternalPostgresCredentialState
    \/ recreateInternalServiceContainer \/ waitForInternalPostgres
    \/ ensureInternalPostgresAuthentication \/ persistInternalPostgresPasswordSyncState \/ ProvisionFails

NodeNext ==
    \/ \E k \in Keys, r \in Revs : StartProcess(k, r)
    \/ \E k \in Keys : StopProcess(k)
    \/ ContainerDies \/ AgentRestart \/ PostgresNext

NodeSpec == NodeInit /\ [][NodeNext]_nodeVars

\* The marker that spares a later provisioning the change of the password tells the
\* truth: a database whose marker names the stored credential accepts it, whatever
\* step the earlier provisionings failed at and whichever keys the agent had
\* (ensureInternalPostgresAuthentication).
SyncMarkerTrue == pg.sync # 0 /\ pg.sync = pg.cred => pg.role = pg.cred
=============================================================================
