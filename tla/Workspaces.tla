----------------------------- MODULE Workspaces -----------------------------
(***************************************************************************)
(* The workspaces of one binding on the agent's disk: the runtime ports    *)
(* given to the services of a revision when it is prepared, and the files  *)
(* that carry them, one runtime.json per service, which its container is   *)
(* started from, and workspace.json last, which the gateway and the health *)
(* gate read (agent runtime/filesystem_driver.go, runtime_ports.go).       *)
(*                                                                         *)
(* The agent runs each command in its own goroutine and the driver takes   *)
(* no lock, so preparations overlap, those of one revision too when a      *)
(* recovery prepares again what the agent is still preparing.              *)
(***************************************************************************)
EXTENDS Naturals, Sequences

CONSTANTS
    Revisions, None,
    PrepareCalls,  \* preparations the agent may be at work on
    Workloads,     \* services of a revision, in order: [declared, listeners, seed, internal]
    PortSpan,      \* length of the standalone range, which starts at FirstPort
    FirstPort,
    MaxSteps       \* bound on commands, failures, and ports opened or closed

Workload == [declared : Nat, listeners : SUBSET Nat, seed : Nat, internal : BOOLEAN]

ASSUME WorkspacesAssumption ==
    /\ PortSpan \in Nat \ {0} /\ FirstPort \in Nat \ {0} /\ MaxSteps \in Nat
    /\ Workloads \in Seq(Workload)

VARIABLES
    preparing,     \* call -> [step, rev, ports, written, alone], see NoPrepare
    runtimeFiles,  \* revision -> the port in each service's runtime.json, 0: none
    wsManifest,    \* revision -> the ports in workspace.json, <<>>: no file
    workspaceDirs, \* revision -> whether its directories are there
    prepared,      \* revisions whose last preparation on disk ran to its end, alone
    listens,       \* ports something on the host listens on
    wsSteps

workspaceVars == <<preparing, runtimeFiles, wsManifest, workspaceDirs, prepared, listens, wsSteps>>

NoPorts == [i \in DOMAIN Workloads |-> 0]

\* ports: those assigned so far; written: the services whose files are written;
\* alone: no other call was writing the revision's files meanwhile.
NoPrepare == [step |-> "idle", rev |-> None, ports |-> <<>>, written |-> 0, alone |-> TRUE]

Command == wsSteps < MaxSteps /\ wsSteps' = wsSteps + 1

WsInit ==
    /\ preparing = [c \in PrepareCalls |-> NoPrepare]
    /\ runtimeFiles = [r \in Revisions |-> NoPorts]
    /\ wsManifest = [r \in Revisions |-> <<>>]
    /\ workspaceDirs = [r \in Revisions |-> FALSE]
    /\ prepared = {} /\ listens = {} /\ wsSteps = 0

serviceLocalListenerPortConflicts(s, port) == port \in s.listeners

(* Slip: the ports the earlier services were given are not asked about. *)
runtimePortListenedOnly(port, reserved) == port > 0 /\ port \notin listens

runtimePortAvailable(port, reserved) == port > 0 /\ port \notin reserved /\ port \notin listens

StandaloneRange == FirstPort..FirstPort + PortSpan - 1

(* The first free port of the range, from the service's own seed on; 0 when *)
(* the range is full.                                                       *)
allocateStandaloneRuntimePort(s, reserved) ==
    LET At(n) == FirstPort + ((s.seed + n) % PortSpan)
        Free == {n \in 0..PortSpan - 1 : runtimePortAvailable(At(n), reserved)}
    IN  IF Free = {} THEN 0 ELSE At(CHOOSE n \in Free : \A m \in Free : n <= m)

shouldAssignStandaloneRuntimePort(s) == ~s.internal

RuntimePort(s, reserved) ==
    IF runtimePortAvailable(s.declared, reserved) /\ ~serviceLocalListenerPortConflicts(s, s.declared)
    THEN s.declared
    ELSE allocateStandaloneRuntimePort(s, reserved)

(* Other programs, and the containers of the revisions, come and go. *)
Listen == Command /\ \E p \in {Workloads[i].declared : i \in DOMAIN Workloads} \cup {FirstPort} :
    /\ listens' = IF p \in listens THEN listens \ {p} ELSE listens \cup {p}
    /\ UNCHANGED <<preparing, runtimeFiles, wsManifest, workspaceDirs, prepared>>

(* handlePrepareReleaseWorkspace: also for a revision prepared before. *)
BeginPrepare(c, r) ==
    /\ Command /\ preparing[c].step = "idle"
    /\ preparing' = [preparing EXCEPT ![c] = [NoPrepare EXCEPT !.step = "ports", !.rev = r]]
    /\ UNCHANGED <<runtimeFiles, wsManifest, workspaceDirs, prepared, listens>>

(* assignRuntimePorts, one service at a time: a port is free when it is     *)
(* probed.  With no port to give, the call ends and touches no file.        *)
assignRuntimePorts(c) ==
    LET done == preparing[c].ports
        s == Workloads[Len(done) + 1]
        port == IF shouldAssignStandaloneRuntimePort(s)
                THEN RuntimePort(s, {done[i] : i \in DOMAIN done}) ELSE 0
    IN
    /\ preparing[c].step = "ports" /\ Len(done) < Len(Workloads)
    /\ preparing' = [preparing EXCEPT ![c] =
           IF shouldAssignStandaloneRuntimePort(s) /\ port = 0
           THEN NoPrepare ELSE [@ EXCEPT !.ports = Append(done, port)]]
    /\ UNCHANGED <<runtimeFiles, wsManifest, workspaceDirs, prepared, listens, wsSteps>>

WritingOf(r) == {c \in PrepareCalls : preparing[c].step = "files" /\ preparing[c].rev = r}

(* The directories are made, and the artifact is fetched before any file.  *)
MkdirAll(c) ==
    LET r == preparing[c].rev IN
    /\ preparing[c].step = "ports" /\ Len(preparing[c].ports) = Len(Workloads)
    /\ preparing' = [d \in PrepareCalls |->
           IF d = c THEN [preparing[d] EXCEPT !.step = "files", !.alone = (WritingOf(r) = {})]
           ELSE IF d \in WritingOf(r) THEN [preparing[d] EXCEPT !.alone = FALSE]
           ELSE preparing[d]]
    /\ workspaceDirs' = [workspaceDirs EXCEPT ![r] = TRUE]
    /\ prepared' = prepared \ {r}
    /\ UNCHANGED <<runtimeFiles, wsManifest, listens, wsSteps>>

(* The service's directory is made if it is not there. *)
WriteService(c) ==
    LET i == preparing[c].written + 1 IN
    /\ preparing[c].step = "files" /\ i <= Len(Workloads)
    /\ runtimeFiles' = [runtimeFiles EXCEPT ![preparing[c].rev][i] = preparing[c].ports[i]]
    /\ preparing' = [preparing EXCEPT ![c].written = i]
    /\ UNCHANGED <<wsManifest, workspaceDirs, prepared, listens, wsSteps>>

(* workspace.json is written last, into directories another call may have   *)
(* removed.                                                                 *)
PrepareReleaseWorkspace(c) ==
    LET r == preparing[c].rev IN
    /\ preparing[c].step = "files" /\ preparing[c].written = Len(Workloads) /\ workspaceDirs[r]
    /\ wsManifest' = [wsManifest EXCEPT ![r] = preparing[c].ports]
    /\ preparing' = [preparing EXCEPT ![c] = NoPrepare]
    /\ prepared' = IF preparing[c].alone THEN prepared \cup {r} ELSE prepared
    /\ UNCHANGED <<runtimeFiles, workspaceDirs, listens, wsSteps>>

(* A failure once the directories are made takes all of them with it. *)
PrepareFails(c) ==
    LET r == preparing[c].rev IN
    /\ Command /\ preparing[c].step = "files"
    /\ preparing' = [preparing EXCEPT ![c] = NoPrepare]
    /\ runtimeFiles' = [runtimeFiles EXCEPT ![r] = NoPorts]
    /\ wsManifest' = [wsManifest EXCEPT ![r] = <<>>]
    /\ workspaceDirs' = [workspaceDirs EXCEPT ![r] = FALSE]
    /\ UNCHANGED <<prepared, listens>>

(* A restart of the agent leaves the files as they were written so far. *)
AgentStops ==
    /\ Command
    /\ preparing' = [c \in PrepareCalls |-> NoPrepare]
    /\ UNCHANGED <<runtimeFiles, wsManifest, workspaceDirs, prepared, listens>>

WsNext ==
    \/ Listen \/ AgentStops
    \/ \E c \in PrepareCalls :
        \/ \E r \in Revisions : BeginPrepare(c, r)
        \/ assignRuntimePorts(c) \/ MkdirAll(c) \/ WriteService(c)
        \/ PrepareReleaseWorkspace(c) \/ PrepareFails(c)

WsSpec == WsInit /\ [][WsNext]_workspaceVars
-----------------------------------------------------------------------------
(* PrepareReleaseWorkspace: a revision whose last preparation ran to its    *)
(* end, and none other wrote its files meanwhile, is whole, whatever other  *)
(* preparations, failures and restarts went before: its containers start on *)
(* the ports that the gateway and the gate are told of, no two services on  *)
(* one port, none without, and none on a port its companion listens on      *)
(* unless the standalone range happens to hold it.                          *)
PreparedWhole ==
    \A r \in prepared : \A i, j \in DOMAIN Workloads :
        LET port == runtimeFiles[r][i] IN
        /\ wsManifest[r][i] = port
        /\ i # j /\ port # 0 => port # runtimeFiles[r][j]
        /\ Workloads[i].internal \/ port # 0
        /\ ~Workloads[i].internal /\ serviceLocalListenerPortConflicts(Workloads[i], port)
            => port \in StandaloneRange

=============================================================================
