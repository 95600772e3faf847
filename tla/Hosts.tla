-------------------------------- MODULE Hosts ---------------------------------
(***************************************************************************)
(* The hosts of an owner: the nodes of a k3s cluster, and the tunnels to   *)
(* debug a target from the developer's machine.                            *)
(*                                                                         *)
(* The nodes of one k3s cluster, as the backend offers them for pinned     *)
(* placement (backend/internal/service/cluster_node_service.go,            *)
(* mesh_planning_service.go, topology_state_repository.go).  A node joins  *)
(* over SSH, is labelled with its instance by a command to the agent of    *)
(* the control plane, and only then gets a row in the topology table; the  *)
(* control plane's own row is written when the cluster is installed, and   *)
(* by its agent's reports.  A pinned service selects its node by the label *)
(* lazyops.io/instance-id.                                                 *)
(*                                                                         *)
(* Debug tunnel sessions: the command line asks for one                    *)
(* (cli/internal/command/tunnel.go, cli/internal/tunnel/session.go), the   *)
(* backend checks that no other unexpired session of the target uses the   *)
(* local port, and stores it (tunnel_controller.go,                        *)
(* mesh_planning_service.go, tunnel_session_repository.go).  Listing the   *)
(* sessions and storing the new one are two steps.  Each command is a      *)
(* process of its own, and its list of sessions ends with it.              *)
(***************************************************************************)
EXTENDS Naturals, Sequences, FiniteSets

CONSTANTS ControlPlane, Workers,  \* hosts; an instance is named like its host
          JoinCalls, MaxNodeSteps

VARIABLES joined,    \* hosts that are nodes of the cluster
          label,     \* host -> the instance its node is labelled with, or "none"
          topology,  \* host -> <<>> or <<[here, state, by]>>, one row per instance
          server,    \* whether the k3s server runs
          joinCalls, nodeSteps

nodesVars == <<joined, label, topology, server, joinCalls, nodeSteps>>

Machines == Workers \cup {ControlPlane}
NoJoin == [pc |-> "idle"]
States == {"online", "degraded", "offline"}
NodeStep == nodeSteps < MaxNodeSteps /\ nodeSteps' = nodeSteps + 1

(* Upsert by instance: mesh, state and metadata are overwritten.           *)
Upsert(h, row) == topology' = [topology EXCEPT ![h] = <<row>>]

(* Rows of this cluster that are not offline; the control plane counts     *)
(* even without a row, ready as long as the cluster is said to be.         *)
ListActiveByMesh ==
    {h \in Machines : topology[h] # <<>> /\ topology[h][1].here /\ topology[h][1].state # "offline"}

ListClusterNodes ==
    [h \in ListActiveByMesh \cup {ControlPlane} |->
        IF h \in ListActiveByMesh THEN topology[h][1].state = "online" ELSE TRUE]

ListPlacementNodes == {h \in DOMAIN ListClusterNodes : ListClusterNodes[h]}

-----------------------------------------------------------------------------
(* ConnectNodeViaSSH: the named instance is created, or taken if the name  *)
(* is known, the control plane's included.                                 *)
resolveOrCreateSSHInstance(c, h) ==
    /\ joinCalls[c] = NoJoin /\ NodeStep
    /\ joinCalls' = [joinCalls EXCEPT ![c] = [pc |-> "ssh", host |-> h]]
    /\ UNCHANGED <<joined, label, topology, server>>

(* The join command first disables any k3s server on the host.  It may     *)
(* fail, before or after the host joined.                                  *)
JoinClusterNode(c) == \E ok \in BOOLEAN, works \in BOOLEAN :
    /\ joinCalls[c].pc = "ssh"
    /\ ok => works
    /\ server' = (server /\ joinCalls[c].host # ControlPlane)
    /\ joined' = IF works THEN joined \cup {joinCalls[c].host} ELSE joined
    /\ joinCalls' = [joinCalls EXCEPT ![c] = IF ok THEN [@ EXCEPT !.pc = "label"] ELSE NoJoin]
    /\ UNCHANGED <<label, topology, nodeSteps>>

labelLater(c) ==
    /\ joinCalls[c].pc = "label"
    /\ joinCalls' = [joinCalls EXCEPT ![c] = [@ EXCEPT !.pc = "topology"]]
    /\ UNCHANGED <<joined, label, topology, server, nodeSteps>>

(* A command to the control plane's agent, and the wait for its answer;    *)
(* the command may be done and its answer lost.                            *)
labelJoinedNode(c) == \E done \in BOOLEAN, answered \in BOOLEAN :
    LET h == joinCalls[c].host
    IN  /\ joinCalls[c].pc = "label"
        /\ answered => done
        /\ done => server /\ h \in joined
        /\ label' = IF done THEN [label EXCEPT ![h] = h] ELSE label
        /\ joinCalls' = [joinCalls EXCEPT ![c] =
               IF answered THEN [@ EXCEPT !.pc = "topology"] ELSE NoJoin]
        /\ UNCHANGED <<joined, topology, server, nodeSteps>>

UpsertJoined(c) ==
    /\ joinCalls[c].pc = "topology"
    /\ Upsert(joinCalls[c].host, [here |-> TRUE, state |-> "online", by |-> "cluster_join_ssh"])
    /\ joinCalls' = [joinCalls EXCEPT ![c] = NoJoin]
    /\ UNCHANGED <<joined, label, server, nodeSteps>>

-----------------------------------------------------------------------------
(* buildClusterTopologyState: the row of the control plane, after the      *)
(* installation of the cluster.                                            *)
buildClusterTopologyState ==
    /\ NodeStep
    /\ Upsert(ControlPlane, [here |-> TRUE, state |-> "online", by |-> "ssh_install"])
    /\ UNCHANGED <<joined, label, server, joinCalls>>

(* A report of an agent, for this cluster or for a mesh the instance is in *)
(* too; only the control plane's host runs an agent of its own.            *)
IngestTopologyState == \E here \in BOOLEAN, state \in States :
    /\ NodeStep
    /\ Upsert(ControlPlane, [here |-> here, state |-> state, by |-> "agent"])
    /\ UNCHANGED <<joined, label, server, joinCalls>>

NodesInit ==
    /\ joined = {ControlPlane} /\ server = TRUE
    /\ label = [h \in Machines |-> "none"]
    /\ topology = [h \in Machines |-> <<>>]
    /\ joinCalls = [c \in JoinCalls |-> NoJoin] /\ nodeSteps = 0

NodesNext ==
    \/ \E c \in JoinCalls :
        \/ \E h \in Machines : resolveOrCreateSSHInstance(c, h)
        \/ JoinClusterNode(c) \/ labelJoinedNode(c) \/ UpsertJoined(c)
    \/ buildClusterTopologyState \/ IngestTopologyState

NodesSpec == NodesInit /\ [][NodesNext]_nodesVars

-----------------------------------------------------------------------------
(* Properties. *)

(* A joined node offered for pinned placement carries the label a pinned   *)
(* service selects it by, whatever joins overlapped, failed half way or    *)
(* were tried again, and whatever was reported meanwhile.                  *)
JoinedNodesLabelled ==
    \A h \in ListPlacementNodes \ {ControlPlane} : h \in joined /\ label[h] = h

(* "Node labeled for pinned placement": so does every node offered.        *)
PlacementNodesLabelled == \A h \in ListPlacementNodes : label[h] = h

-----------------------------------------------------------------------------
(* Tunnels. *)

CONSTANTS LocalPorts,   \* allowed local ports
          TunnelCalls,  \* commands that may run at the same time
          MaxSessions, MaxTime

VARIABLES sessions,     \* the rows of the target, in the order they were created
          taken,        \* ports another process of the developer's machine listens on
          online,       \* whether the target's agent reports it as not offline
          tunnelCalls, now

tunnelVars == <<sessions, taken, online, tunnelCalls, now>>

NoTunnelCall == [pc |-> "idle"]
Timeouts == {1, 2}   \* allowed timeouts, in units of MinTunnelTimeout

Live(s) == s.status = "active" /\ s.expires > now

(* runTunnel: the arguments are valid and the port is free on this machine,*)
(* which is looked at once and not held.                                   *)
runTunnel(c, port, ttl) ==
    /\ tunnelCalls[c] = NoTunnelCall
    /\ port \notin taken
    /\ tunnelCalls' = [tunnelCalls EXCEPT ![c] = [pc |-> "list", port |-> port, ttl |-> ttl]]
    /\ UNCHANGED <<sessions, taken, online, now>>

closesExpired(s, port) == s.status = "active" /\ s.port = port /\ ~Live(s)

(* CreateTunnelSession lists the sessions of the target: an unexpired one  *)
(* on the port refuses the new one, an expired one is closed first.        *)
ListByTarget(c) ==
    LET call == tunnelCalls[c]
        conflict == \E i \in DOMAIN sessions : sessions[i].port = call.port /\ Live(sessions[i])
    IN  /\ call.pc = "list"
        /\ IF ~online \/ conflict
           THEN tunnelCalls' = [tunnelCalls EXCEPT ![c] = NoTunnelCall] /\ UNCHANGED sessions
           ELSE /\ sessions' = [i \in DOMAIN sessions |->
                       IF closesExpired(sessions[i], call.port)
                       THEN [sessions[i] EXCEPT !.status = "closed"] ELSE sessions[i]]
                /\ tunnelCalls' = [tunnelCalls EXCEPT ![c] =
                       [pc |-> "create", port |-> call.port, seen |-> Len(sessions),
                        expires |-> now + call.ttl]]
        /\ UNCHANGED <<taken, online, now>>

CreateTunnelSession(c) ==
    LET call == tunnelCalls[c]
    IN  /\ call.pc = "create" /\ Len(sessions) < MaxSessions
        /\ sessions' = Append(sessions, [port |-> call.port, expires |-> call.expires,
                                         status |-> "active", seen |-> call.seen])
        /\ tunnelCalls' = [tunnelCalls EXCEPT ![c] = NoTunnelCall]
        /\ UNCHANGED <<taken, online, now>>

(* runTunnelStop: the row is closed whatever its status was.               *)
CloseTunnelSession == \E i \in DOMAIN sessions :
    /\ sessions' = [sessions EXCEPT ![i].status = "closed"]
    /\ UNCHANGED <<taken, online, tunnelCalls, now>>

(* External: the clock, the developer's machine, the target's reports.     *)
TunnelTick ==
    /\ now < MaxTime /\ now' = now + 1
    /\ UNCHANGED <<sessions, taken, online, tunnelCalls>>

PortChanges == \E p \in LocalPorts :
    /\ taken' = IF p \in taken THEN taken \ {p} ELSE taken \cup {p}
    /\ UNCHANGED <<sessions, online, tunnelCalls, now>>

TargetReports ==
    /\ online' = ~online
    /\ UNCHANGED <<sessions, taken, tunnelCalls, now>>

TunnelInit ==
    /\ sessions = <<>> /\ taken = {} /\ online = TRUE /\ now = 0
    /\ tunnelCalls = [c \in TunnelCalls |-> NoTunnelCall]

TunnelNext ==
    \/ \E c \in TunnelCalls :
        \/ \E p \in LocalPorts, ttl \in Timeouts : runTunnel(c, p, ttl)
        \/ ListByTarget(c) \/ CreateTunnelSession(c)
    \/ CloseTunnelSession \/ TunnelTick \/ PortChanges \/ TargetReports

TunnelSpec == TunnelInit /\ [][TunnelNext]_tunnelVars

-----------------------------------------------------------------------------
(* Properties. *)

(* Two unexpired active sessions share a port only when their calls        *)
(* overlapped: the later one listed the sessions before the earlier was    *)
(* stored.  A session that was there to be seen is never doubled, however  *)
(* sessions expired, were stopped and were asked for again.                *)
SharedPortOverlapped ==
    \A i, j \in DOMAIN sessions :
        i < j /\ sessions[i].port = sessions[j].port /\ Live(sessions[i]) /\ Live(sessions[j])
            => sessions[j].seen < i

=============================================================================
