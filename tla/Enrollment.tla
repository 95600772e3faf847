----------------------------- MODULE Enrollment -----------------------------
(***************************************************************************)
(* How a server becomes a cluster with an agent: the instance and its      *)
(* bootstrap tokens (instance_service.go), the installation over SSH and   *)
(* the nodes that join later (instance_ssh_install_service.go,             *)
(* cluster_node_service.go, target_service.go), the agent's start and its  *)
(* enrolment (agent app.go, enroll/service.go), and the backend's side of  *)
(* it (agent_enrollment_service.go).                                       *)
(*                                                                         *)
(* One instance, whose host runs one agent pod.  A token is an index of    *)
(* its table; an encryption key is the number of the install that made it. *)
(* An enrolment is a handful of separate database writes, not a            *)
(* transaction.                                                            *)
(***************************************************************************)
EXTENDS Naturals, Sequences, FiniteSets

CONSTANTS Calls,          \* handler goroutines of the enrolment endpoint
          MaxInstalls,    \* bound on installations
          MaxCalls,       \* bound on enrolment calls
          MaxMishaps      \* bound on crashes, timeouts, failed scripts, expiries

ASSUME EnrollmentAssumption == MaxInstalls \in Nat /\ MaxCalls \in Nat /\ MaxMishaps \in Nat

VARIABLES
    instance,   \* [exists, agent, status]
    boots,      \* bootstrap tokens: [used, expired, profile]
    tokens,     \* agent tokens: [agent, revoked, boot]
    agents,     \* agents created
    calls,      \* goroutine -> its enrolment call
    install,    \* the installation request: [pc, boot]
    secret,     \* the pod's environment as last applied: [boot, key]
    pod,        \* the agent process: [pc, boot, key, call]; call: the goroutine it waits for
    disk,       \* its state directory: [enrolled, agent, token, key]
    cluster,    \* [exists, joinable, online, nodes]: what the backend registered
    made,       \* [calls, installs]
    overlapped, \* whether two enrolment calls were ever in progress at once
    mishaps

enrollVars == <<instance, boots, tokens, agents, calls, install, secret, pod, disk, cluster,
                made, overlapped, mishaps>>

Idle    == [pc |-> "idle", boot |-> 0, agent |-> 0]
NoCall  == "none"
NoOne   == [enrolled |-> FALSE, agent |-> 0, token |-> 0, key |-> 0]

Down    == [pod EXCEPT !.pc = "down", !.call = NoCall]

EnrollInit ==
    /\ instance = [exists |-> FALSE, agent |-> 0, status |-> "absent"]
    /\ boots = <<>> /\ tokens = <<>> /\ agents = 0
    /\ calls = [h \in Calls |-> Idle]
    /\ install = [pc |-> "idle", boot |-> 0]
    /\ secret = [boot |-> 0, key |-> 0]
    /\ pod = [pc |-> "down", boot |-> 0, key |-> 0, call |-> NoCall]
    /\ disk = NoOne
    /\ cluster = [exists |-> FALSE, joinable |-> FALSE, online |-> FALSE, joined |-> "no"]
    /\ made = [calls |-> 0, installs |-> 0]
    /\ overlapped = FALSE /\ mishaps = 0

Mishap == mishaps < MaxMishaps /\ mishaps' = mishaps + 1

-----------------------------------------------------------------------------
(* Instances and bootstrap tokens. *)

issueBootstrapToken(table, profile) ==
    Append(table, [used |-> FALSE, expired |-> FALSE, profile |-> profile])

RevokeActiveForInstance(table) ==
    [b \in DOMAIN table |-> IF table[b].expired THEN table[b] ELSE [table[b] EXCEPT !.used = TRUE]]

\* An instance gets a bootstrap token with it, for any kind of agent.
Create ==
    /\ ~instance.exists /\ install.pc = "requested"
    /\ instance' = [exists |-> TRUE, agent |-> 0, status |-> "pending_enrollment"]
    /\ boots' = issueBootstrapToken(boots, "any")
    /\ UNCHANGED <<tokens, agents, calls, install, secret, pod, disk, cluster, made, overlapped, mishaps>>

-----------------------------------------------------------------------------
(* Installation over SSH. *)

\* ConnectInfraSSH: the instance is created, or found by its name.
ConnectInfraSSH ==
    /\ install.pc = "idle" /\ made.installs < MaxInstalls
    /\ install' = [pc |-> "requested", boot |-> 0]
    /\ made' = [made EXCEPT !.installs = @ + 1]
    /\ UNCHANGED <<instance, boots, tokens, agents, calls, secret, pod, disk, cluster, overlapped, mishaps>>

\* Install up to the script: the instance's tokens are revoked and one for a node
\* agent of this instance is issued; every installation has a fresh encryption key.
IssueBootstrapTokenWithProfile ==
    /\ install.pc = "requested" /\ instance.exists
    /\ boots' = issueBootstrapToken(RevokeActiveForInstance(boots), "node_agent")
    /\ install' = [pc |-> "script", boot |-> Len(boots) + 1]
    /\ UNCHANGED <<instance, tokens, agents, calls, secret, pod, disk, cluster, made, overlapped, mishaps>>

\* The script applies the Secret and the DaemonSet.  A pod that runs is not
\* restarted by the new Secret, and the state directory on the host is kept.
buildInstallAgentCommand ==
    /\ install.pc = "script"
    /\ secret' = [boot |-> install.boot, key |-> made.installs]
    /\ install' = [install EXCEPT !.pc = "rollout"]
    /\ UNCHANGED <<instance, boots, tokens, agents, calls, pod, disk, cluster, made, overlapped, mishaps>>

\* The script waits for the DaemonSet; a container that started is enough.  The
\* stages it printed must be complete, and the cluster is registered.
UpsertManagedFromBootstrap ==
    /\ install.pc = "rollout" /\ pod.pc # "down"
    /\ cluster' = [cluster EXCEPT !.exists = TRUE, !.joinable = TRUE, !.online = TRUE]
    /\ install' = [install EXCEPT !.pc = "installed"]
    /\ UNCHANGED <<instance, boots, tokens, agents, calls, secret, pod, disk, made, overlapped, mishaps>>

\* AutoBootstrap attaches the project (BootstrapPlan); the request is answered.
Attach ==
    /\ install.pc = "installed"
    /\ install' = [install EXCEPT !.pc = "idle"]
    /\ UNCHANGED <<instance, boots, tokens, agents, calls, secret, pod, disk, cluster, made, overlapped, mishaps>>

\* The connection or the script fails, or the rollout times out.
InstallFails ==
    /\ Mishap
    /\ install.pc \in {"script", "rollout"}
    /\ install' = [pc |-> "idle", boot |-> 0]
    /\ UNCHANGED <<instance, boots, tokens, agents, calls, secret, pod, disk, cluster, made, overlapped>>

\* ConnectNodeViaSSH: another host joins a registered cluster.  It is labelled by
\* the cluster's agent and then offered for placement; a failed label command
\* leaves a node that runs in the cluster and is not offered.
ConnectNodeViaSSH ==
    /\ cluster.joinable
    /\ \/ cluster.joined = "no" /\ cluster' = [cluster EXCEPT !.joined = "joined"]
       \/ /\ cluster.joined = "joined" /\ instance.agent # 0 /\ pod.pc = "running"
          /\ cluster' = [cluster EXCEPT !.joined = "labelled"]
       \/ cluster.joined = "labelled" /\ cluster' = [cluster EXCEPT !.joined = "offered"]
    /\ UNCHANGED <<instance, boots, tokens, agents, calls, install, secret, pod, disk, made, overlapped, mishaps>>

-----------------------------------------------------------------------------
(* The agent. *)

\* The container starts, or is restarted, with the Secret of that moment.
StartPod ==
    /\ pod.pc = "down" /\ secret.boot # 0
    /\ pod' = [pc |-> "starting", boot |-> secret.boot, key |-> secret.key, call |-> NoCall]
    /\ UNCHANGED <<instance, boots, tokens, agents, calls, install, secret, disk, cluster, made, overlapped, mishaps>>

InProgress == {h \in Calls : calls[h] # Idle}

\* Run of an agent that is not enrolled: the bootstrap token is exchanged.
requestEnrollment(h) ==
    /\ pod.pc = "starting" /\ ~disk.enrolled
    /\ calls[h] = Idle /\ made.calls < MaxCalls
    /\ calls' = [calls EXCEPT ![h] = [pc |-> "received", boot |-> pod.boot, agent |-> 0]]
    /\ made' = [made EXCEPT !.calls = @ + 1]
    /\ overlapped' = (overlapped \/ InProgress # {})
    /\ pod' = [pod EXCEPT !.pc = "asking", !.call = h]
    /\ UNCHANGED <<instance, boots, tokens, agents, install, secret, disk, cluster, mishaps>>

\* Run of an enrolled agent: the stored token is decrypted with the key of its
\* environment, and the control session is opened with it.
LoadAgentToken ==
    /\ pod.pc = "starting" /\ disk.enrolled
    /\ pod' = [pod EXCEPT !.pc = IF disk.key = pod.key THEN "running" ELSE "down"]
    /\ UNCHANGED <<instance, boots, tokens, agents, calls, install, secret, disk, cluster, made, overlapped, mishaps>>

PodCrash ==
    /\ Mishap
    /\ pod.pc # "down" /\ pod' = Down
    /\ UNCHANGED <<instance, boots, tokens, agents, calls, install, secret, disk, cluster, made, overlapped>>

-----------------------------------------------------------------------------
(* The enrolment endpoint.  The caller that waits is the pod; a call whose    *)
(* caller gave up or died goes on.                                            *)

\* The caller hears an error: the agent exits.
Refused(h) == /\ calls' = [calls EXCEPT ![h] = Idle]
              /\ pod' = IF pod.call = h THEN Down ELSE pod

Usable(b) == ~boots[b].used /\ ~boots[b].expired

\* The token's profile is the agent's, it is neither used nor expired, and the
\* instance is read; resolveOrCreateAgent reuses the agent it names.
checkBootstrapToken(h) ==
    /\ calls[h].pc = "received"
    /\ IF Usable(calls[h].boot)
       THEN /\ calls' = [calls EXCEPT ![h] = [pc |-> "checked", boot |-> @.boot, agent |-> instance.agent]]
            /\ UNCHANGED pod
       ELSE Refused(h)
    /\ UNCHANGED <<instance, boots, tokens, agents, install, secret, disk, cluster, made, overlapped, mishaps>>

resolveOrCreateAgent(h) ==
    /\ calls[h].pc = "checked"
    /\ LET a == IF calls[h].agent # 0 THEN calls[h].agent ELSE agents + 1 IN
       /\ agents' = IF a > agents THEN a ELSE agents
       /\ calls' = [calls EXCEPT ![h] = [pc |-> "resolved", boot |-> @.boot, agent |-> a]]
    /\ UNCHANGED <<instance, boots, tokens, install, secret, pod, disk, cluster, made, overlapped, mishaps>>

\* Slip: the new agent keeps its old tokens.
CreateAgentTokenOnly(h) ==
    /\ calls[h].pc = "resolved"
    /\ tokens' = Append(tokens, [agent |-> calls[h].agent, revoked |-> FALSE, boot |-> calls[h].boot])
    /\ calls' = [calls EXCEPT ![h].pc = "minted"]
    /\ UNCHANGED <<instance, boots, agents, install, secret, pod, disk, cluster, made, overlapped, mishaps>>

\* RevokeByAgent, and then the new token.
RevokeAndCreateToken(h) ==
    \/ /\ calls[h].pc = "resolved"
       /\ tokens' = [t \in DOMAIN tokens |-> IF tokens[t].agent = calls[h].agent
                                             THEN [tokens[t] EXCEPT !.revoked = TRUE] ELSE tokens[t]]
       /\ calls' = [calls EXCEPT ![h].pc = "revoked"]
       /\ UNCHANGED <<instance, boots, agents, install, secret, pod, disk, cluster, made, overlapped, mishaps>>
    \/ /\ calls[h].pc = "revoked"
       /\ tokens' = Append(tokens, [agent |-> calls[h].agent, revoked |-> FALSE, boot |-> calls[h].boot])
       /\ calls' = [calls EXCEPT ![h].pc = "minted"]
       /\ UNCHANGED <<instance, boots, agents, install, secret, pod, disk, cluster, made, overlapped, mishaps>>

UpdateAgentState(h) ==
    /\ calls[h].pc = "minted"
    /\ instance' = [instance EXCEPT !.agent = calls[h].agent, !.status = "online"]
    /\ calls' = [calls EXCEPT ![h].pc = "bound"]
    /\ UNCHANGED <<boots, tokens, agents, install, secret, pod, disk, cluster, made, overlapped, mishaps>>

NewestOf(a) == CHOOSE t \in DOMAIN tokens :
    /\ tokens[t].agent = a
    /\ \A u \in DOMAIN tokens : tokens[u].agent = a => u <= t

\* MarkUsed: unconditional.  The answer is on its way.
MarkUsed(h) ==
    /\ calls[h].pc = "bound"
    /\ boots' = [boots EXCEPT ![calls[h].boot].used = TRUE]
    /\ calls' = [calls EXCEPT ![h].pc = "answered"]
    /\ UNCHANGED <<instance, tokens, agents, install, secret, pod, disk, cluster, made, overlapped, mishaps>>

\* The agent stores what it got, encrypted with its key, and connects; an answer
\* nobody waits for is dropped.
persistEnrollment(h) ==
    /\ calls[h].pc = "answered"
    /\ calls' = [calls EXCEPT ![h] = Idle]
    /\ IF pod.call = h
       THEN /\ disk' = [enrolled |-> TRUE, agent |-> calls[h].agent,
                        token |-> NewestOf(calls[h].agent), key |-> pod.key]
            /\ pod' = [pod EXCEPT !.pc = "running", !.call = NoCall]
       ELSE UNCHANGED <<disk, pod>>
    /\ UNCHANGED <<instance, boots, tokens, agents, install, secret, cluster, made, overlapped, mishaps>>

\* The HTTP client gives up; the handler goes on.
EnrollTimeout ==
    /\ Mishap
    /\ pod.pc = "asking" /\ pod' = Down
    /\ UNCHANGED <<instance, boots, tokens, agents, calls, install, secret, disk, cluster, made, overlapped>>

BackendCrash ==
    /\ Mishap
    /\ calls' = [h \in Calls |-> Idle]
    /\ pod' = IF pod.pc = "asking" THEN Down ELSE pod
    /\ install' = [pc |-> "idle", boot |-> 0]
    /\ UNCHANGED <<instance, boots, tokens, agents, secret, disk, cluster, made, overlapped>>

BootstrapExpires ==
    /\ Mishap
    /\ \E b \in DOMAIN boots : ~boots[b].expired /\ boots' = [boots EXCEPT ![b].expired = TRUE]
    /\ UNCHANGED <<instance, tokens, agents, calls, install, secret, pod, disk, cluster, made, overlapped>>

-----------------------------------------------------------------------------
EnrollNext ==
    \/ Create \/ ConnectInfraSSH \/ IssueBootstrapTokenWithProfile \/ buildInstallAgentCommand
    \/ UpsertManagedFromBootstrap \/ Attach \/ InstallFails \/ ConnectNodeViaSSH
    \/ StartPod \/ LoadAgentToken \/ PodCrash
    \/ \E h \in Calls :
          \/ requestEnrollment(h) \/ checkBootstrapToken(h) \/ resolveOrCreateAgent(h)
          \/ RevokeAndCreateToken(h) \/ UpdateAgentState(h) \/ MarkUsed(h) \/ persistEnrollment(h)
    \/ EnrollTimeout \/ BackendCrash \/ BootstrapExpires

EnrollSpec == EnrollInit /\ [][EnrollNext]_enrollVars

\* An enrolled agent that runs is the agent its instance names, and its token is
\* the one valid token of that agent, unless two enrolment calls overlapped: no
\* crash, timeout, repeated installation or expiry alone separates them
\* (AgentEnrollmentService.Enroll).
EnrolledAgentIsServed ==
    pod.pc = "running" /\ ~overlapped =>
        /\ instance.agent = disk.agent
        /\ {t \in DOMAIN tokens : tokens[t].agent = disk.agent /\ ~tokens[t].revoked} = {disk.token}

\* An installation that succeeded leaves an agent that can be started again: what
\* it stored can be read with the key it will be given.
InstalledAgentRestarts == install.pc = "installed" /\ disk.enrolled => disk.key = secret.key
=============================================================================
