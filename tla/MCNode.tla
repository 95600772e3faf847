------------------------------- MODULE MCNode -------------------------------
(* What an agent keeps on its node, part by part: a behaviour exercises one   *)
(* part, the others stay where they start.                                    *)
EXTENDS Gateway, Autosleep, NodeContainers, Sidecars, Mesh, K3sNode, Telemetry

VARIABLE part
parts == <<gatewayVars, followerVars, sleepVars, nodeVars, sidecarVars, meshVars, k3sVars, telemetryVars>>
mcVars == <<part, parts>>

\* The first version takes its hosts from the backend, the second mostly has magic
\* ones; one of its revisions has a host that two services claim.
Revision(version, injected, standalone, paths) ==
    [version |-> version, injected |-> injected, standalone |-> standalone, domain |-> TRUE, paths |-> paths]
Path(service) == [service |-> service, path |-> "/api", ws |-> FALSE, mode |-> "auto", strip |-> TRUE]
MCGatewayInputs ==
    LET first == CHOOSE v \in Versions : TRUE
    IN  {Revision(first, [web |-> "own"], TRUE, {}),
         Revision(CHOOSE v \in Versions : v # first, [web |-> "none", api |-> "own"], FALSE, {Path("api")}),
         Revision(first, [web |-> "shared", api |-> "shared"], TRUE, {})}

MCInit ==
    /\ part \in {"gateway", "followers", "sleep", "containers", "sidecars", "mesh", "k3s", "logs", "metrics"}
    /\ GatewayInit /\ FollowersInit /\ SleepInit /\ NodeInit /\ SidecarInit /\ MeshInit /\ K3sInit /\ TelemetryInit

GatewayPart == part = "gateway" /\ GatewayNext
    /\ UNCHANGED <<followerVars, sleepVars, nodeVars, sidecarVars, meshVars, k3sVars, telemetryVars>>
FollowersPart == part = "followers" /\ FollowersNext
    /\ UNCHANGED <<gatewayVars, sleepVars, nodeVars, sidecarVars, meshVars, k3sVars, telemetryVars>>
SleepPart == part = "sleep" /\ SleepNext
    /\ UNCHANGED <<gatewayVars, followerVars, nodeVars, sidecarVars, meshVars, k3sVars, telemetryVars>>
ContainersPart == part = "containers" /\ NodeNext
    /\ UNCHANGED <<gatewayVars, followerVars, sleepVars, sidecarVars, meshVars, k3sVars, telemetryVars>>
SidecarsPart == part = "sidecars" /\ SidecarNext
    /\ UNCHANGED <<gatewayVars, followerVars, sleepVars, nodeVars, meshVars, k3sVars, telemetryVars>>
MeshPart == part = "mesh" /\ MeshNext
    /\ UNCHANGED <<gatewayVars, followerVars, sleepVars, nodeVars, sidecarVars, k3sVars, telemetryVars>>
K3sPart == part = "k3s" /\ K3sNext
    /\ UNCHANGED <<gatewayVars, followerVars, sleepVars, nodeVars, sidecarVars, meshVars, telemetryVars>>
TelemetryPart ==
    /\ \/ part = "logs" /\ LogsNext
       \/ part = "metrics" /\ MetricsNext
    /\ UNCHANGED <<gatewayVars, followerVars, sleepVars, nodeVars, sidecarVars, meshVars, k3sVars>>

MCNext ==
    /\ \/ GatewayPart \/ FollowersPart \/ SleepPart \/ ContainersPart
       \/ SidecarsPart \/ MeshPart \/ K3sPart \/ TelemetryPart
    /\ UNCHANGED part
MCSpec == MCInit /\ [][MCNext]_mcVars
=============================================================================
