----------------------------- MODULE MCPlatform -----------------------------
(* What the control plane decides for a project and for the hosts of its     *)
(* owner, part by part: a behaviour exercises one part, the others stay      *)
(* where they start.                                                         *)
EXTENDS Bootstrap, ServiceInventory, Manifests, Domains, Hosts

OfferedItems == {
    [name |-> "web", internal |-> FALSE, port |-> 80, deps |-> {"db"}],
    [name |-> "api", internal |-> FALSE, port |-> DefaultPort, deps |-> {}],
    [name |-> "db", internal |-> TRUE, port |-> 0, deps |-> {"cache"}],
    [name |-> "cache", internal |-> TRUE, port |-> 6379, deps |-> {}],
    [name |-> "cache", internal |-> FALSE, port |-> 81, deps |-> {"cache"}]}

svc(name, lbl, looks, public, kind, env) ==
    [name |-> name, label |-> lbl, looks |-> looks, public |-> public, kind |-> kind, env |-> env,
     port |-> IF kind = "app" THEN 80 ELSE 0, image |-> kind = "app"]
Web == svc("web", "web", {"frontend"}, TRUE, "app", FALSE)
Api == svc("api", "api", {"api", "backend"}, TRUE, "app", TRUE)
Api2 == svc("Api", "api", {"api"}, TRUE, "app", FALSE)
Chat == svc("chat_ws", "chat-ws", {"ws"}, TRUE, "app", FALSE)
Db == svc("db", "db", {}, FALSE, "postgres", FALSE)
Draft == [svc("draft", "draft", {}, FALSE, "app", FALSE) EXCEPT !.image = FALSE]
ConfiguredLists == {<<Web, Api, Db>>, <<Chat, Api, Api2, Draft>>}
AskedFor == {{"chat_ws", "api", "Api"}, {"draft"}}

route(path, s, mode) ==
    [path |-> path, service |-> s.name, ws |-> FALSE, mode |-> mode, strip |-> FALSE]
stored(shared, routes) == [shared |-> shared, routes |-> routes]
StoredPolicies == {stored(TRUE, <<>>),
    stored(FALSE, <<route(Root, Web, ""), route(Path("v1"), Api, "always")>>),
    stored(TRUE, <<route(Path("api"), Chat, ""), route(Path("api"), Api2, "never")>>)}
TwoRoots == {stored(TRUE, <<route(Root, Web, ""), route(Root, Api, "")>>)}

VARIABLE part
parts == <<bootVars, invVars, manifestVars, domainVars, nodesVars, tunnelVars>>
mcVars == <<part, parts>>

MCInit ==
    /\ part \in {"bootstrap", "inventory", "manifests", "domains", "nodes", "tunnels"}
    /\ BootInit /\ InvInit /\ ManifestInit /\ DomainInit /\ NodesInit /\ TunnelInit
    /\ part # "bootstrap" => services = {}
    /\ part # "manifests" => configured = <<Web, Api, Db>> /\ ~addressed
    /\ part # "domains" => \A p \in Projects : addressOf[p] = "none"

BootstrapPart == part = "bootstrap" /\ BootNext
    /\ UNCHANGED <<invVars, manifestVars, domainVars, nodesVars, tunnelVars>>
InventoryPart == part = "inventory" /\ InvNext
    /\ UNCHANGED <<bootVars, manifestVars, domainVars, nodesVars, tunnelVars>>
ManifestsPart == part = "manifests" /\ ManifestNext
    /\ UNCHANGED <<bootVars, invVars, domainVars, nodesVars, tunnelVars>>
DomainsPart == part = "domains" /\ DomainNext
    /\ UNCHANGED <<bootVars, invVars, manifestVars, nodesVars, tunnelVars>>
NodesPart == part = "nodes" /\ NodesNext
    /\ UNCHANGED <<bootVars, invVars, manifestVars, domainVars, tunnelVars>>
TunnelsPart == part = "tunnels" /\ TunnelNext
    /\ UNCHANGED <<bootVars, invVars, manifestVars, domainVars, nodesVars>>

MCNext ==
    /\ BootstrapPart \/ InventoryPart \/ ManifestsPart \/ DomainsPart \/ NodesPart \/ TunnelsPart
    /\ UNCHANGED part
MCSpec == MCInit /\ [][MCNext]_mcVars

\* Hosts are used as they were recorded: a pinned service finds the label it selects
\* a joined node by, and a local port is shared by tunnels only when they overlapped.
HostsAsRecorded == JoinedNodesLabelled /\ SharedPortOverlapped

=============================================================================
