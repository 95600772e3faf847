---------------------------- MODULE MCOperations ----------------------------
(* What the control plane records, checks and shows of the services it runs,  *)
(* and what an agent keeps of them, part by part: a behaviour exercises one   *)
(* part, the others stay where they start.                                    *)
EXTENDS Observability, BuildArtifacts, ServiceEnv, Accounts, HealthGate, PublicAddress, Workspaces

\* Services of a build: names and paths as [raw, compared, image or base].
nm(raw, lower, image) == [raw |-> raw, lower |-> lower, image |-> image]
pt(raw, key, base) == [raw |-> raw, key |-> key, base |-> base]
built(name, path) == [name |-> name, path |-> path, internal |-> FALSE]
BApi  == nm("api_v1", "api_v1", "api-v1")
BApiD == nm("api.v1", "api.v1", "api-v1")
BApiU == nm("API_v1", "api_v1", "api-v1")
BRoot == pt("web", "web", "web")
BApps == pt("./apps/web", "apps/web", "web")
BDb   == [name |-> nm("db", "db", "db"), path |-> pt("internal", "internal", "internal"), internal |-> TRUE]
BuildInventories == {
    <<built(BApi, BApps), built(BApiU, BRoot)>>, <<built(BApi, BApps), built(BApiD, BApps), BDb>>,
    <<built(BApi, BApps)>>, <<BDb>>, <<built(BApiU, BRoot), BDb>>, <<>>}

\* Services of an environment.
sv(name, kind, env, template, deps) ==
    [name |-> name, kind |-> kind, env |-> env, template |-> template, deps |-> deps]
plain(name, kind) == sv(name, kind, <<>>, <<>>, <<>>)
to(target) == [target |-> target, template |-> <<>>]
OwnPassword == [k \in {<<"DB", "PASSWORD">>} |-> <<"mine">>]
ConfiguredEnvs == {
    <<sv("api", "app", <<>>, <<>>, <<to("postgres")>>), plain("postgres", "postgres")>>,
    <<sv("api", "app", OwnPassword, <<>>,
         <<[target |-> "orders", template |-> [s \in {"URL"} |-> <<"DATABASE", "URL">>]],
           to("users"), to("c1"), to("c2")>>),
      plain("orders", "mysql"), sv("users", "postgres", OwnPassword, <<>>, <<>>),
      plain("c1", "redis"), plain("c2", "redis")>>,
    <<sv("web", "app", <<>>, <<>>, <<to("bus"), to("docs"), to("gone"), to("reg")>>),
      plain("bus", "kafka"), plain("docs", "mongodb"), plain("reg", "eureka-server")>>,
    <<sv("api", "app", <<>>, <<>>, <<to("users"), to("web")>>), sv("web", "app", <<>>, <<>>, <<to("api")>>),
      sv("users", "mysql", <<>>, [s \in {"HOST", "NAME"} |-> <<"MYSQL", s>>], <<>>)>>}
ln(key, value) == [key |-> key, valid |-> TRUE, value |-> value]
SavedTexts == {
    <<ln(<<"DB", "PASSWORD">>, <<"saved">>)>>,
    <<ln(<<"POSTGRES", "PASSWORD">>, <<"saved">>), ln(<<"DB", "HOST">>, <<"old">>),
      ln(<<"DB", "HOST">>, <<"ext">>), ln(<<"PORT">>, <<"1">>)>>,
    <<[key |-> <<"BAD">>, valid |-> FALSE, value |-> <<>>]>>}
MintedPasswords == <<"m1", "m2", "m3">>

KnownPersons == {<<"github", 1>>, <<"google", 2>>}

\* Releases under the health gate.
gs(name, protocol, rp, declaredPort, ok, bad) ==
    [name |-> name, kind |-> "app", protocol |-> protocol, runtime |-> rp, declared |-> declaredPort,
     successes |-> ok, failures |-> bad]
release(list, auto, hasStable) == [services |-> list, autogen |-> auto, stable |-> hasStable]
Gated == {
    release(<<gs("app", "http", 0, 1, 2, 3), gs("internal", "tcp", 0, 1, 1, 1)>>, FALSE, FALSE),
    release(<<gs("api", "tcp", 1, 2, 3, 2)>>, FALSE, TRUE),
    release(<<gs("app", "http", 1, 2, 0, 1), gs("api", "udp", 2, 0, 0, 0)>>, TRUE, TRUE),
    release(<<gs("app", "http", 1, 2, 2, 1), gs("api", "http", 2, 1, 1, 2)>>, TRUE, TRUE)}

pub(path, placed) == [path |-> path, placed |-> placed]
PublishedLists == {<<>>, <<pub("/", "none")>>, <<pub("/api", "t2"), pub("/", "none"), pub("/", "t2")>>}

\* Two services with the same declared port, one whose companion listens on its own.
wl(declaredPort, listeners, seed, isInternal) ==
    [declared |-> declaredPort, listeners |-> listeners, seed |-> seed, internal |-> isInternal]
PreparedServices ==
    <<wl(0, {}, 0, TRUE), wl(8080, {}, 1, FALSE), wl(8080, {}, 1, FALSE), wl(3000, {3000}, 0, FALSE)>>

VARIABLE part
parts == <<obsVars, artVars, envVars, accountVars, gateVars, addressVars, workspaceVars>>
mcVars == <<part, parts>>

MCInit ==
    /\ part \in {"alerts", "pages", "dashboard", "artifacts", "env", "logins", "tokens", "gate", "address",
                 "workspaces"}
    /\ ObsInit /\ (part \in {"alerts", "pages"} \/ unique)
    /\ ArtInit /\ (part = "artifacts" \/ (inventory = <<BDb>> /\ head = "c1"))
    /\ EnvInit /\ (part = "env" \/ envMode = "standalone")
    /\ AccountInit /\ (part = "logins" \/ \A p \in Persons : address[p] = "a")
    /\ GateInit /\ (part = "gate" \/ Len(gated.services) = 1)
    /\ \A p \in Ports : (part = "gate" /\ p < 3000) \/ listening[p] = "down"
    /\ AddressInit /\ (part = "address" \/ (primary = "t1" /\ \A t \in Targets : targetIP[t] = "ip1"))
    /\ WsInit

\* Batches as they are stored: each with a panic; alerts see a second one while the first is ingested.
Stored(c) == IF ingests'[c].pc = "index" THEN ingests'[c].lines ELSE {}
Panic == [text |-> "panic", level |-> "error"]
ObsPart ==
    /\ \/ part = "alerts" /\ AlertsNext /\ clock' <= Window + Quiet
          /\ (Stored(2) # {} => ingests[1].pc # "idle" /\ Stored(2) = {Panic})
       \/ part = "pages" /\ PagesNext /\ Stored(2) = {}
       \/ part = "dashboard" /\ DashboardNext
    /\ Stored(1) # {} => Panic \in Stored(1)
    /\ UNCHANGED <<artVars, envVars, accountVars, gateVars, addressVars, workspaceVars>>
ArtifactsPart == part = "artifacts" /\ ArtNext
    /\ UNCHANGED <<obsVars, envVars, accountVars, gateVars, addressVars, workspaceVars>>
EnvPart == part = "env" /\ EnvNext
    /\ UNCHANGED <<obsVars, artVars, accountVars, gateVars, addressVars, workspaceVars>>
AccountsPart ==
    /\ \/ part = "logins" /\ LoginNext
       \/ part = "tokens" /\ TokenNext
    /\ UNCHANGED <<obsVars, artVars, envVars, gateVars, addressVars, workspaceVars>>
GatePart == part = "gate" /\ GateNext
    /\ UNCHANGED <<obsVars, artVars, envVars, accountVars, addressVars, workspaceVars>>
AddressPart == part = "address" /\ AddressNext
    /\ UNCHANGED <<obsVars, artVars, envVars, accountVars, gateVars, workspaceVars>>
WorkspacesPart == part = "workspaces" /\ WsNext
    /\ UNCHANGED <<obsVars, artVars, envVars, accountVars, gateVars, addressVars>>

MCNext ==
    /\ ObsPart \/ ArtifactsPart \/ EnvPart \/ AccountsPart \/ GatePart \/ AddressPart \/ WorkspacesPart
    /\ UNCHANGED part
MCSpec == MCInit /\ [][MCNext]_mcVars
=============================================================================
