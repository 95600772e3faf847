------------------------------ MODULE Manifests ------------------------------
(***************************************************************************)
(* The routing and the Kubernetes manifests of a k3s project: which public *)
(* path leads to which service (backend/internal/service                   *)
(* /routing_service.go), what a plan renders for a revision                *)
(* (backend/internal/k8sgen/generator.go) under the routing policy in      *)
(* force when it is planned, and the manifest it falls back to             *)
(* (backend/internal/service/rollout_planner.go).                          *)
(*                                                                         *)
(* A service is a record with its name, whether it is public, what the     *)
(* code guesses from its name, kind and profile (`looks`, a subset of      *)
(* {"ws", "api", "backend", "frontend"}), its kind ("postgres" or "app"),  *)
(* its port (0: none resolved), whether it has an image and whether any    *)
(* environment value was set for it.  A list of services has them under    *)
(* their places, and what was left out of a revision leaves a gap.  A path *)
(* is a segment and the number of "-alt" put behind it.  The routes of a   *)
(* policy are a set: the ingress matches the longest prefix (pathType      *)
(* Prefix), wherever it stands in the list.                                *)
(***************************************************************************)
EXTENDS Naturals, Sequences, FiniteSets, SequencesExt

CONSTANTS ServiceLists,   \* the lists of services an owner may configure
          ServiceChoices, \* the sets of services that may be asked for in a deployment
          Policies,       \* the policies an owner may store: a list of routes, and whether
                          \* there is a shared domain
          YAMLPolicies,   \* those a lazyops.yaml may have
          MaxRevisions,   \* bound on the revisions
          MaxEdits        \* bound on reconfigurations and stored policies

ASSUME ServicesListed == \A list \in ServiceLists : list \in Seq(ToSet(list))

VARIABLES configured,  \* the configured services
          policy,      \* the stored routing policy: <<>> or <<[shared, routes]>>
          addressed,   \* whether the target has a public address, hence a managed domain
          revisions,   \* the revisions, in the order they were created
          edits

manifestVars == <<configured, policy, addressed, revisions, edits>>

-----------------------------------------------------------------------------
(* Routing: the default policy derived from the services, and the checks   *)
(* and normalisation of the routes an owner stores.                        *)

Path(seg) == [seg |-> seg, alts |-> 0]
Root == Path("/")

Looks(svc, what) == what \in svc.looks
serves(svc) == Looks(svc, "api") \/ Looks(svc, "backend")

(* A prefix is stripped by default only from /api of an API or backend.    *)
shouldDefaultAutoStripPrefix(route, svc) ==
    ~route.ws /\ route.path = Path("api") /\ serves(svc)

resolveEffectiveStripPrefix(route, svc, mode) ==
    CASE mode = "always" -> TRUE
      [] mode = "never" -> FALSE
      [] mode = "auto" -> shouldDefaultAutoStripPrefix(route, svc)
      [] OTHER -> route.strip \/ shouldDefaultAutoStripPrefix(route, svc)

normalizeRoutingRoute(route, svc) ==
    LET mode == IF route.mode = "" /\ shouldDefaultAutoStripPrefix(route, svc)
                THEN "auto" ELSE route.mode
    IN  [path |-> route.path, service |-> route.service, ws |-> route.ws, mode |-> mode,
         strip |-> resolveEffectiveStripPrefix(route, svc, mode)]

Route(path, svc, ws) ==
    normalizeRoutingRoute([path |-> path, service |-> svc.name, ws |-> ws,
                           mode |-> "", strip |-> FALSE], svc)

(* The first of the services at these places, as a set of at most one.     *)
firstMatchingService(places) == {i \in places : \A j \in places : i <= j}

orElse(s, t) == IF s = {} THEN t ELSE s

defaultRouteForSinglePublicService(svc) ==
    CASE Looks(svc, "ws") -> Route(Path("ws"), svc, TRUE)
      [] ~Looks(svc, "ws") /\ serves(svc) -> Route(Path("api"), svc, FALSE)
      [] OTHER -> Route(Root, svc, FALSE)

(* The path of a service without a role is its name's label, with "-alt"   *)
(* put behind it until no earlier route has it.                            *)
labelPath(svc, earlier) ==
    [seg |-> svc.label,
     alts |-> Min({n \in 0..Cardinality(earlier) :
                      [seg |-> svc.label, alts |-> n] \notin {r.path : r \in earlier}})]

routedWith(svc, routes) ==
    IF ~svc.public \/ svc.name \in {r.service : r \in routes} THEN routes
    ELSE routes \cup {Route(labelPath(svc, routes), svc, Looks(svc, "ws"))}

(* One service gets /ws, one /api, one the root; the others their label,   *)
(* in the order they are listed.                                           *)
buildDefaultRoutingPolicy(svcs) ==
    LET public == {i \in DOMAIN svcs : svcs[i].public}
        looking(what) == firstMatchingService({i \in public : Looks(svcs[i], what)})
        named(places) == {svcs[i].name : i \in places}
        websocket == looking("ws")
        api == orElse(looking("api"), looking("backend"))
        other == firstMatchingService({i \in public : svcs[i].name \notin named(websocket \cup api)})
        root == orElse(orElse(looking("frontend"), other), firstMatchingService(public))
        roles == {Route(Path("ws"), svcs[i], TRUE) : i \in websocket}
            \cup {Route(Path("api"), svcs[i], FALSE) : i \in {a \in api : svcs[a].name \notin named(root)}}
            \cup {Route(Root, svcs[i], FALSE) : i \in root}
        routes[n \in 0..Max(DOMAIN svcs)] ==
            IF n = 0 THEN roles
            ELSE IF n \in DOMAIN svcs THEN routedWith(svcs[n], routes[n - 1]) ELSE routes[n - 1]
    IN  IF Cardinality(public) <= 1 THEN {defaultRouteForSinglePublicService(svcs[i]) : i \in public}
        ELSE routes[Max(DOMAIN svcs)]

(* What UpdateRouting accepts: known services, no path twice, and no path  *)
(* other than the root that is textually a prefix of another.              *)
Overlaps(p, q) == Root \notin {p, q} /\ p.seg = q.seg
routesAcceptable(routes, svcs) ==
    /\ \A i \in DOMAIN routes : \E s \in ToSet(svcs) : s.name = routes[i].service
    /\ \A i, j \in DOMAIN routes : i # j =>
            routes[i].path # routes[j].path /\ ~Overlaps(routes[i].path, routes[j].path)

(* The service a stored route names may be gone: it then looks like nothing. *)
descriptorOf(name, svcs) ==
    IF \E s \in ToSet(svcs) : s.name = name THEN CHOOSE s \in ToSet(svcs) : s.name = name
    ELSE [name |-> name, looks |-> {}]

normalizeAll(routes, svcs) == {normalizeRoutingRoute(r, descriptorOf(r.service, svcs)) : r \in routes}

-----------------------------------------------------------------------------
(* Rendering. *)

Stateful(svc) == svc.kind = "postgres"

(* A managed kind has a port, an image and a volume of its own accord.     *)
renderable(svc) == Stateful(svc) \/ (svc.port > 0 /\ svc.image)

(* Postgres is given a database, a user and a password it was not given.   *)
normalizeManagedServiceEnv(svc) == svc.env \/ Stateful(svc)

specEnvOnly(svc) == svc.env

Needs(svc) == (IF normalizeManagedServiceEnv(svc) THEN {<<"Secret", svc.name>>} ELSE {})
         \cup (IF Stateful(svc) THEN {<<"PVC", svc.name>>} ELSE {})

Rules(routes) == {<<r.path, r.service>> : r \in routes}

(* The documents: each has a kind, a name, the documents it refers to and, *)
(* for an Ingress, its rules.                                              *)
doc(kind, name, refs, rules) == [kind |-> kind, name |-> name, refs |-> refs, rules |-> rules]

secretForSpec(svc) ==
    IF specEnvOnly(svc) THEN {doc("Secret", svc.name, {}, {})} ELSE {}

secretFor(svc) ==
    IF normalizeManagedServiceEnv(svc) THEN {doc("Secret", svc.name, {}, {})} ELSE {}

serviceDocuments(svc) ==
    secretFor(svc)
    \cup (IF Stateful(svc) THEN {doc("PVC", svc.name, {}, {})} ELSE {})
    \cup {doc("Service", svc.name, {}, {}), doc("Deployment", svc.name, Needs(svc), {})}

(* Routes that name a service the revision does not contain fail the plan. *)
renderSharedIngress(routes) ==
    IF routes = {} THEN {}
    ELSE {doc("Ingress", "public-shared", {<<"Service", r.service>> : r \in routes}, Rules(routes))}

ingressFor(svc) ==
    doc("Ingress", svc.name, {<<"Service", svc.name>>}, {<<Root, svc.name>>})

CanGenerate(svcs, routing) ==
    /\ \A i \in DOMAIN svcs : renderable(svcs[i])
    /\ routing.shared => \A r \in routing.routes : \E s \in ToSet(svcs) : s.name = r.service

manifestsOf(svcs) == UNION {serviceDocuments(s) : s \in ToSet(svcs)}

ingressesOf(svcs, routing, domains) ==
    IF routing.shared /\ routing.routes # {} THEN renderSharedIngress(routing.routes)
    ELSE {ingressFor(s) : s \in {t \in ToSet(svcs) : t.public /\ domains}}

Generate(svcs, routing, domains) == manifestsOf(svcs) \cup ingressesOf(svcs, routing, domains)

(* A public service has a domain when the target has an address; a revision *)
(* that was once given domains keeps them.                                 *)
hasDomains(rev) == rev.domains \/ (addressed /\ \E s \in ToSet(rev.svcs) : s.public)

(* The policy in force for the services of a revision: the stored one,     *)
(* else the default.                                                       *)
ResolveEffectiveRouting(svcs, hosted) ==
    IF policy = <<>> \/ policy[1].routes = {}
    THEN [shared |-> hosted \/ (policy # <<>> /\ policy[1].shared),
          routes |-> buildDefaultRoutingPolicy(svcs), from |-> "resolved"]
    ELSE [shared |-> hosted \/ policy[1].shared,
          routes |-> normalizeAll(policy[1].routes, svcs), from |-> "resolved"]

(* What lazyops.yaml may say: unlike UpdateRouting, the check lets several *)
(* routes have the root.                                                   *)
validateRoutingPolicy(routes, svcs) ==
    /\ \A i \in DOMAIN routes : \E s \in ToSet(svcs) : s.name = routes[i].service
    /\ \A i, j \in DOMAIN routes : i # j =>
            \/ Root \in {routes[i].path, routes[j].path}
            \/ routes[i].path # routes[j].path /\ ~Overlaps(routes[i].path, routes[j].path)

-----------------------------------------------------------------------------
(* Revisions.  Each has its services, whether its target renders manifests *)
(* (a k3s cluster; a project may have bindings of other kinds too), the    *)
(* policy and the domains of its compiled record, the bundle, the manifest *)
(* to fall back to and the one a rollback under way applies.  A manifest   *)
(* is named by the revision it was rendered for, 0 when there is none.     *)

NoManifest == [of |-> 0, docs |-> {}]
snapshotOf(i) == [of |-> i, docs |-> revisions[i].bundle]

Promoted(except) == {i \in DOMAIN revisions \ {except} : revisions[i].status = "promoted"}

(* The newest promoted revision other than this one, 0 when there is none. *)
findLastStableRevision(this) ==
    IF Promoted(this) = {} THEN 0
    ELSE CHOOSE i \in Promoted(this) : \A j \in Promoted(this) : j <= i

Edit == edits < MaxEdits /\ edits' = edits + 1

Reconfigure == \E list \in ServiceLists :
    /\ Edit /\ list # configured
    /\ configured' = list
    /\ UNCHANGED <<policy, addressed, revisions>>

AddressChanges ==
    /\ Edit
    /\ addressed' = ~addressed
    /\ UNCHANGED <<configured, policy, revisions>>

(* The routes are checked against the services configured at this time.    *)
UpdateRouting == \E asked \in Policies :
    /\ Edit
    /\ routesAcceptable(asked.routes, configured)
    /\ policy' = <<[shared |-> asked.shared, routes |-> normalizeAll(ToSet(asked.routes), configured)]>>
    /\ UNCHANGED <<configured, addressed, revisions>>

(* A revision keeps the services and the policy it was compiled from.      *)
AddRevision(svcs, routing) == \E k3s \in BOOLEAN :
    /\ Len(revisions) < MaxRevisions
    /\ revisions' = Append(revisions,
            [svcs |-> svcs, k3s |-> k3s, status |-> "queued", routing |-> routing, domains |-> FALSE,
             bundle |-> {}, fallback |-> NoManifest, undo |-> NoManifest])
    /\ UNCHANGED <<configured, policy, addressed, edits>>

(* Of the configured services all or some, and no policy.                  *)
CreateRevision == \E chosen \in ServiceChoices :
    /\ chosen # {} /\ chosen \subseteq {configured[i].name : i \in DOMAIN configured}
    /\ AddRevision([i \in {j \in DOMAIN configured : configured[j].name \in chosen} |-> configured[i]],
                   [shared |-> FALSE, routes |-> {}, from |-> "document"])

(* Of the blueprint of a lazyops.yaml, compiled now or earlier.            *)
CreateFromDocument == \E svcs \in ServiceLists, written \in YAMLPolicies :
    /\ svcs # <<>> /\ validateRoutingPolicy(written.routes, svcs)
    /\ AddRevision(svcs, [shared |-> written.shared, routes |-> ToSet(written.routes),
                          from |-> "document"])

(* Without a promoted revision there is nothing to fall back to; when it   *)
(* cannot be looked up or has no manifest, the new one is its own.         *)
rollbackManifests(i, bundle) ==
    LET back == findLastStableRevision(i)
        own == [of |-> i, docs |-> bundle]
    IN  CASE ~revisions[i].k3s -> {NoManifest}
          [] revisions[i].k3s /\ back = 0 -> {NoManifest, own}
          [] OTHER -> {own, IF revisions[back].bundle # {} THEN snapshotOf(back) ELSE own}

(* The resolved policy, which knows a domain of the revision or else the   *)
(* managed domain of the project, or the compiled one when that fails.     *)
policiesFor(rev) ==
    {rev.routing} \cup {ResolveEffectiveRouting(rev.svcs, hosted) : hosted \in {hasDomains(rev), TRUE}}

(* materializeRuntimeSnapshot: the manifests are rendered and the snapshot *)
(* stored; the environment read then may fail.  A rollout taken up again   *)
(* plans its revision again, whatever became of it.                        *)
PlanCandidate(i) ==
    LET rev == revisions[i]
        bundleWith(routing) == IF rev.k3s THEN Generate(rev.svcs, routing, hasDomains(rev)) ELSE {}
    IN  /\ rev.status \in {"queued", "planned", "promoted"}
        /\ \E routing \in policiesFor(rev) :
               /\ rev.k3s => CanGenerate(rev.svcs, routing)
               /\ \E fallback \in rollbackManifests(i, bundleWith(routing)),
                     status \in {rev.status, IF rev.status = "queued" THEN "planned" ELSE rev.status} :
                      revisions' = [revisions EXCEPT ![i] =
                          [@ EXCEPT !.routing = routing, !.domains = hasDomains(rev),
                              !.bundle = bundleWith(routing), !.fallback = fallback, !.status = status]]
        /\ UNCHANGED <<configured, policy, addressed, edits>>

failed(status) == IF status \in {"promoted", "rolled_back"} THEN status ELSE "failed"

(* The plan is refused, or a later step of the rollout fails.              *)
FailRollout(i) ==
    /\ revisions[i].status \in {"queued", "planned", "promoted"}
    /\ revisions' = [revisions EXCEPT ![i].status = failed(@)]
    /\ UNCHANGED <<configured, policy, addressed, edits>>

PromoteCandidate(i) ==
    /\ revisions[i].status = "planned"
    /\ revisions' = [revisions EXCEPT ![i].status = "promoted"]
    /\ UNCHANGED <<configured, policy, addressed, edits>>

(* The stable revision is looked up again: its manifest is stored as the   *)
(* one to fall back to, and sent; without one there is no rollback.        *)
PlanRollback(i) ==
    LET rev == revisions[i]
        back == findLastStableRevision(i)
    IN  /\ rev.status \in {"planned", "promoted", "failed"}
        /\ back # 0 /\ (rev.k3s => revisions[back].bundle # {})
        /\ revisions' = [revisions EXCEPT ![i] =
               [@ EXCEPT !.undo = snapshotOf(back), !.fallback = IF rev.k3s THEN snapshotOf(back) ELSE rev.fallback]]
        /\ UNCHANGED <<configured, policy, addressed, edits>>

FinalizeRollback(i) ==
    /\ revisions[i].undo.of # 0
    /\ \E status \in {"rolled_back", failed(revisions[i].status)} :
           revisions' = [revisions EXCEPT ![i] = [@ EXCEPT !.undo = NoManifest, !.status = status]]
    /\ UNCHANGED <<configured, policy, addressed, edits>>

ManifestInit ==
    /\ configured \in ServiceLists /\ policy = <<>> /\ addressed \in BOOLEAN
    /\ revisions = <<>> /\ edits = 0

ManifestNext ==
    \/ Reconfigure \/ AddressChanges \/ UpdateRouting \/ CreateRevision \/ CreateFromDocument
    \/ \E i \in DOMAIN revisions :
           \/ PlanCandidate(i) \/ FailRollout(i) \/ PromoteCandidate(i)
           \/ PlanRollback(i) \/ FinalizeRollback(i)

ManifestSpec == ManifestInit /\ [][ManifestNext]_manifestVars

-----------------------------------------------------------------------------
(* Properties. *)

(* Every Secret, volume claim and Service a document refers to is there.   *)
Closed(docs) == \A d \in docs : \A ref \in d.refs : \E e \in docs : <<e.kind, e.name>> = ref

(* A stored bundle can be applied by itself, and its ingress has one       *)
(* service for each path, the root of a lazyops.yaml kept for want of a    *)
(* readable policy excepted - whatever services were reconfigured and left *)
(* out, and whatever policy was stored before the plan.                    *)
BundleResolves ==
    \A i \in DOMAIN revisions :
        /\ Closed(revisions[i].bundle)
        /\ \A d \in revisions[i].bundle : \A r, s \in d.rules : r[1] = s[1] =>
               r = s \/ (r[1] = Root /\ revisions[i].routing.from = "document")

(* Whatever was looked up, the manifest to fall back to can be applied by  *)
(* itself: that of another revision, which had been promoted, or the       *)
(* revision's own.                                                         *)
FallbackResolves ==
    \A i \in DOMAIN revisions : LET f == revisions[i].fallback IN
        /\ Closed(f.docs)
        /\ f.of \notin {0, i} => f.docs # {} /\ revisions[f.of].status \in {"promoted", "rolled_back"}

(* A rollback under way on a cluster applies the manifest of another       *)
(* revision, which had been promoted, however often it was planned again.  *)
RollbackIsAnother ==
    \A i \in DOMAIN revisions : LET u == revisions[i].undo IN
        u.of # 0 => /\ u.of # i /\ revisions[u.of].status \in {"promoted", "rolled_back"}
                    /\ revisions[i].k3s => u.docs # {} /\ Closed(u.docs)

(* A planned revision can be applied and undone with what is stored and    *)
(* sent of it (materializeRuntimeSnapshot, PlanRollback).                  *)
PlansApply == BundleResolves /\ FallbackResolves /\ RollbackIsAnother

(* RollbackYAML is the last stable manifest: false when the stable one     *)
(* cannot be read or was not rendered (generator.go:185).                  *)
FallbackIsAnother == \A i \in DOMAIN revisions : revisions[i].fallback.of # i

=============================================================================
