--------------------------- MODULE ServiceInventory ---------------------------
(***************************************************************************)
(* The services of one project: the rows the owner configures              *)
(* (backend/internal/service/project_service.go), the internal services    *)
(* LazyOps runs beside them (project_internal_service_service.go,          *)
(* managed_internal_service_repository.go), the rows a compiled            *)
(* lazyops.yaml puts in their place (blueprint_service.go), and the        *)
(* compiler that turns the rows into what a deployment contains            *)
(* (service_inventory_blueprint_compiler.go).                              *)
(*                                                                         *)
(* Every writer replaces rows in one transaction: it deletes the rows it   *)
(* sees and inserts its own.  The transaction is read committed, so rows   *)
(* another writer commits in between stay.  A row gets a new identifier    *)
(* each time it is written, and a deployment is asked for by identifiers   *)
(* that were read earlier.                                                 *)
(***************************************************************************)
EXTENDS Naturals, FiniteSets

CONSTANTS InvCalls,  \* calls that may be under way at the same time
          Offered,   \* the items an owner may put in a payload
          MaxSaves   \* bound on the writes

ASSUME OfferedAssumption == IsFiniteSet(Offered)

VARIABLES rows,      \* the committed rows
          invCalls, saves,
          compiled   \* the last deployment: what it was compiled from, and its services

invVars == <<rows, invCalls, saves, compiled>>

(* An item: its name, whether it is internal, its port (0: none given),    *)
(* the names it depends on.  A row adds an identifier and, for an internal *)
(* service, the write that minted its password.                            *)
DefaultPort == 5432
Managed == {"lazyops-internal-postgres", "lazyops-internal-redis"}
ManagedPort == [n \in Managed |-> IF n = "lazyops-internal-redis" THEN 6379 ELSE DefaultPort]

normalizeConfiguredProjectService(item, save) ==
    [name |-> item.name, internal |-> item.internal, deps |-> item.deps,
     port |-> IF item.internal /\ item.port = 0 THEN DefaultPort ELSE item.port,
     id |-> <<item.name, save>>, secret |-> IF item.internal THEN save ELSE 0]

(* A dependency names an internal service of the same payload.             *)
validateConfiguredProjectServiceInventory(items) ==
    \A i \in items : \A d \in i.deps :
        /\ d # i.name
        /\ \E t \in items : t.name = d /\ t.internal

(* No port is used by two services of the payload.                         *)
validateProjectServicePortConflicts(items) ==
    \A i, j \in items : i.port > 0 /\ i.port = j.port => i = j

buildConfiguredProjectServiceModels(payload, save) ==
    LET items == {normalizeConfiguredProjectService(i, save) : i \in payload}
    IN  IF /\ \A i, j \in items : i.name = j.name => i = j
           /\ validateConfiguredProjectServiceInventory(items)
           /\ validateProjectServicePortConflicts(items)
        THEN {items} ELSE {}

Internals(rs) == {r \in rs : r.internal}
listManagedInternalProjectServices == Internals(rows)

(* The rows of the internal services configured by kind: their names are   *)
(* fixed, and they carry no password.                                      *)
managedInternalServiceToService(name, save) ==
    [name |-> name, internal |-> TRUE, deps |-> {}, port |-> ManagedPort[name],
     id |-> <<name, save>>, secret |-> 0]

(* The rows of a lazyops.yaml: repo services without dependencies.         *)
compileProjectServices(payload, save) ==
    {[name |-> i.name, internal |-> FALSE, deps |-> {}, port |-> 0,
      id |-> <<i.name, save>>, secret |-> 0] : i \in payload}

-----------------------------------------------------------------------------
(* Compiling a deployment. *)

(* All services, or the selected ones with what they depend on; the        *)
(* services appended while the list is walked are walked too.              *)
DependsOn(all, have) == {t \in Internals(all) : \E s \in have : t.name \in s.deps}

oneRound(all, selected) ==
    LET have == {r \in all : r.id \in selected} IN have \cup DependsOn(all, have)

filterFirstRoundOnly(all, selected) ==
    IF selected = {} THEN all ELSE oneRound(all, selected)

filterServicesForDeployment(all, selected) ==
    LET grown[n \in 0..Cardinality(all)] ==
            IF n = 0 THEN {r \in all : r.id \in selected}
            ELSE grown[n - 1] \cup DependsOn(all, grown[n - 1])
    IN  IF selected = {} THEN all ELSE grown[Cardinality(all)]

(* The bindings of the chosen services to internal ones among them.        *)
buildDependencyBindings(chosen) ==
    {b \in [from : chosen, to : Internals(chosen)] : b.to.name \in b.from.deps}

-----------------------------------------------------------------------------
(* Calls. *)

IdleCall == [pc |-> "idle"]
StartCall(c, rec) == invCalls[c] = IdleCall /\ invCalls' = [invCalls EXCEPT ![c] = rec]

(* ConfigureServices: the payload is validated by itself; a payload        *)
(* without internal services keeps the internal rows read here.            *)
ConfigureServices(c) == \E payload \in SUBSET Offered :
    /\ saves < MaxSaves
    /\ \E items \in buildConfiguredProjectServiceModels(payload, saves + 1) :
            StartCall(c, [pc |-> "delete", scope |-> "all", keep |-> Internals(items) = {},
                seen |-> Internals(rows), new |-> items \cup
                    (IF Internals(items) = {} THEN listManagedInternalProjectServices ELSE {})])
    /\ saves' = saves + 1
    /\ UNCHANGED <<rows, compiled>>

(* Configure of the internal services, by kind: only rows under the        *)
(* reserved path are replaced.                                             *)
ConfigureInternal(c) == \E names \in SUBSET Managed :
    /\ saves < MaxSaves
    /\ StartCall(c, [pc |-> "delete", scope |-> "internal", keep |-> FALSE, seen |-> {},
                     new |-> {managedInternalServiceToService(n, saves + 1) : n \in names}])
    /\ saves' = saves + 1
    /\ UNCHANGED <<rows, compiled>>

(* Compiling a lazyops.yaml replaces every row.                            *)
CompileYAML(c) == \E payload \in SUBSET {i \in Offered : ~i.internal} :
    /\ saves < MaxSaves
    /\ StartCall(c, [pc |-> "delete", scope |-> "all", keep |-> FALSE, seen |-> {},
                     new |-> compileProjectServices(payload, saves + 1)])
    /\ saves' = saves + 1
    /\ UNCHANGED <<rows, compiled>>

(* ReplaceForProject, one read-committed transaction: delete what is       *)
(* visible, then insert; a name that is taken aborts it.                   *)
ReplaceDelete(c) ==
    /\ invCalls[c].pc = "delete"
    /\ invCalls' = [invCalls EXCEPT ![c] =
            [pc |-> "insert", keep |-> @.keep, seen |-> @.seen, new |-> @.new,
             gone |-> IF @.scope = "all" THEN rows ELSE Internals(rows)]]
    /\ UNCHANGED <<rows, saves, compiled>>

ReplaceInsert(c) ==
    /\ invCalls[c].pc = "insert"
    /\ LET left == rows \ invCalls[c].gone
           new == invCalls[c].new
       IN  rows' = IF \A r, s \in left \cup new : r.name = s.name => r = s
                   THEN left \cup new ELSE rows
    /\ invCalls' = [invCalls EXCEPT ![c] = IdleCall]
    /\ UNCHANGED <<saves, compiled>>

(* Act, deploy: the service is looked up by the identifier the page shows; *)
(* the compiler reads the rows again.  Without identifiers everything is   *)
(* deployed.                                                               *)
ResolveService(c) == \E r \in rows :
    /\ StartCall(c, [pc |-> "create", selected |-> {r.id}])
    /\ UNCHANGED <<rows, saves, compiled>>

DeployAll(c) ==
    /\ StartCall(c, [pc |-> "create", selected |-> {}])
    /\ UNCHANGED <<rows, saves, compiled>>

CreateDeployment(c) ==
    /\ invCalls[c].pc = "create" /\ rows # {}
    /\ LET chosen == filterServicesForDeployment(rows, invCalls[c].selected)
       IN  compiled' = [from |-> rows, asked |-> invCalls[c].selected, services |-> chosen,
                        bindings |-> buildDependencyBindings(chosen)]
    /\ invCalls' = [invCalls EXCEPT ![c] = IdleCall]
    /\ UNCHANGED <<rows, saves>>

NoServices(c) ==
    /\ invCalls[c].pc = "create" /\ rows = {}
    /\ invCalls' = [invCalls EXCEPT ![c] = IdleCall]
    /\ UNCHANGED <<rows, saves, compiled>>

InvInit ==
    /\ rows = {} /\ saves = 0
    /\ invCalls = [c \in InvCalls |-> IdleCall]
    /\ compiled = [from |-> {}, asked |-> {}, services |-> {}, bindings |-> {}]

InvNext == \E c \in InvCalls :
    \/ ConfigureServices(c) \/ ConfigureInternal(c) \/ CompileYAML(c)
    \/ ReplaceDelete(c) \/ ReplaceInsert(c)
    \/ ResolveService(c) \/ DeployAll(c) \/ CreateDeployment(c) \/ NoServices(c)

InvSpec == InvInit /\ [][InvNext]_invVars

-----------------------------------------------------------------------------
(* Properties. *)

(* A deployment of chosen services runs with everything they can reach: it *)
(* is closed under the dependencies its inventory can resolve, through any *)
(* number of internal services, has a binding for each, and contains       *)
(* nothing that was neither asked for nor reached.                         *)
DeploymentClosed ==
    LET d == compiled
        asked == {r \in d.from : d.asked = {} \/ r.id \in d.asked}
    IN  /\ asked \subseteq d.services /\ d.services \subseteq d.from
        /\ \A s \in d.services : \A t \in Internals(d.from) :
               t.name \in s.deps => t \in d.services /\ [from |-> s, to |-> t] \in d.bindings
        /\ \A t \in d.services \ asked : t.internal /\ \E s \in d.services : t.name \in s.deps

(* A save that says nothing of internal services leaves them, with their   *)
(* passwords, as they are, unless another writer changed them meanwhile.   *)
RepoSaveKeepsInternals ==
    \A c \in InvCalls :
        /\ invCalls[c].pc = "insert" /\ invCalls'[c] = IdleCall
        /\ invCalls[c].keep /\ Internals(rows) = invCalls[c].seen
        => Internals(rows') = Internals(rows)

(* No service gets lost on the way from the page to a deployment: saves    *)
(* keep what they do not mention (ConfigureServices), deployments take     *)
(* what their services depend on along (filterServicesForDeployment).      *)
ServicesKept == [][DeploymentClosed' /\ RepoSaveKeepsInternals]_invVars

(* "port is already used by service ... and conflicts with service ...":   *)
(* no two configured services share a port.                                *)
PortsDistinct == validateProjectServicePortConflicts(rows)

=============================================================================
