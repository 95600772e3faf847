----------------------------- MODULE ServiceEnv -----------------------------
(***************************************************************************)
(* The environment the services of a project run with: the bundle a user   *)
(* saves (project_env_service.go), the connection variables derived from   *)
(* the internal services (relational_connection_template.go), what a       *)
(* revision is compiled with (service_inventory_blueprint_compiler.go),    *)
(* and what the manifests (k8sgen/generator.go) or the containers of an    *)
(* agent (process_manager.go) hand to the processes.                       *)
(*                                                                         *)
(* A variable is named by its words, <<"DB", "PASSWORD">>, and its value   *)
(* is a sequence of words too, << >> when blank; a connection URL is the   *)
(* sequence of its scheme, user, password, host and database.              *)
(***************************************************************************)
EXTENDS Naturals, Sequences, FiniteSets, SequencesExt, Functions

CONSTANTS EnvInventories, \* lists of services [name, kind, env, template, deps] a user configures
          Contents,       \* texts a user saves: sequences of lines [key, valid, value]
          Modes,          \* runtime modes
          Minted          \* the passwords the control plane will mint, in order

Slots == {"URL", "NAME", "HOST", "PORT", "USERNAME", "PASSWORD"}

(* What a user gives a variable is at most one word; a template has names  *)
(* for some of the slots.                                                  *)
OneWord(value) == value = <<>> \/ value = <<value[1]>>
ASSUME EnvAssumption ==
    /\ \A lines \in Contents : \A i \in DOMAIN lines : OneWord(lines[i].value)
    /\ \A items \in EnvInventories : \A i \in DOMAIN items :
        /\ \A k \in DOMAIN items[i].env : OneWord(items[i].env[k])
        /\ items[i].deps \in Seq(Range(items[i].deps))
        /\ \A given \in {items[i].template} \cup {d.template : d \in Range(items[i].deps)} : DOMAIN given \subseteq Slots

VARIABLES envMode,        \* runtime mode of the project's binding
          rows,           \* the services, as stored
          minted,         \* how many passwords were minted
          bundle,         \* the saved project env: [set, env, warnings]
          compiledEnv,    \* the services of the last revision, with their env bundles
          running         \* what its processes were started with: [from, env, saved]

envVars == <<envMode, rows, minted, bundle, compiledEnv, running>>

Blank == <<>>
firstNonBlank(values) ==
    LET given == {i \in DOMAIN values : values[i] # Blank}
    IN  IF given = {} THEN Blank ELSE values[Min(given)]
valueOf(env, key) == IF key \in DOMAIN env THEN env[key] ELSE Blank
NoEnv == [set |-> FALSE, env |-> <<>>, warnings |-> {}]
NotRunning == [from |-> <<>>, env |-> <<>>, saved |-> <<>>]
only(key, value) == [k \in {key} |-> value]
over(env, more) == [k \in DOMAIN env \cup DOMAIN more |-> IF k \in DOMAIN more THEN more[k] ELSE env[k]]

(* Of a variable in several environments the last one's value counts.      *)
overAll(envs) == [k \in UNION {DOMAIN envs[i] : i \in DOMAIN envs} |->
                     envs[Max({i \in DOMAIN envs : k \in DOMAIN envs[i]})][k]]

-----------------------------------------------------------------------------
(* The project env bundle. *)

(* One bad line refuses the whole text; of a key given twice the last      *)
(* value counts.                                                           *)
parseProjectEnvContent(lines) == [
    set |-> TRUE,
    env |-> overAll([i \in DOMAIN lines |-> only(lines[i].key, lines[i].value)]),
    warnings |-> {lines[i].key : i \in {j \in DOMAIN lines : \E k \in 1..(j - 1) : lines[k].key = lines[j].key}}]

Upsert == \E lines \in Contents :
    /\ lines # <<>> /\ \A i \in DOMAIN lines : lines[i].valid
    /\ bundle' = parseProjectEnvContent(lines)
    /\ UNCHANGED <<envMode, rows, minted, compiledEnv, running>>

Delete ==
    /\ bundle.set /\ bundle' = NoEnv
    /\ UNCHANGED <<envMode, rows, minted, compiledEnv, running>>

LoadRuntimeEnv == bundle.env

-----------------------------------------------------------------------------
(* Internal services: what they run with and how others reach them. *)

relationalKinds == {"postgres", "mysql"}
isRelationalDatabaseKind(kind) == kind \in relationalKinds
internal(s) == s.kind # "app"
defaultConnectionTemplateForKind == [slot \in Slots |-> <<"DB", slot>>]
prefixedRelationalConnectionTemplate(alias) == [slot \in Slots |-> <<alias, "DB", slot>>]

(* Refused when two of the given slots share a name; the others keep       *)
(* their default.                                                          *)
templateAccepted(given) == \A a, b \in DOMAIN given : given[a] = given[b] => a = b
normalizeConnectionTemplateForKind(given) == over(defaultConnectionTemplateForKind, given)

defaultEnv(kind, name, password) ==
    CASE kind = "postgres" -> over(over(only(<<"POSTGRES", "DB">>, <<"app">>),
                                        only(<<"POSTGRES", "USER">>, <<"postgres">>)),
                                   only(<<"POSTGRES", "PASSWORD">>, password))
      [] kind = "mysql" -> over(over(only(<<"MYSQL", "DATABASE">>, <<"app">>),
                                     only(<<"MYSQL", "USER">>, <<"mysql">>)),
                                only(<<"MYSQL", "PASSWORD">>, password))
      [] kind = "mongodb" -> only(<<"MONGO", "INITDB", "DATABASE">>, <<"app">>)
      [] kind = "kafka" -> only(<<"KAFKA", "ADVERTISED", "LISTENERS">>, <<name>>)
      [] OTHER -> <<>>

(* Only what is blank is filled in, in turn from each of several.          *)
fillIfBlank(env, more) ==
    [k \in DOMAIN env \cup DOMAIN more |-> firstNonBlank(<<valueOf(env, k), valueOf(more, k)>>)]
filledIn(envs) == [k \in UNION {DOMAIN envs[i] : i \in DOMAIN envs} |->
                      firstNonBlank([i \in DOMAIN envs |-> valueOf(envs[i], k)])]

normalizeManagedInternalRuntimeEnv(s, password) == fillIfBlank(s.env, defaultEnv(s.kind, s.name, password))

(* The rows of the inventory are replaced by the normalised items; each    *)
(* database without a password gets a new one.                             *)
ConfigureServices == \E items \in EnvInventories :
    LET passwordKey(s) == <<IF s.kind = "mysql" THEN "MYSQL" ELSE "POSTGRES", "PASSWORD">>
        minting == {i \in DOMAIN items :
            isRelationalDatabaseKind(items[i].kind) /\ valueOf(items[i].env, passwordKey(items[i])) = Blank}
        password(i) == <<Minted[minted + Cardinality({j \in minting : j <= i})]>>
    IN  /\ minted + Cardinality(minting) <= Len(Minted)
        /\ \A i \in DOMAIN items : templateAccepted(items[i].template)
        /\ minted' = minted + Cardinality(minting)
        /\ rows' = [i \in DOMAIN items |-> [
                name |-> items[i].name, kind |-> items[i].kind, deps |-> items[i].deps,
                template |-> IF isRelationalDatabaseKind(items[i].kind)
                             THEN normalizeConnectionTemplateForKind(items[i].template) ELSE <<>>,
                env |-> normalizeManagedInternalRuntimeEnv(items[i], IF i \in minting THEN password(i) ELSE Blank)]]
        /\ UNCHANGED <<envMode, bundle, compiledEnv, running>>

hostOf(t) == IF envMode = "distributed-k3s" THEN t.name ELSE "localhost"

(* Slip: what the project env says goes before what the database runs with. *)
credentialFromProject(t, own, alt, otherwise) ==
    LET prefix == IF t.kind = "mysql" THEN "MYSQL" ELSE "POSTGRES"
    IN  firstNonBlank(<<valueOf(LoadRuntimeEnv, <<prefix, own>>), valueOf(LoadRuntimeEnv, <<"DB", alt>>),
                        valueOf(t.env, <<prefix, own>>), valueOf(t.env, <<"DB", alt>>), <<otherwise>>>>)

credential(t, own, alt, otherwise) ==
    LET prefix == IF t.kind = "mysql" THEN "MYSQL" ELSE "POSTGRES"
    IN  firstNonBlank(<<valueOf(t.env, <<prefix, own>>), valueOf(t.env, <<"DB", alt>>),
                        valueOf(LoadRuntimeEnv, <<prefix, own>>), valueOf(LoadRuntimeEnv, <<"DB", alt>>), <<otherwise>>>>)

buildRelationalConnectionRuntimeValues(t) ==
    LET mysql == t.kind = "mysql"
        name == credential(t, IF mysql THEN "DATABASE" ELSE "DB", "NAME", "app")
        user == credential(t, "USER", "USER", t.kind)
        password == credential(t, "PASSWORD", "PASSWORD", t.kind)
    IN  [slot \in Slots |-> CASE slot = "URL" -> <<t.kind, user[1], password[1], hostOf(t), name[1]>>
                              [] slot = "NAME" -> name
                              [] slot = "HOST" -> <<hostOf(t)>>
                              [] slot = "PORT" -> <<t.kind, "port">>
                              [] slot = "USERNAME" -> user
                              [] slot = "PASSWORD" -> password]

(* One value per slot under the template's name for it.                    *)
underNames(template, values) == [name \in Range(template) |-> values[CHOOSE slot \in Slots : template[slot] = name]]

(* Brokers and caches have no credentials.                                 *)
buildDependencyRuntimeEnv(t) ==
    LET keysOf(words, keys) == [k \in {<<w, x>> : w \in words, x \in keys} |->
            IF k[2] = "PORT" THEN <<t.kind, "port">> ELSE <<hostOf(t)>>]
    IN  CASE t.kind = "mongodb" -> keysOf({"MONGODB"}, {"HOST", "PORT", "URL", "URI"})
          [] t.kind = "redis" -> keysOf({"REDIS"}, {"HOST", "PORT", "URL"})
          [] t.kind = "kafka" -> keysOf({"KAFKA"}, {"BOOTSTRAP_SERVERS", "BROKERS", "HOST", "PORT"})
          [] t.kind = "eureka-server" -> keysOf({"EUREKA"}, {"HOST", "PORT", "URL"})
          [] OTHER -> <<>>

prefixDependencyEnv(alias, env) == [k \in {<<alias, key[1], key[2]>> : key \in DOMAIN env} |-> env[<<k[2], k[3]>>]]

(* The variables of one dependency: under the names its template gives,    *)
(* or the target's, or prefixed when there is more than one of a kind.     *)
buildDependencyBindingEnv(dep, t, kindCount, relationalCount) ==
    LET template == IF dep.template # <<>> THEN normalizeConnectionTemplateForKind(dep.template)
                    ELSE IF t.template # <<>> THEN t.template
                    ELSE IF relationalCount <= 1 /\ kindCount <= 1 THEN defaultConnectionTemplateForKind
                    ELSE prefixedRelationalConnectionTemplate(t.name)
        env == buildDependencyRuntimeEnv(t)
    IN  IF isRelationalDatabaseKind(t.kind) THEN underNames(template, buildRelationalConnectionRuntimeValues(t))
        ELSE IF kindCount <= 1 THEN env ELSE prefixDependencyEnv(t.name, env)

named(services, name) == services[CHOOSE i \in DOMAIN services : services[i].name = name]
names(services) == {services[i].name : i \in DOMAIN services}

(* The bindings of a service to internal services, with how many of those  *)
(* counted are of the same kind, and of any relational kind.               *)
bindingEnvs(s, counted) ==
    LET target(j) == s.deps[j].target
        toInternal == {j \in DOMAIN s.deps : target(j) \in names(rows) /\ internal(named(rows, target(j)))}
        ofKinds(kinds) == Cardinality({j \in DOMAIN s.deps :
                              target(j) \in counted /\ named(rows, target(j)).kind \in kinds})
    IN  [j \in toInternal |->
            LET t == named(rows, target(j))
            IN  buildDependencyBindingEnv(s.deps[j], t, ofKinds({t.kind}), ofKinds(relationalKinds))]

-----------------------------------------------------------------------------
(* The page of the project env, and the revision. *)

(* The variables the page says service s gets for its dependencies, less   *)
(* those the user has set.  It counts internal targets only.               *)
managedKeys(s) == UNION {DOMAIN e : e \in Range(bindingEnvs(s, {n \in names(rows) : internal(named(rows, n))}))}
annotateProvisionedHelperPacks(s) == managedKeys(s) \ DOMAIN LoadRuntimeEnv

(* A service's own variables win, then its first dependency's.             *)
buildServiceContracts == [i \in DOMAIN rows |-> [
    name |-> rows[i].name, kind |-> rows[i].kind, deps |-> rows[i].deps,
    promised |-> annotateProvisionedHelperPacks(rows[i]),
    env |-> fillIfBlank(rows[i].env, filledIn(bindingEnvs(rows[i], names(rows))))]]

Compile ==
    /\ rows # <<>>
    /\ compiledEnv' = buildServiceContracts
    /\ UNCHANGED <<envMode, rows, minted, bundle, running>>

-----------------------------------------------------------------------------
(* What the processes get. *)

normalizeManagedServiceEnv(kind, env) ==
    LET password == firstNonBlank(<<valueOf(env, <<"DB", "PASSWORD">>), <<"postgres">>>>)
    IN  IF kind = "postgres" THEN fillIfBlank(env, defaultEnv(kind, "", password)) ELSE env

(* On the cluster: the revision's env bundles, as secrets of the manifests. *)
ApplyManifests ==
    /\ envMode = "distributed-k3s" /\ compiledEnv # <<>>
    /\ running' = [from |-> compiledEnv, saved |-> LoadRuntimeEnv,
                   env |-> [i \in DOMAIN compiledEnv |->
                               normalizeManagedServiceEnv(compiledEnv[i].kind, compiledEnv[i].env)]]
    /\ UNCHANGED <<envMode, rows, minted, bundle, compiledEnv>>

automaticServiceDiscoveryEnvMap(services) == overAll([i \in DOMAIN services |->
    [k \in {<<services[i].name, w>> : w \in {"HOST", "PORT", "URL"}}
           \cup {<<"LAZYOPS", "SERVICE", services[i].name, w>> : w \in {"HOST", "PORT", "URL"}} |->
        <<services[i].name>>]])

(* An alias "postgres" also gets the DB_ variables.                        *)
dependencyEnvMap(deps) == overAll([i \in DOMAIN deps |->
    over([k \in {<<deps[i].target, w>> : w \in {"HOST", "PORT", "URL"}} |-> <<"127.0.0.1", deps[i].target>>],
         IF deps[i].target = "postgres"
         THEN [k \in {<<"DB", w>> : w \in {"HOST", "PORT", "USER", "PASSWORD", "NAME"}} |->
                  IF k[2] \in {"HOST", "PORT"} THEN <<"127.0.0.1", "postgres">> ELSE <<"lazyops">>]
         ELSE <<>>)])

isReservedRuntimeEnvKey(key) == key = <<"PORT">> \/ key[1] = "LAZYOPS"

buildContainerEnvVars(deps, services, projectEnv) ==
    overAll(<<automaticServiceDiscoveryEnvMap(services), dependencyEnvMap(deps),
              Restrict(projectEnv, {k \in DOMAIN projectEnv : ~isReservedRuntimeEnvKey(k)}),
              only(<<"PORT">>, <<"runtime port">>)>>)

(* On one host: the saved env travels in the payload of the rollout.       *)
StartContainers ==
    /\ envMode # "distributed-k3s" /\ compiledEnv # <<>>
    /\ running' = [from |-> compiledEnv, saved |-> LoadRuntimeEnv,
                   env |-> [i \in DOMAIN compiledEnv |-> buildContainerEnvVars(
                       SelectSeq(compiledEnv[i].deps, LAMBDA d :
                           d.target \in names(compiledEnv) /\ internal(named(compiledEnv, d.target))),
                       compiledEnv, LoadRuntimeEnv)]]
    /\ UNCHANGED <<envMode, rows, minted, bundle, compiledEnv>>

EnvInit ==
    /\ envMode \in Modes /\ rows = <<>> /\ minted = 0
    /\ bundle = NoEnv /\ compiledEnv = <<>> /\ running = NotRunning

EnvNext == Upsert \/ Delete \/ ConfigureServices \/ Compile \/ ApplyManifests \/ StartContainers
EnvSpec == EnvInit /\ [][EnvNext]_envVars

-----------------------------------------------------------------------------
(* The database that was started with these variables is the URL's.        *)
IsOpened(url, service, started) ==
    LET prefix == IF url[1] = "mysql" THEN "MYSQL" ELSE "POSTGRES"
        db(word) == valueOf(started, <<prefix, word>>)
    IN  /\ service.kind = url[1] /\ service.name = url[4]
        /\ <<db("USER"), db("PASSWORD")>> = <<<<url[2]>>, <<url[3]>>>>
        /\ db(IF url[1] = "mysql" THEN "DATABASE" ELSE "DB") = <<url[5]>>

(* A connection URL a process on the cluster got opens a database that was *)
(* started with it: same host, user, password and database name; and the   *)
(* variables the page promised for a service are there.                    *)
ConnectionsOpen == envMode = "distributed-k3s" =>
    \A i \in DOMAIN running.env :
        /\ running.from[i].promised \subseteq DOMAIN running.env[i]
        /\ \A k \in DOMAIN running.env[i] : Len(running.env[i][k]) = 5 =>
               \E j \in DOMAIN running.from :
                   IsOpened(running.env[i][k], running.from[j], running.env[j])

reached(i, s) == \A k \in DOMAIN s : isReservedRuntimeEnvKey(k) \/ valueOf(running.env[i], k) = s[k]

(* In a container every variable the user had saved when the rollout was   *)
(* planned has the saved value, whatever the dependencies are called.      *)
SavedEnvWins == envMode # "distributed-k3s" =>
    \A i \in DOMAIN running.env : reached(i, running.saved)

(* What a process is started with is what was promised: connections that   *)
(* open on the cluster, saved values in a container.                       *)
EnvDelivered == ConnectionsOpen /\ SavedEnvWins

(* What the page says on every kind of target: the saved env is injected   *)
(* into the services with the next deployment.                             *)
SavedEnvReachesServices == \A i \in DOMAIN running.env : internal(running.from[i]) \/ reached(i, running.saved)

=============================================================================
