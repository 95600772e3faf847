--------------------------- MODULE BuildArtifacts ---------------------------
(***************************************************************************)
(* From the services of a project to the images they run: a build job      *)
(* copies the repository services as its targets (build_job_service.go),   *)
(* the worker clones the repository and builds and pushes one image per    *)
(* target (pkg/buildworker/worker.go), and the callback gives each image   *)
(* to a service of the inventory as it is then (build_callback_service.go).*)
(*                                                                         *)
(* A service's name is [raw, lower, image]: as written, lowercased, and as *)
(* it ends up in an image reference, where "_", "." and "/" are "-".  Its  *)
(* path is [raw, key, base]: as written, without "./" and slashes at the   *)
(* ends, and its last element.  Ports are the business of BuildPorts.      *)
(***************************************************************************)
EXTENDS Naturals, Sequences, FiniteSets, Functions

CONSTANTS Inventories,  \* the lists of services a project may have
          Commits,      \* heads of the tracked branch
          Digests,      \* digests of images
          Missing       \* paths that are not directories of the repository

ASSUME ArtifactsAssumption ==
    /\ \A s \in Inventories : s \in Seq(Range(s))
    /\ "none" \notin Digests

VARIABLES inventory,    \* the services of the project: [name, path, internal]
          head,         \* the head of the tracked branch
          job,          \* [status, commit, targets]: targets by their place in the inventory
          registry,     \* image reference -> the digest it stands for
          made,         \* history: target -> the digest built for it
          sent,         \* what the worker reports, by the place of the target
          compiled      \* service -> its artifact, as the revision has it

artVars == <<inventory, head, job, registry, made, sent, compiled>>

NoArtifact == [ref |-> <<>>, digest |-> "none"]
NoJob == [status |-> "none", commit |-> "", targets |-> <<>>]

-----------------------------------------------------------------------------
(* The job and the worker. *)

buildTargetServiceKey(t) == <<t.name.lower, t.path.key>>

(* The repository services, one per key, in the order of their paths.      *)
(* (The order of the strings is given by the inventory.)                   *)
resolveBuildTargets ==
    LET repo == {i \in DOMAIN inventory : ~inventory[i].internal}
        first == {i \in repo : \A k \in repo : k < i =>
                     buildTargetServiceKey(inventory[k]) # buildTargetServiceKey(inventory[i])}
    IN  [i \in first |-> inventory[i]]

Enqueue == \E commit \in {"", head} :
    /\ job.status = "none"
    /\ job' = [status |-> "queued", commit |-> commit, targets |-> resolveBuildTargets]
    /\ UNCHANGED <<inventory, head, registry, made, sent, compiled>>

(* A shallow clone, and the job's commit if it has one; cloning or the     *)
(* login at the registry may fail.                                         *)
cloneRepo == job.status = "queued" /\ \E ok \in BOOLEAN :
    /\ job' = IF ok THEN [job EXCEPT !.status = "building", !.commit = IF @ = "" THEN head ELSE @]
              ELSE [job EXCEPT !.status = "failed"]
    /\ UNCHANGED <<inventory, head, registry, made, sent, compiled>>

imageName(commit) == <<"", commit>>
imageNameForService(t, commit) == <<t.name.image, commit>>

resolveServiceBuildDir(t) == t.path.key \notin Missing

(* The next target is built and pushed; reading the digest may fail, which *)
(* the worker does not look at.                                            *)
buildAndPush == job.status = "building" /\ \E digest \in Digests, read, ok \in BOOLEAN :
    LET left == DOMAIN job.targets \ DOMAIN sent
        i == CHOOSE k \in left : \A n \in left : k <= n
        t == job.targets[i]
        ref == imageNameForService(t, job.commit)
        built == ok /\ resolveServiceBuildDir(t)
    IN  /\ left # {}
        /\ IF built
           THEN /\ registry' = [r \in DOMAIN registry \cup {ref} |-> IF r = ref THEN digest ELSE registry[r]]
                /\ made' = [u \in DOMAIN made \cup {t} |-> IF u = t THEN digest ELSE made[u]]
                /\ sent' = [k \in DOMAIN sent \cup {i} |->
                       IF k \in DOMAIN sent THEN sent[k]
                       ELSE [name |-> t.name, path |-> t.path, ref |-> ref,
                             digest |-> IF read THEN digest ELSE "none"]]
                /\ UNCHANGED job
           ELSE /\ job' = [job EXCEPT !.status = "failed"]
                /\ UNCHANGED <<registry, made, sent>>
        /\ UNCHANGED <<inventory, head, compiled>>

(* Without targets the whole repository is one image.                      *)
BuildWholeRepo == job.status = "building" /\ job.targets = <<>> /\ \E digest \in Digests, read \in BOOLEAN :
    /\ sent = <<>>
    /\ registry' = [r \in {imageName(job.commit)} |-> digest]
    /\ sent' = <<[ref |-> imageName(job.commit), digest |-> IF read THEN digest ELSE "none"]>>
    /\ UNCHANGED <<inventory, head, job, made, compiled>>

-----------------------------------------------------------------------------
(* The callback. *)

(* Artifacts that are not complete are left out, and those whose key came  *)
(* before.                                                                 *)
normalizeBuildServiceArtifacts(items) ==
    LET complete == {i \in DOMAIN items : items[i].digest # "none"}
    IN  {items[i] : i \in {n \in complete : \A k \in complete : k < n =>
                              buildTargetServiceKey(items[k]) # buildTargetServiceKey(items[n])}}

validateStagedServiceArtifactCoverage(targets, artifacts) ==
    IF artifacts = {} THEN Cardinality(targets) <= 1
    ELSE {buildTargetServiceKey(t) : t \in targets} = {buildTargetServiceKey(a) : a \in artifacts}

validateServiceArtifactImageReferences(artifacts) ==
    \A a, b \in artifacts : a.ref = b.ref => a.digest = b.digest

buildArtifactPathMatchers(path) == {path.key, path.base}

resolveServiceArtifactTargetIndexes(services, a) ==
    {i \in DOMAIN services : /\ services[i].name.lower = a.name.lower
                             /\ a.path.key \in buildArtifactPathMatchers(services[i].path)}

(* Slip: that two artifacts match the same service goes unnoticed.         *)
eachMatchesOne(services, artifacts) ==
    \A a \in artifacts : Cardinality(resolveServiceArtifactTargetIndexes(services, a)) = 1

validateServiceArtifactsAgainstBlueprintServices(services, artifacts) ==
    /\ \A a \in artifacts : Cardinality(resolveServiceArtifactTargetIndexes(services, a)) = 1
    /\ \A a, b \in artifacts :
        resolveServiceArtifactTargetIndexes(services, a) = resolveServiceArtifactTargetIndexes(services, b)
            => a = b

(* Whom the one image of a whole repository is for.  What the worker finds *)
(* in a repository are languages, which name no service.                   *)
resolveArtifactTargetServiceIndexes(services) ==
    LET apps == {i \in DOMAIN services : ~services[i].internal}
    IN  IF Len(services) = 1 THEN {1} ELSE IF Cardinality(apps) = 1 THEN apps ELSE {}

applyServiceArtifactsToBlueprintServices(services, artifacts) ==
    [i \in DOMAIN services |->
        LET mine == {a \in artifacts : resolveServiceArtifactTargetIndexes(services, a) = {i}}
        IN  IF mine = {} THEN NoArtifact
            ELSE LET a == CHOOSE a \in mine : TRUE IN [ref |-> a.ref, digest |-> a.digest]]

(* Handle and createArtifactReadyRevision: checks against the targets,     *)
(* which nothing is stored before, then against the inventory of now.      *)
Handle ==
    LET whole == job.targets = <<>>
        targets == Range(job.targets)
        artifacts == IF whole THEN {} ELSE normalizeBuildServiceArtifacts(sent)
        accepted == IF whole THEN sent[1].digest # "none"
                    ELSE /\ artifacts # {}
                         /\ validateStagedServiceArtifactCoverage(targets, artifacts)
                         /\ validateServiceArtifactImageReferences(artifacts)
        resolved == inventory # <<>> /\ validateServiceArtifactsAgainstBlueprintServices(inventory, artifacts)
        indexes == resolveArtifactTargetServiceIndexes(inventory)
    IN  /\ job.status = "building" /\ sent # <<>> /\ DOMAIN job.targets \subseteq DOMAIN sent
        /\ job' = [job EXCEPT !.status = IF ~accepted THEN "failed"
                                         ELSE IF ~resolved THEN "succeeded" ELSE "ready"]
        /\ compiled' = CASE ~accepted \/ ~resolved -> compiled
                         [] whole -> [i \in DOMAIN inventory |->
                                IF i \in indexes THEN sent[1] ELSE NoArtifact]
                         [] OTHER -> applyServiceArtifactsToBlueprintServices(inventory, artifacts)
        /\ UNCHANGED <<inventory, head, registry, made, sent>>

-----------------------------------------------------------------------------
Push == \E c \in Commits : head # c /\ head' = c
    /\ job.status \in {"none", "queued"}
    /\ UNCHANGED <<inventory, job, registry, made, sent, compiled>>

(* The user changes the services while the build waits or runs.            *)
ConfigureInventory == job.status \in {"queued", "building"} /\ \E s \in Inventories :
    /\ compiled = <<>> /\ inventory' = s
    /\ UNCHANGED <<head, job, registry, made, sent, compiled>>

ArtInit ==
    /\ inventory \in Inventories /\ head \in Commits
    /\ job = NoJob /\ registry = <<>> /\ made = <<>> /\ sent = <<>> /\ compiled = <<>>

ArtNext == Enqueue \/ cloneRepo \/ buildAndPush \/ BuildWholeRepo \/ Handle \/ Push \/ ConfigureInventory
ArtSpec == ArtInit /\ [][ArtNext]_artVars

-----------------------------------------------------------------------------
(* A revision made ready runs what was built for it: each target's image   *)
(* runs in exactly one service, whose name is the target's and which lies  *)
(* where the target lies or above a directory of that name, no service     *)
(* runs two, and the reference it runs still stands for that image.        *)
EachTargetItsImage == job.status = "ready" /\ job.targets # <<>> =>
    /\ \A t \in DOMAIN made : \E i \in DOMAIN inventory :
        /\ inventory[i].name.lower = t.name.lower
        /\ t.path.key \in {inventory[i].path.key, inventory[i].path.base}
        /\ compiled[i] = [ref |-> imageNameForService(t, job.commit), digest |-> made[t]]
    /\ \A i \in DOMAIN compiled : compiled[i] # NoArtifact =>
        registry[compiled[i].ref] = compiled[i].digest
    /\ Cardinality({i \in DOMAIN compiled : compiled[i] # NoArtifact}) = Cardinality(DOMAIN made)

=============================================================================
