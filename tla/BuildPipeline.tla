--------------------------- MODULE BuildPipeline ----------------------------
(***************************************************************************)
(* From a push to a deployment: GitHub webhooks and one-click deploys      *)
(* enqueue build jobs, the build worker claims and builds them, and its    *)
(* callback records the result and creates the deployment.                 *)
(*                                                                         *)
(* Commits of the tracked branch are 1, 2, ...; 0 is an empty commit and   *)
(* FallbackCommit what a failed build of an empty commit reports.  A       *)
(* delivery is identified by the commit pushed.  Database calls do not     *)
(* fail; requests, builds and both processes may.                          *)
(***************************************************************************)
EXTENDS RepoLinks, Sequences, SequencesExt

CONSTANTS MaxConcurrency,  \* builds the worker runs at once
          Handlers,        \* request goroutines of the backend
          MaxPushes,       \* bound on the commits of the branch
          MaxJobs,         \* bound on build jobs
          Previewed,       \* projects whose link has previews enabled
          MaxEvents        \* bound on crashes, lost calls, timeouts, redeliveries,
                           \* changed links, pushes and pull requests, together

ASSUME BuildAssumption ==
    /\ MaxConcurrency \in Nat \ {0}
    /\ MaxPushes \in Nat \ {0} /\ MaxJobs \in Nat /\ MaxEvents \in Nat

VARIABLES
    head,        \* the latest commit of the branch
    jobs,        \* build_jobs in creation order: [project, delivery, input, commit, status]
    requests,    \* handler -> the webhook or one-click request it works on
    work,        \* worker slot -> the build it runs
    calls,       \* worker slots and abandoned calls -> the callback being handled
    deployed,    \* job -> the commits of the deployments created for it, in order
    disturbed,   \* jobs hit by a crash, a lost or late answer, or claimed twice
    events

pipeVars  == <<head, jobs, requests, work, calls, deployed, disturbed, events>>
buildVars == <<linkVars, pipeVars>>

FallbackCommit == MaxPushes + 1
PRCommit       == MaxPushes + 2                    \* the head of a pull request
Tracked        == CHOOSE b \in Branches : TRUE     \* the branch that is pushed to
Slots          == 1..MaxConcurrency
Abandoned      == MaxConcurrency + 1               \* a call whose caller gave up
Idle           == [pc |-> "idle"]
JobIds         == DOMAIN jobs
Settled        == {"succeeded", "failed"}

\* The installation is synced and every project is linked to the branch, if it can be.
LinksReady ==
    /\ github  = [u \in Owners |-> [installed |-> TRUE, inScope |-> TRUE]]
    /\ record  = [u \in Owners |-> [known |-> TRUE, revoked |-> FALSE, inScope |-> TRUE]]
    /\ syncing = [c \in SyncCalls |-> NoSync]
    /\ linking = [p \in Projects |-> None]
    /\ tracked = [p \in Projects |-> IF p = CHOOSE q \in Projects : TRUE THEN Tracked ELSE None]
    /\ synced = Owners

PipeInit ==
    /\ head = 1 /\ jobs = <<>>
    /\ requests = [h \in Handlers |-> Idle]
    /\ work = [w \in Slots |-> Idle]
    /\ calls = [w \in 1..(MaxConcurrency + 1) |-> Idle]
    /\ deployed = <<>>
    /\ disturbed = {} /\ events = 0

BuildInit == LinksReady /\ PipeInit

-----------------------------------------------------------------------------
(* Requests. *)

Push ==
    /\ head < MaxPushes /\ events < MaxEvents
    /\ head' = head + 1
    /\ events' = events + 1
    /\ UNCHANGED <<jobs, requests, work, calls, deployed, disturbed>>

JobsOf(delivery)  == {j \in JobIds : jobs[j].delivery = delivery}
Working           == {h \in Handlers : requests[h] # Idle}
Room              == Len(jobs) + Cardinality(Working) < MaxJobs

\* A delivery GitHub sends again, or twice, is one of the events.
Again(c) == JobsOf(c) # {} \/ \E h \in Working : requests[h].commit = c

\* handlePush: a signed push event of the branch, delivered once, again or late.
\* Events of other refs, deleted branches and unlinked repositories are ignored.
handlePush(h, c) ==
    /\ requests[h] = Idle /\ (Room \/ JobsOf(c) # {})
    /\ \E p \in LookupWebhookRoute(Tracked) :
          requests' = [requests EXCEPT ![h] =
              [pc |-> "routed", project |-> p, commit |-> c, known |-> JobsOf(c) # {}]]
    /\ Again(c) => events < MaxEvents
    /\ events' = IF Again(c) THEN events + 1 ELSE events
    /\ UNCHANGED <<head, jobs, work, calls, deployed, disturbed>>

\* handlePullRequest: opened, reopened or synchronized, on a link with previews;
\* the pull request's head is built like a push to its base branch.  A closed
\* one is accepted and nothing is done.
handlePullRequest(h) ==
    /\ requests[h] = Idle /\ Room
    /\ events < MaxEvents /\ events' = events + 1
    /\ \E p \in LookupWebhookRoute(Tracked) \cap Previewed :
          requests' = [requests EXCEPT ![h] =
              [pc |-> "routed", project |-> p, commit |-> PRCommit, known |-> JobsOf(PRCommit) # {}]]
    /\ UNCHANGED <<head, jobs, work, calls, deployed, disturbed>>

\* EnqueueFromWebhook up to the write: a delivery that has a job is answered with
\* it, and the event must still match the project's link.
EnqueueFromWebhook(h) ==
    /\ requests[h].pc = "routed"
    /\ LET r == requests[h] IN
       requests' = [requests EXCEPT ![h] =
           IF JobsOf(r.commit) # {} \/ tracked[r.project] # Tracked
           THEN Idle ELSE [r EXCEPT !.pc = "enqueue"]]
    /\ UNCHANGED <<head, jobs, work, calls, deployed, disturbed, events>>

isBuildJobActiveStatus(s) == s \in {"queued", "running"}

\* Latest and LatestActive: only the newest job of the project counts.
LatestActive(p) ==
    LET mine == {j \in JobIds : jobs[j].project = p} IN
    mine # {} /\ isBuildJobActiveStatus(jobs[Max(mine)].status)

\* A one-click deploy of a project with repository services reuses the active
\* build or enqueues one of the branch's head.
enqueueOneClickRepoBuild(h, p) ==
    /\ requests[h] = Idle /\ Room /\ tracked[p] # None
    /\ record[OwnerOf[p]].known /\ ~record[OwnerOf[p]].revoked /\ ~LatestActive(p)
    /\ requests' = [requests EXCEPT ![h] =
          [pc |-> "enqueue", project |-> p, commit |-> 0, known |-> FALSE]]
    /\ UNCHANGED <<head, jobs, work, calls, deployed, disturbed, events>>

\* The job is created queued, with the targets of that moment; a manual job's
\* delivery is its own id.
enqueueBuildJob(h) ==
    /\ requests[h].pc = "enqueue" /\ Len(jobs) < MaxJobs
    /\ LET r == requests[h] IN
       jobs' = Append(jobs, [project |-> r.project, delivery |-> r.commit, input |-> r.commit,
                             commit |-> r.commit, status |-> "queued"])
    /\ deployed' = Append(deployed, <<>>)
    /\ requests' = [requests EXCEPT ![h] = Idle]
    /\ UNCHANGED <<head, work, calls, disturbed, events>>

-----------------------------------------------------------------------------
(* The worker. *)

\* The members of S before x.
Rank(x, S) == Cardinality({y \in S : y < x})

\* One tick of Run: the oldest queued jobs, at most MaxConcurrency of them, are
\* handed to the free slots; a job waits for a later tick when no slot is free.
Run ==
    LET queued    == {j \in JobIds : jobs[j].status = "queued"}
        listed    == {j \in queued : Rank(j, queued) < MaxConcurrency}
        free      == {w \in Slots : work[w] = Idle}
        handed(w) == {j \in listed : w \in free /\ Rank(j, listed) = Rank(w, free)} IN
    /\ listed # {} /\ free # {}
    /\ work' = [w \in Slots |->
          IF handed(w) = {} THEN work[w]
          ELSE [pc |-> "spawned", job |-> CHOOSE j \in handed(w) : TRUE]]
    /\ UNCHANGED <<head, jobs, requests, calls, deployed, disturbed, events>>

\* The claim updates the row only if it is still queued and does not look at
\* the number of rows updated.
Claim(w) ==
    /\ work[w].pc = "spawned"
    /\ LET j == work[w].job IN
       /\ jobs' = [jobs EXCEPT ![j].status = IF @ = "queued" THEN "running" ELSE @]
       /\ disturbed' = disturbed \cup IF jobs[j].status = "queued" THEN {} ELSE {j}
       /\ work' = [work EXCEPT ![w].pc = "building"]
    /\ UNCHANGED <<head, requests, calls, deployed, events>>

fallbackBuildCallbackCommit(j) == IF jobs[j].input # 0 THEN jobs[j].input ELSE FallbackCommit

\* buildAndPush, and the call it leads to.  A successful build reports the commit
\* that was checked out: the job's, or the branch's head.
buildAndPush(w) ==
    /\ work[w].pc = "building" /\ calls[w] = Idle
    /\ LET j == work[w].job IN
       \/ calls' = [calls EXCEPT ![w] = [pc |-> "received", job |-> j, status |-> "succeeded",
             commit |-> IF jobs[j].input # 0 THEN jobs[j].input ELSE head]]
       \/ calls' = [calls EXCEPT ![w] = [pc |-> "received", job |-> j, status |-> "failed",
             commit |-> fallbackBuildCallbackCommit(j)]]
    /\ work' = [work EXCEPT ![w].pc = "calling"]
    /\ UNCHANGED <<head, jobs, requests, deployed, disturbed, events>>

\* The caller hears of the end of its call, if it still waits: an error makes it
\* fail the job.
Answer(c, ok) ==
    work' = IF c = Abandoned THEN work
            ELSE [work EXCEPT ![c] = IF ok THEN Idle ELSE [@ EXCEPT !.pc = "failing"]]

\* Slip: only a job that is still running is failed.
failRunningJob(w) ==
    /\ work[w].pc = "failing"
    /\ jobs' = [jobs EXCEPT ![work[w].job].status = IF @ = "running" THEN "failed" ELSE @]
    /\ work' = [work EXCEPT ![w] = Idle]
    /\ UNCHANGED <<head, requests, calls, deployed, disturbed, events>>

\* Slip: a build that ends this way keeps its slot.
failJobKeepSlot(w) ==
    /\ work[w].pc = "failing"
    /\ jobs' = [jobs EXCEPT ![work[w].job].status = "failed"]
    /\ work' = [work EXCEPT ![w].pc = "kept"]
    /\ UNCHANGED <<head, requests, calls, deployed, disturbed, events>>

\* failJobWithArtifact: whatever the job's status is.
failJobWithArtifact(w) ==
    /\ work[w].pc = "failing"
    /\ jobs' = [jobs EXCEPT ![work[w].job].status = "failed"]
    /\ work' = [work EXCEPT ![w] = Idle]
    /\ UNCHANGED <<head, requests, calls, deployed, disturbed, events>>

-----------------------------------------------------------------------------
(* The callback. *)

\* Handle up to the first write: the commit must be the job's, if it has one, and
\* a succeeded build must cover every staged target with an image.
Handle(c) ==
    /\ calls[c].pc = "received"
    /\ LET j == calls[c].job
           matches == jobs[j].commit \in {0, calls[c].commit} IN
       \/ /\ matches
          /\ calls' = [calls EXCEPT ![c].pc = "checked"]
          /\ UNCHANGED work
       \/ /\ ~matches \/ calls[c].status = "succeeded"
          /\ calls' = [calls EXCEPT ![c] = Idle]
          /\ Answer(c, FALSE)
    /\ UNCHANGED <<head, jobs, requests, deployed, disturbed, events>>

\* The result is written, whatever the job's status is; a failed build is
\* broadcast and done.
UpdateResult(c) ==
    /\ calls[c].pc = "checked"
    /\ jobs' = [jobs EXCEPT ![calls[c].job].status = calls[c].status,
                            ![calls[c].job].commit = calls[c].commit]
    /\ IF calls[c].status = "succeeded"
       THEN calls' = [calls EXCEPT ![c].pc = "recorded"] /\ UNCHANGED work
       ELSE calls' = [calls EXCEPT ![c] = Idle] /\ Answer(c, TRUE)
    /\ UNCHANGED <<head, requests, deployed, disturbed, events>>

\* The revision is compiled and created, and the result written again with the
\* services it applied to; a port that is not resolved ends the call (BuildPorts).
createArtifactReadyRevision(c) ==
    /\ calls[c].pc = "recorded"
    /\ \/ /\ calls' = [calls EXCEPT ![c].pc = "revised"]
          /\ jobs' = [jobs EXCEPT ![calls[c].job].status = "succeeded",
                                  ![calls[c].job].commit = calls[c].commit]
          /\ UNCHANGED work
       \/ /\ calls' = [calls EXCEPT ![c] = Idle]
          /\ Answer(c, FALSE)
          /\ UNCHANGED jobs
    /\ UNCHANGED <<head, requests, deployed, disturbed, events>>

\* The deployment is created queued and its rollout started; the call is answered.
createQueuedDeployment(c) ==
    /\ calls[c].pc = "revised"
    /\ deployed' = [deployed EXCEPT ![calls[c].job] = Append(@, calls[c].commit)]
    /\ calls' = [calls EXCEPT ![c] = Idle]
    /\ Answer(c, TRUE)
    /\ UNCHANGED <<head, jobs, requests, disturbed, events>>

-----------------------------------------------------------------------------
(* Faults. *)

\* The HTTP client gives up after 30 s, or the request is lost; the handler, if it
\* runs, goes on.
CallFails(w) ==
    /\ events < MaxEvents /\ events' = events + 1
    /\ work[w].pc = "calling"
    /\ work' = [work EXCEPT ![w].pc = "failing"]
    /\ \/ calls[w].pc = "received" /\ calls' = [calls EXCEPT ![w] = Idle]
       \/ /\ calls[w] # Idle /\ calls[Abandoned] = Idle
          /\ calls' = [calls EXCEPT ![w] = Idle, ![Abandoned] = calls[w]]
    /\ disturbed' = disturbed \cup {work[w].job}
    /\ UNCHANGED <<head, jobs, requests, deployed>>

\* The worker dies; what it called goes on.
WorkerCrash ==
    /\ events < MaxEvents /\ events' = events + 1
    /\ disturbed' = disturbed \cup {work[w].job : w \in {x \in Slots : work[x] # Idle}}
    /\ work' = [w \in Slots |-> Idle]
    /\ LET running == {w \in Slots : calls[w] # Idle} IN
       /\ Cardinality(running) <= IF calls[Abandoned] = Idle THEN 1 ELSE 0
       /\ calls' = [c \in DOMAIN calls |->
             IF c = Abandoned /\ running # {} THEN calls[CHOOSE w \in running : TRUE]
             ELSE IF c = Abandoned THEN calls[c] ELSE Idle]
    /\ UNCHANGED <<head, jobs, requests, deployed>>

\* The backend dies; waiting callers get an error.
BackendCrash ==
    /\ events < MaxEvents /\ events' = events + 1
    /\ requests' = [h \in Handlers |-> Idle]
    /\ calls' = [c \in DOMAIN calls |-> Idle]
    /\ work' = [w \in Slots |->
          IF work[w].pc = "calling" THEN [work[w] EXCEPT !.pc = "failing"] ELSE work[w]]
    /\ disturbed' = disturbed \cup {calls[c].job : c \in {x \in DOMAIN calls : calls[x] # Idle}}
    /\ UNCHANGED <<head, jobs, deployed>>

\* A linked project is moved to another branch (LinkCheck and LinkRepository,
\* whose own interleavings are RepoLinks').
Relink ==
    /\ events < MaxEvents /\ events' = events + 1
    /\ \E p \in Projects, b \in Branches :
          /\ tracked[p] \notin {None, b} /\ Accessible(p) /\ ~Conflict(p, b)
          /\ tracked' = [tracked EXCEPT ![p] = b]
    /\ UNCHANGED <<github, record, syncing, linking, synced>>
    /\ UNCHANGED <<head, jobs, requests, work, calls, deployed, disturbed>>

Requests ==
    \/ Push
    \/ \E h \in Handlers :
          \/ handlePullRequest(h) \/ EnqueueFromWebhook(h) \/ enqueueBuildJob(h)
          \/ \E c \in 1..head : handlePush(h, c)
          \/ \E p \in Projects : enqueueOneClickRepoBuild(h, p)

Building == Run \/ \E w \in Slots : Claim(w) \/ buildAndPush(w) \/ failJobWithArtifact(w)

Calls ==
    \E c \in DOMAIN calls :
        Handle(c) \/ UpdateResult(c) \/ createArtifactReadyRevision(c) \/ createQueuedDeployment(c)

Faults == (\E w \in Slots : CallFails(w)) \/ WorkerCrash \/ BackendCrash

BuildNext ==
    \/ (Requests \/ Building \/ Calls \/ Faults) /\ UNCHANGED linkVars
    \/ Relink

\* The ticker and the goroutines of both processes run; a build ends one way or
\* the other.  Nothing is assumed of users, GitHub and faults.
BuildFairness ==
    /\ WF_buildVars(Run /\ UNCHANGED linkVars)
    /\ \A w \in Slots : WF_buildVars((Claim(w) \/ buildAndPush(w) \/ failJobWithArtifact(w)) /\ UNCHANGED linkVars)
    /\ \A c \in 1..(MaxConcurrency + 1) :
          WF_buildVars((Handle(c) \/ UpdateResult(c) \/ createArtifactReadyRevision(c)
                          \/ createQueuedDeployment(c)) /\ UNCHANGED linkVars)

BuildSpec == BuildInit /\ [][BuildNext]_buildVars /\ BuildFairness

-----------------------------------------------------------------------------
InFlight(j) ==
    \/ \E w \in Slots : work[w] # Idle /\ work[w].job = j
    \/ \E c \in DOMAIN calls : calls[c] # Idle /\ calls[c].job = j

\* A job that no crash, lost answer or second claim touched ends with its status
\* and its deployments in agreement: a succeeded job has exactly one, any other
\* none, also when the callback rejects the ports after it wrote "succeeded"
\* (Handle, failJobWithArtifact).
SettledAgree ==
    \A j \in JobIds \ disturbed :
        ~InFlight(j) =>
            /\ jobs[j].status # "running"
            /\ Len(deployed[j]) = IF jobs[j].status = "succeeded" THEN 1 ELSE 0

\* Whatever happens, what is deployed for a delivery is the commit of the
\* delivery, and all deployments of a job that has a commit from the start are of
\* that commit (Handle's comparison with the stored commit).
DeploysDelivery ==
    \A j \in JobIds : \A i \in DOMAIN deployed[j] :
        /\ jobs[j].delivery # 0 => deployed[j][i] = jobs[j].delivery
        /\ deployed[j][i] # FallbackCommit

\* A delivery that had a job when its event was received again never gets another
\* (EnqueueFromWebhook); two that are received at once may.
RedeliveryIdempotent ==
    \A h \in Handlers : requests[h].pc = "enqueue" => ~requests[h].known

\* What a delivery leads to (EnqueueFromWebhook, Handle): a settled job and its
\* deployment agree, what is deployed is the commit that was delivered, and a
\* delivery received again gets no second job.
DeliveriesBuilt == SettledAgree /\ DeploysDelivery /\ RedeliveryIdempotent

\* A queued job is claimed eventually, however many others are queued or fail.
QueuedIsClaimed ==
    \A j \in 1..MaxJobs :
        (j \in JobIds /\ jobs[j].status = "queued") ~> (j \in JobIds /\ jobs[j].status # "queued")

\* A job that is running ends: "Deployment will be created automatically after the
\* active build callback succeeds" (bootstrap_orchestrator.go, the reuse of the
\* latest active build).
ActiveBuildEnds ==
    \A j \in 1..MaxJobs :
        (j \in JobIds /\ isBuildJobActiveStatus(jobs[j].status))
            ~> (j \in JobIds /\ jobs[j].status \in Settled)
=============================================================================
