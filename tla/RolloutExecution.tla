-------------------------- MODULE RolloutExecution --------------------------
(***************************************************************************)
(* Rollouts as the backend executes them                                   *)
(* (backend/internal/service/rollout_execution_service.go and              *)
(* rollout_planner.go) against the agent of one standalone binding:        *)
(* StartDeployment calls, recoveries after an agent reconnected, operators'*)
(* actions on deployments, agent commands that fail, get lost or are       *)
(* answered late, and crashes of the backend.                              *)
(*                                                                         *)
(* A deployment and its revision are created together and share an id; ids *)
(* grow with the time of creation.  Every database access is a step of its *)
(* own where another process may come in between: a checked transition     *)
(* (read, table lookup, unconditional update) is two steps.  The agent     *)
(* runs a command in one step; AgentRelease has the finer grain.  The plan *)
(* has one command for the five that prepare a release and differ only in  *)
(* what they write to the workspace.                                       *)
(***************************************************************************)
EXTENDS DeploymentStatus, ReleaseRules, Naturals, Sequences, FiniteSets

CONSTANTS
    Starters,     \* StartDeployment calls (requests, build callbacks)
    Target,       \* Target[s]: the deployment call s is about
    Recoverers,   \* recovery goroutines, one per reconnect of the agent
    Operators,    \* operator actions
    Overlap,      \* FALSE: a rollout begins only when none is under way
    LinkMayFail,  \* commands and answers may be lost or late
    AgentMayFail, \* probes and file operations on the agent may fail
    MaxLate,      \* bound on the commands that may still run late at a time
    MaxCrashes    \* bound on crashes of the backend

ASSUME ConstantsAssumption ==
    /\ Revisions \subseteq Nat
    /\ Target \in [Starters -> Revisions]
    /\ Starters \cap Recoverers = {} /\ Operators \cap (Starters \cup Recoverers) = {}
    /\ Overlap \in BOOLEAN /\ LinkMayFail \in BOOLEAN /\ AgentMayFail \in BOOLEAN
    /\ MaxLate \in Nat /\ MaxCrashes \in Nat

VARIABLES
    dep,         \* dep[d]: status of deployment d in the database
    rev,         \* rev[d]: status of its revision
    cand, traffic, cache,  \* the agent: see ReleaseRules
    pc,          \* pc[p]: the next step of process p
    writing,     \* processes whose transition was allowed but not written
    tgt,         \* tgt[p]: the deployment p works on
    step,        \* step[p]: position of p in Plan
    after,       \* after[p]: where p goes when failDeployment is through
    cmd,         \* cmd[p]: the command p waits for
    todo,        \* todo[p]: the listed deployments recovery p has not visited
    recovering,  \* deployments under recovery (beginRecovery, endRecovery)
    orphans,     \* commands nobody waits for that the agent may still run
    crashes,     \* crashes so far
    promoted     \* history: revisions that have been in status promoted

db == <<dep, rev, promoted>>
agent == <<cand, traffic, cache>>
waits == <<cmd, orphans>>
control == <<pc, step, recovering>>
place == <<tgt, after, todo>>
vars == <<db, agent, waits, control, place, writing, crashes>>

Procs == Starters \cup Recoverers \cup Operators

Plan == <<"prepare_release_workspace", "start_release_candidate",
          "run_health_gate", "promote_release">>

Commands == {Plan[i] : i \in 1..Len(Plan)} \cup {"rollback_release"}

(* What the agent answers to a command; "notready" stands for its two      *)
(* promotion_candidate_... error codes.                                    *)
Verdicts == {"done", "failed", "notready"}

(* "sent" until the agent ran the command, "lost" when the answer is lost. *)
CommandsWaited ==
    [type : Commands, answer : Verdicts \cup {"sent", "lost"}]
NoCommand == [type |-> "none", answer |-> "none"]

-----------------------------------------------------------------------------
(* The checked status transitions of the rollout and of Act: the table,    *)
(* the new status, and where control goes when the update is made (ok) or  *)
(* the transition is invalid (bad).                                        *)
Move(table, to, ok, bad) == [table |-> table, to |-> to, ok |-> ok, bad |-> bad]

Transitions ==
    {"planned", "running", "applying", "ready", "fail_dep", "fail_rev"} \cup
    {"promote", "promote_end", "rollback", "rollback_end", "cancel", "cancel_end"}

Transition ==
    [l \in Transitions |->
        CASE l = "planned"      -> Move("rev", "planned", "running", "return")
          [] l = "running"      -> Move("dep", "running", "step", "return")
          [] l = "applying"     -> Move("rev", "applying", "advance", "return")
          [] l = "ready"        -> Move("dep", "candidate_ready", "advance", "ready_reread")
          [] l = "fail_dep"     -> Move("dep", "failed", "fail_rev", "fail_rev")
          [] l = "fail_rev"     -> Move("rev", "failed", "after", "after")
          [] l = "promote"      -> Move("rev", "promoted", "promote_end", "return")
          [] l = "promote_end"  -> Move("dep", "promoted", "return", "return")
          [] l = "rollback"     -> Move("rev", "rolled_back", "rollback_end", "return")
          [] l = "rollback_end" -> Move("dep", "rolled_back", "return", "return")
          [] l = "cancel"       -> Move("dep", "canceled", "cancel_end", "return")
          [] l = "cancel_end"   -> Move("rev", "failed", "return", "return")]

(* Where p goes from "advance" and "after"; the last step ends the rollout. *)
Resolve(p, l) ==
    CASE l = "after" -> after[p]
      [] l = "advance" -> IF step[p] < Len(Plan) THEN "step" ELSE "return"
      [] OTHER -> l

(* Control of p moves to l.  A return ends a call, and in a recovery goes  *)
(* through endRecovery to the next deployment of the list.                 *)
Goto(p, l) ==
    LET m == Resolve(p, l)
        end == IF p \in Recoverers THEN "next" ELSE "done"
    IN  /\ pc' = [pc EXCEPT ![p] = IF m = "return" THEN end ELSE m]
        /\ step' = [step EXCEPT ![p] = IF l = "advance" /\ m = "step" THEN @ + 1 ELSE @]
        /\ recovering' = IF m = "return" /\ p \in Recoverers
                         THEN recovering \ {tgt[p]} ELSE recovering

SetRevision(d, s) ==
    /\ rev' = [rev EXCEPT ![d] = s]
    /\ promoted' = IF s = "promoted" THEN promoted \cup {d} ELSE promoted
    /\ UNCHANGED dep

SetDeployment(d, s) ==
    /\ dep' = [dep EXCEPT ![d] = s]
    /\ UNCHANGED <<rev, promoted>>

(* The read and the table lookup of a transition, ... *)
CheckTransition(p) ==
    /\ pc[p] \in Transitions /\ p \notin writing
    /\ LET t == Transition[pc[p]]
           d == tgt[p]
           valid == IF t.table = "rev" THEN canTransitionRevisionStatus(rev[d], t.to)
                                       ELSE canTransitionDeploymentStatus(dep[d], t.to)
       IN  IF valid THEN writing' = writing \cup {p} /\ UNCHANGED control
                    ELSE Goto(p, t.bad) /\ UNCHANGED writing
    /\ UNCHANGED <<db, agent, waits, place, crashes>>

(* ... and its update, which has no condition on the status it replaces.   *)
WriteTransition(p) ==
    /\ p \in writing
    /\ writing' = writing \ {p}
    /\ LET t == Transition[pc[p]]
       IN  /\ IF t.table = "rev" THEN SetRevision(tgt[p], t.to) ELSE SetDeployment(tgt[p], t.to)
           /\ Goto(p, t.ok)
    /\ UNCHANGED <<agent, waits, place, crashes>>

-----------------------------------------------------------------------------
(* Commands: dispatch, the wait, and what the agent does.                  *)

Dispatch(p, t, l) ==
    /\ cmd' = [cmd EXCEPT ![p] = [type |-> t, answer |-> "sent"]]
    /\ Goto(p, l)
    /\ UNCHANGED <<orphans, after>>

(* failDeployment, then l. *)
FailThen(p, l) ==
    /\ after' = [after EXCEPT ![p] = l]
    /\ Goto(p, "fail_dep")

(* The commands of C that were not run yet are given up: each is lost, or   *)
(* late.                                                                    *)
GiveUp(C) ==
    orphans' \in {S \in SUBSET (orphans \cup C) :
                    orphans \subseteq S /\ (S = orphans \/ Cardinality(S) <= MaxLate)}

SentBy(P) ==
    {[type |-> cmd[p].type, dep |-> tgt[p]] : p \in {q \in P : cmd[q].answer = "sent"}}

(* WaitForCommand returns outcome o: the agent's answer, or the cancelled  *)
(* command of an expired wait, which is no error.                          *)
Await(p, o) ==
    /\ \/ o \in Verdicts /\ cmd[p].answer = o
       \/ o = "cancelled" /\ LinkMayFail
    /\ cmd' = [cmd EXCEPT ![p] = NoCommand]
    /\ GiveUp(SentBy({p}))

Outcomes == Verdicts \cup {"cancelled"}

Candidate(r, c) == cand' = [cand EXCEPT ![r] = c]

prepare_release_workspace(r, a) ==
    LET ok == IF cand[r] = "none" THEN "workspace" ELSE cand[r]
    IN  /\ \/ a = "done" /\ Candidate(r, ok)
           \/ a = "failed" /\ AgentMayFail /\ \E c \in {cand[r], "none", ok} : Candidate(r, c)
        /\ UNCHANGED <<traffic, cache>>

start_release_candidate(r, a) ==
    /\ \/ a = "done" /\ cand[r] # "none" /\ Candidate(r, Started(cand[r]))
       \/ a = "failed" /\ cand[r] = "none" /\ UNCHANGED cand
       \/ a = "failed" /\ AgentMayFail /\ \E c \in {cand[r], Started(cand[r])} : Candidate(r, c)
    /\ UNCHANGED <<traffic, cache>>

run_health_gate(r, a) ==
    LET pass == moveCandidateToPromotable(cand[r])
        fail == moveCandidateToFailed(cand[r])
    IN  /\ \/ a = "done" /\ pass = "promotable" /\ Candidate(r, pass)
           \/ a = "failed" /\ pass # "promotable" /\ UNCHANGED cand
           \/ a = "failed" /\ AgentMayFail /\ \E c \in {cand[r], pass, fail} : Candidate(r, c)
        /\ UNCHANGED <<traffic, cache>>

(* The traffic record is written before the state file: a failure may come *)
(* in between.                                                             *)
promote_release(r, a) ==
    LET t == PromotedTraffic(r, cache)
    IN  /\ \/ /\ a = "notready" /\ cand[r] # "promotable"
              /\ UNCHANGED <<traffic, cache>>
           \/ /\ cand[r] = "promotable"
              /\ \/ a = "done" /\ traffic' = t /\ cache' = [current |-> r, prev |-> t.prev]
                 \/ a = "failed" /\ AgentMayFail /\ traffic' \in {traffic, t} /\ UNCHANGED cache
        /\ UNCHANGED cand

(* Annotating the candidate record comes last; an error there is logged.   *)
rollback_release(r, a) ==
    LET plan == selectRollbackPlan(r, cache, traffic)
        possible == /\ traffic.active # None /\ plan.restored # None
                    /\ cand[plan.restored] # "none"
    IN  \/ a = "failed" /\ (AgentMayFail \/ ~possible) /\ UNCHANGED agent
        \/ /\ possible
           /\ traffic' = RolledBackTraffic(plan)
           /\ \/ Candidate(r, RolledBackCandidate(cand[r]))
              \/ AgentMayFail /\ UNCHANGED cand
           /\ \/ a = "done" /\ cache' = [current |-> plan.restored, prev |-> None]
              \/ a = "failed" /\ AgentMayFail /\ UNCHANGED cache

AgentDoes(t, r, a) ==
    \/ t = "prepare_release_workspace" /\ prepare_release_workspace(r, a)
    \/ t = "start_release_candidate" /\ start_release_candidate(r, a)
    \/ t = "run_health_gate" /\ run_health_gate(r, a)
    \/ t = "promote_release" /\ promote_release(r, a)
    \/ t = "rollback_release" /\ rollback_release(r, a)

(* The agent runs the command p waits for; its answer may get lost.        *)
AgentRun(p) ==
    /\ cmd[p].answer = "sent"
    /\ \E a \in Verdicts :
        /\ AgentDoes(cmd[p].type, tgt[p], a)
        /\ \E got \in {a} \cup (IF LinkMayFail THEN {"lost"} ELSE {}) :
            cmd' = [cmd EXCEPT ![p].answer = got]
    /\ UNCHANGED <<db, control, place, orphans, writing, crashes>>

(* A command whose wait expired, or whose backend crashed, runs late.      *)
AgentRunLate(c) ==
    /\ c \in orphans
    /\ \E a \in Verdicts : AgentDoes(c.type, c.dep, a)
    /\ orphans' = orphans \ {c}
    /\ UNCHANGED <<db, control, place, cmd, writing, crashes>>

-----------------------------------------------------------------------------
(* A deployment is created for a revision still to be built, or by a build *)
(* callback for one whose artifact is ready.                               *)
Create(d) ==
    /\ dep[d] = "absent"
    /\ \A e \in Revisions : e < d => dep[e] # "absent"
    /\ dep' = [dep EXCEPT ![d] = "queued"]
    /\ \E s \in {"queued", "artifact_ready"} : rev' = [rev EXCEPT ![d] = s]
    /\ UNCHANGED <<promoted, agent, waits, control, place, writing, crashes>>

UnderWay(p) == pc[p] \notin {"idle", "done"}

(* StartDeployment is called. *)
StartDeployment(p) ==
    /\ p \in Starters /\ pc[p] = "idle"
    /\ dep[Target[p]] # "absent"
    /\ Overlap \/ ~\E q \in Procs : UnderWay(q)
    /\ tgt' = [tgt EXCEPT ![p] = Target[p]]
    /\ Goto(p, "start")
    /\ UNCHANGED <<db, agent, waits, after, todo, writing, crashes>>

(* A rollout that was taken up already, an artifact that is pending, an    *)
(* agent or a plan that cannot be resolved end the call before it wrote.   *)
StartChecks(p) ==
    /\ pc[p] = "start"
    /\ \/ Goto(p, "return")
       \/ ~rolloutAlreadyStarted(dep[tgt[p]], rev[tgt[p]]) /\ Goto(p, "planned")
    /\ UNCHANGED <<db, agent, waits, place, writing, crashes>>

shouldSkipRolloutStep(d, t) ==
    \/ t = "run_health_gate" /\ dep[d] \in {"candidate_ready", "promoted"}
    \/ t = "promote_release" /\ dep[d] = "promoted" /\ rev[d] = "promoted"

(* The head of the loop over the plan. *)
RolloutStep(p) ==
    LET t == Plan[step[p]]
    IN  /\ pc[p] = "step"
        /\ \/ shouldSkipRolloutStep(tgt[p], t) /\ Goto(p, "advance") /\ UNCHANGED <<waits, after>>
           \/ ~shouldSkipRolloutStep(tgt[p], t) /\ Dispatch(p, t, "await")
           \/ ~shouldSkipRolloutStep(tgt[p], t) /\ LinkMayFail /\ FailThen(p, "return") /\ UNCHANGED waits
        /\ UNCHANGED <<db, agent, tgt, todo, writing, crashes>>

(* What a rollout does next when command t was not refused.  The backend's *)
(* own gate (ExecuteHealthGate) passes every candidate.                    *)
OnSuccess(t) ==
    CASE t = "start_release_candidate" -> "applying"
      [] t = "run_health_gate" -> "ready"
      [] t = "promote_release" -> "finish"
      [] OTHER -> "advance"

(* Slip: any answer to a command counts. *)
RolloutAnswerAny(p) ==
    /\ pc[p] = "await"
    /\ \E o \in Outcomes : Await(p, o)
    /\ Goto(p, OnSuccess(cmd[p].type))
    /\ UNCHANGED <<db, agent, place, writing, crashes>>

(* The rest of the loop: only a failed command stops the rollout.          *)
RolloutAnswer(p) ==
    /\ pc[p] = "await"
    /\ \E o \in Outcomes :
        /\ Await(p, o)
        /\ \/ o \in {"done", "cancelled"} /\ Goto(p, OnSuccess(cmd[p].type)) /\ UNCHANGED after
           \/ o \in {"failed", "notready"} /\ FailThen(p, "plan_rollback")
    /\ UNCHANGED <<db, agent, tgt, todo, writing, crashes>>

(* transitionDeploymentStatusIfNeeded looks again when it was refused. *)
ReadyReread(p) ==
    /\ pc[p] = "ready_reread"
    /\ Goto(p, IF dep[tgt[p]] \in {"candidate_ready", "promoted"} THEN "advance" ELSE "return")
    /\ UNCHANGED <<db, agent, waits, place, writing, crashes>>

(* promoteCandidateIfNeeded and the checks of PromoteCandidate, ... *)
promoteCandidateIfNeeded(p) ==
    LET d == tgt[p]
    IN  /\ pc[p] = "finish"
        /\ Goto(p, CASE dep[d] = "promoted" /\ rev[d] = "promoted" -> "advance"
                     [] rev[d] \in {"artifact_ready", "planned", "applying"} -> "finish_rev"
                     [] OTHER -> "return")
        /\ UNCHANGED <<db, agent, waits, place, writing, crashes>>

(* Slip: the deployment is updated before the revision. *)
PromoteCandidateSwapped(p) ==
    /\ \/ pc[p] = "finish_rev" /\ SetDeployment(tgt[p], "promoted") /\ Goto(p, "finish_dep")
       \/ pc[p] = "finish_dep" /\ SetRevision(tgt[p], "promoted") /\ Goto(p, "advance")
    /\ UNCHANGED <<agent, waits, place, writing, crashes>>

(* ... and its two unconditional updates.                                  *)
PromoteCandidate(p) ==
    /\ \/ pc[p] = "finish_rev" /\ SetRevision(tgt[p], "promoted") /\ Goto(p, "finish_dep")
       \/ pc[p] = "finish_dep" /\ SetDeployment(tgt[p], "promoted") /\ Goto(p, "advance")
    /\ UNCHANGED <<agent, waits, place, writing, crashes>>

-----------------------------------------------------------------------------
(* rollbackDeployment *)

StableRevisions(d) == {e \in Revisions \ {d} : rev[e] = "promoted"}

(* Slip: a rollback that cannot be planned is planned again. *)
PlanRollbackRetry(p) ==
    LET d == tgt[p]
        possible == dep[d] # "rolled_back" /\ StableRevisions(d) # {}
    IN  /\ pc[p] = "plan_rollback"
        /\ \/ possible /\ Dispatch(p, "rollback_release", "await_rollback")
           \/ (LinkMayFail \/ ~possible) /\ FailThen(p, "plan_rollback") /\ UNCHANGED waits
        /\ UNCHANGED <<db, agent, tgt, todo, writing, crashes>>

(* PlanRollback needs another promoted revision; then the agent is told.   *)
PlanRollback(p) ==
    LET d == tgt[p]
        possible == dep[d] # "rolled_back" /\ StableRevisions(d) # {}
    IN  /\ pc[p] = "plan_rollback"
        /\ \/ possible /\ Dispatch(p, "rollback_release", "await_rollback")
           \/ (LinkMayFail \/ ~possible) /\ FailThen(p, "return") /\ UNCHANGED waits
        /\ UNCHANGED <<db, agent, tgt, todo, writing, crashes>>

(* Slip: the rollback is finalized whatever the agent answered. *)
RollbackAnswerAny(p) ==
    /\ pc[p] = "await_rollback"
    /\ \E o \in Outcomes : Await(p, o)
    /\ Goto(p, "finalize_rev")
    /\ UNCHANGED <<db, agent, place, writing, crashes>>

RollbackAnswer(p) ==
    /\ pc[p] = "await_rollback"
    /\ \E o \in Outcomes :
        /\ Await(p, o)
        /\ IF o = "done" THEN Goto(p, "finalize_rev") /\ UNCHANGED after
                         ELSE FailThen(p, "return")
    /\ UNCHANGED <<db, agent, tgt, todo, writing, crashes>>

FinalizeRollback(p) ==
    /\ \/ pc[p] = "finalize_rev" /\ SetRevision(tgt[p], "rolled_back") /\ Goto(p, "finalize_dep")
       \/ pc[p] = "finalize_dep" /\ SetDeployment(tgt[p], "rolled_back") /\ Goto(p, "return")
    /\ UNCHANGED <<agent, waits, place, writing, crashes>>

-----------------------------------------------------------------------------
(* Recovery when the agent reconnects *)

Recoverable == {"queued", "running", "candidate_ready"}

(* RecoverRunningDeploymentsForAgent lists the deployments once. *)
RecoverRunningDeployments(p) ==
    /\ p \in Recoverers /\ pc[p] = "idle"
    /\ todo' = [todo EXCEPT ![p] =
                  {[dep |-> d, status |-> dep[d]] : d \in {e \in Revisions : dep[e] \in Recoverable}}]
    /\ Goto(p, "next")
    /\ UNCHANGED <<db, agent, waits, tgt, after, writing, crashes>>

(* Slip: a deployment is marked without asking whether it is marked. *)
RecoverNextUnasked(p) ==
    /\ pc[p] = "next"
    /\ IF todo[p] = {}
       THEN Goto(p, "done") /\ UNCHANGED place
       ELSE \E e \in todo[p] :
                /\ todo' = [todo EXCEPT ![p] = @ \ {e}]
                /\ recovering' = recovering \cup {e.dep}
                /\ tgt' = [tgt EXCEPT ![p] = e.dep]
                /\ step' = [step EXCEPT ![p] = IF e.status = "queued" THEN 1 ELSE Len(Plan)]
                /\ pc' = [pc EXCEPT ![p] =
                            IF e.status = "queued" THEN "start" ELSE "recover_promote"]
                /\ UNCHANGED after
    /\ UNCHANGED <<db, agent, waits, writing, crashes>>

(* The next listed deployment, newest first; beginRecovery skips one that  *)
(* another recovery holds.                                                 *)
RecoverNext(p) ==
    /\ pc[p] = "next"
    /\ IF todo[p] = {}
       THEN Goto(p, "done") /\ UNCHANGED place
       ELSE LET e == CHOOSE x \in todo[p] : \A y \in todo[p] : y.dep <= x.dep
            IN  /\ todo' = [todo EXCEPT ![p] = @ \ {e}]
                /\ UNCHANGED after
                /\ IF e.dep \in recovering
                   THEN UNCHANGED <<control, tgt>>
                   ELSE /\ recovering' = recovering \cup {e.dep}
                        /\ tgt' = [tgt EXCEPT ![p] = e.dep]
                        /\ step' = [step EXCEPT ![p] = IF e.status = "queued" THEN 1 ELSE Len(Plan)]
                        /\ pc' = [pc EXCEPT ![p] =
                                    IF e.status = "queued" THEN "start" ELSE "recover_promote"]
    /\ UNCHANGED <<db, agent, waits, writing, crashes>>

(* recoverDeploymentAfterReconnect: promote; if the candidate is missing or *)
(* not ready, or the answer does not come, gate and promote once more.      *)
RecoveryDispatch(p) ==
    /\ \/ pc[p] = "recover_promote" /\ Dispatch(p, "promote_release", "await_promote")
       \/ pc[p] = "recover_gate" /\ Dispatch(p, "run_health_gate", "await_gate")
       \/ pc[p] = "recover_again" /\ Dispatch(p, "promote_release", "await_again")
       \/ /\ pc[p] \in {"recover_promote", "recover_gate", "recover_again"}
          /\ LinkMayFail
          /\ Goto(p, "return")
          /\ UNCHANGED <<waits, after>>
    /\ UNCHANGED <<db, agent, tgt, todo, writing, crashes>>

RecoveryAnswer(p) ==
    /\ pc[p] \in {"await_promote", "await_gate", "await_again"}
    /\ \E o \in Outcomes :
        /\ Await(p, o)
        /\ Goto(p, CASE pc[p] = "await_promote" /\ o \in {"notready", "cancelled"} -> "recover_gate"
                     [] pc[p] = "await_gate" /\ o = "done" -> "recover_again"
                     [] pc[p] # "await_gate" /\ o = "done" -> "finish"
                     [] OTHER -> "return")
    /\ UNCHANGED <<db, agent, place, writing, crashes>>

-----------------------------------------------------------------------------
(* Act: an operator promotes, rolls back or cancels a deployment in the    *)
(* database; no command is sent.                                           *)
Act(p) ==
    /\ p \in Operators /\ pc[p] = "idle"
    /\ \E d \in Revisions : dep[d] # "absent" /\ tgt' = [tgt EXCEPT ![p] = d]
    /\ \E l \in {"promote", "rollback", "cancel"} : Goto(p, l)
    /\ UNCHANGED <<db, agent, waits, after, todo, writing, crashes>>

(* The backend dies: every call under way is gone, and so are the waits    *)
(* and the recovery marks.  Commands already sent may still run.  The      *)
(* agent reconnects to the restarted backend, which recovers again.        *)
Crash ==
    /\ crashes < MaxCrashes
    /\ crashes' = crashes + 1
    /\ pc' = [p \in Procs |-> CASE p \in Recoverers -> "idle"
                                [] UnderWay(p) -> "done"
                                [] OTHER -> pc[p]]
    /\ todo' = [p \in Procs |-> {}]
    /\ writing' = {}
    /\ recovering' = {}
    /\ cmd' = [p \in Procs |-> NoCommand]
    /\ GiveUp(SentBy(Procs))
    /\ UNCHANGED <<db, agent, tgt, after, step>>

Rollout(p) ==
    \/ CheckTransition(p) \/ WriteTransition(p)
    \/ StartChecks(p) \/ RolloutStep(p) \/ RolloutAnswer(p) \/ ReadyReread(p)
    \/ promoteCandidateIfNeeded(p) \/ PromoteCandidate(p)
    \/ PlanRollback(p) \/ RollbackAnswer(p) \/ FinalizeRollback(p)
    \/ RecoverNext(p) \/ RecoveryDispatch(p) \/ RecoveryAnswer(p)

Init ==
    /\ dep = [d \in Revisions |-> "absent"]
    /\ rev = [d \in Revisions |-> "absent"]
    /\ promoted = {}
    /\ cand = [d \in Revisions |-> "none"]
    /\ traffic = NoTraffic
    /\ cache = EmptyCache
    /\ pc = [p \in Procs |-> "idle"]
    /\ writing = {}
    /\ tgt = [p \in Procs |-> None]
    /\ step = [p \in Procs |-> 1]
    /\ after = [p \in Procs |-> "return"]
    /\ cmd = [p \in Procs |-> NoCommand]
    /\ todo = [p \in Procs |-> {}]
    /\ recovering = {}
    /\ orphans = {}
    /\ crashes = 0

Next ==
    \/ \E d \in Revisions : Create(d)
    \/ \E p \in Procs : StartDeployment(p) \/ RecoverRunningDeployments(p) \/ Act(p)
    \/ \E p \in Procs : Rollout(p) \/ AgentRun(p)
    \/ \E c \in orphans : AgentRunLate(c)
    \/ Crash

(* A call under way is scheduled, the agent works, and it reconnects: its  *)
(* client dials until it succeeds.                                         *)
Fairness ==
    \A p \in Procs :
        WF_vars(Rollout(p)) /\ WF_vars(AgentRun(p)) /\ WF_vars(RecoverRunningDeployments(p))

Spec == Init /\ [][Next]_vars /\ Fairness

-----------------------------------------------------------------------------
(* Properties *)

PCs ==
    Transitions \cup {"idle", "done", "start", "step", "await", "ready_reread"} \cup
    {"finish", "finish_rev", "finish_dep", "plan_rollback", "await_rollback"} \cup
    {"finalize_rev", "finalize_dep", "next", "recover_promote", "recover_gate"} \cup
    {"recover_again", "await_promote", "await_gate", "await_again"}

(* Every variable stays in its range, and only a process at a checked      *)
(* transition is about to write one.                                       *)
TypeOK ==
    /\ dep \in [Revisions -> DeploymentStatusSet \cup {"absent"}]
    /\ rev \in [Revisions -> RevisionStatus \cup {"absent"}]
    /\ promoted \subseteq Revisions
    /\ cand \in [Revisions -> CandidateStates]
    /\ traffic \in TrafficRecords
    /\ cache \in Caches
    /\ pc \in [Procs -> PCs]
    /\ writing \in SUBSET {p \in Procs : pc[p] \in Transitions}
    /\ tgt \in [Procs -> OptRevision]
    /\ step \in [Procs -> 1..Len(Plan)]
    /\ after \in [Procs -> {"return", "plan_rollback"}]
    /\ cmd \in [Procs -> CommandsWaited \cup {NoCommand}]
    /\ todo \in [Procs -> SUBSET [dep : Revisions, status : Recoverable]]
    /\ recovering \subseteq Revisions
    /\ orphans \subseteq [type : Commands, dep : Revisions]
    /\ crashes \in 0..MaxCrashes

(* A deployment is shown as promoted only after its revision was, whatever *)
(* calls, recoveries, operators and crashes interleave: PromoteCandidate   *)
(* and Act write the revision first.                                       *)
PromotionOrder == \A d \in Revisions : dep[d] = "promoted" => d \in promoted

Recovers(p) == p \in Recoverers /\ pc[p] \notin {"idle", "next", "done"}

(* Two recoveries never work on the same deployment, and a recovery works  *)
(* only on one it has marked.                                              *)
RecoveryExclusive ==
    /\ \A p \in Procs : Recovers(p) => tgt[p] \in recovering
    /\ \A p, q \in Procs : Recovers(p) /\ Recovers(q) /\ tgt[p] = tgt[q] => p = q

Quiet == \A p \in Procs : ~UnderWay(p)

(* When the only call for a deployment has returned, the deployment and    *)
(* its revision agree and neither is left in the middle of a rollout.      *)
SettledTogether ==
    Quiet => \A d \in Revisions :
        \/ dep[d] \in {"absent", "queued"}
        \/ dep[d] \in {"promoted", "failed", "rolled_back"} /\ rev[d] = dep[d]

(* With rollouts one after the other, a deployment shown as rolled back    *)
(* has no traffic, whatever step of it or of a later rollout failed.       *)
RolledBackNotServing ==
    Quiet => \A d \in Revisions : dep[d] = "rolled_back" => traffic.active # d

(* When nothing is under way, every button the page of a deployment offers *)
(* works: the table lets both of its transitions through.                  *)
ButtonsWork ==
    Quiet => \A d \in Revisions : dep[d] # "absent" =>
        \A b \in ButtonsOffered(buildDeploymentOverview(dep[d], rev[d])) :
            ButtonAccepted(b, dep[d], rev[d])

(* What the page shows when nothing is under way is settled: deployment     *)
(* and revision agree, what was rolled back is not served, and the buttons  *)
(* work (failDeployment, FinalizeRollback, buildDeploymentOverview).        *)
RestsSettled == SettledTogether /\ RolledBackNotServing /\ ButtonsWork

(* Every StartDeployment call returns. *)
StartReturns == \A p \in Starters : pc[p] = "start" ~> pc[p] = "done"

(* At the moment a deployment is shown as promoted, the agent serves its   *)
(* revision; a command that timed out is to fail the deployment ("command  *)
(* execution timed out or failed").                                        *)
PromotedIsServed ==
    [][\A d \in Revisions : dep[d] # "promoted" /\ dep'[d] = "promoted" => traffic.active = d]_vars

(* One StartDeployment call executes a deployment's plan; another one is   *)
(* told that it has started ("expected no commands to be redispatched").   *)
RolloutExclusive ==
    \A p, q \in Starters :
        pc[p] = "await" /\ pc[q] = "await" /\ tgt[p] = tgt[q] => p = q

(* After a crash the recovery brings a deployment whose revision was       *)
(* promoted to the end ("expected deployment promoted after recovery").    *)
RecoveryCompletes ==
    \A d \in Revisions : rev[d] = "promoted" ~> dep[d] = "promoted"

(* The revision a rollback is recorded to have returned to is the one the  *)
(* agent has returned to ("expected rollback to rev_stable").              *)
RollbackRestoresPlanned ==
    \A p \in Procs : pc[p] = "finalize_rev" =>
        \E e \in StableRevisions(tgt[p]) :
            e = traffic.active /\ \A f \in StableRevisions(tgt[p]) : f <= e

-----------------------------------------------------------------------------
(* The refinement of DeploymentLifecycle: a deployment is worked on from    *)
(* the first checked transition of its rollout to the return of the call,   *)
(* and is live as soon as its own row says promoted, which comes last.      *)

WorkedOn(d) == \E p \in Procs : UnderWay(p) /\ tgt[p] = d /\ pc[p] # "start"

PhaseOf(d) ==
    CASE dep[d] = "absent" -> "absent"
      [] dep[d] = "promoted" -> "live"
      [] dep[d] \notin {"absent", "promoted"} /\ WorkedOn(d) -> "working"
      [] dep[d] = "queued" /\ ~WorkedOn(d) -> "waiting"
      [] dep[d] = "rolled_back" /\ ~WorkedOn(d) -> "back"
      [] OTHER -> "failed"

Lifecycle == INSTANCE DeploymentLifecycle WITH
    Deployments <- Revisions, Nobody <- None,
    phase <- [d \in Revisions |-> PhaseOf(d)], serving <- traffic.active

(* Every step of a rollout is a step of the lifecycle or none: whatever     *)
(* command or probe fails, rollouts that come one after the other, over a   *)
(* link that loses nothing, leave each deployment in one piece.             *)
ImplementsLifecycle == Lifecycle!LifeSpec

=============================================================================
