----------------------- MODULE RolloutExecution_proofs -----------------------
(***************************************************************************)
(* RolloutExecution for any number of deployments, calls, recoveries and   *)
(* operators.  PromotionOrder and RecoveryExclusive are about who may      *)
(* write what next, so they are proved of a strengthening that says which  *)
(* deployments the processes at a given label work on.  It needs the range *)
(* of few variables, but the domains of those that are updated.  For       *)
(* rollouts one after the other SerialInv says which statuses a deployment *)
(* has at each label, and AgentInv what the agent serves meanwhile; with   *)
(* them RolloutExecution implements DeploymentLifecycle.                   *)
(***************************************************************************)
EXTENDS RolloutExecution, TLAPS

Domains ==
    /\ dep = [d \in Revisions |-> dep[d]]
    /\ pc = [p \in Procs |-> pc[p]]
    /\ tgt = [p \in Procs |-> tgt[p]]
    /\ after \in [Procs -> {"return", "plan_rollback"}]
    /\ writing \subseteq {p \in Procs : pc[p] \in Transitions}

(* A process about to write a deployment as promoted works on one whose    *)
(* revision was written before.                                            *)
AboutToPromote == {"promote_end", "finish_dep"}
RevisionFirst == \A p \in Procs : pc[p] \in AboutToPromote => tgt[p] \in promoted

OrderInv == Domains /\ PromotionOrder /\ RevisionFirst /\ RecoveryExclusive

(* What Goto leaves alone: only p moves, and recovering only loses the     *)
(* target of a recovery that goes on to the next deployment.               *)
LEMMA GotoMoves ==
    ASSUME Domains, NEW p \in Procs, NEW l, Goto(p, l)
    PROVE  /\ pc' = [q \in Procs |-> pc'[q]]
           /\ \A q \in Procs : q # p => pc'[q] = pc[q]
           /\ \/ recovering' = recovering
              \/ p \in Recoverers /\ pc'[p] = "next" /\ recovering' = recovering \ {tgt[p]}
           /\ \/ pc'[p] = l
              \/ pc'[p] \in {"next", "done"}
              \/ l = "after" /\ pc'[p] = "plan_rollback"
              \/ l = "advance" /\ pc'[p] = "step"
<1> USE DEF Domains
<1>1. after[p] \in {"return", "plan_rollback"} OBVIOUS
<1> QED BY <1>1 DEF Goto, Resolve

(* A step of a working process that stays with its deployment. *)
LEMMA WorkStep ==
    ASSUME OrderInv, NEW p \in Procs, NEW l,
           pc[p] \notin {"idle", "next", "done"}, Goto(p, l),
           tgt' = tgt, writing' = writing \ {p},
           \/ UNCHANGED after
           \/ \E a \in {"return", "plan_rollback"} : after' = [after EXCEPT ![p] = a],
           promoted \subseteq promoted', dep' = [d \in Revisions |-> dep'[d]],
           PromotionOrder',
           l \in AboutToPromote => tgt[p] \in promoted'
    PROVE  OrderInv'
<1> USE DEF OrderInv
<1>1. /\ pc' = [q \in Procs |-> pc'[q]]
      /\ \A q \in Procs : q # p => pc'[q] = pc[q]
      /\ \/ recovering' = recovering
         \/ p \in Recoverers /\ pc'[p] = "next" /\ recovering' = recovering \ {tgt[p]}
      /\ pc'[p] \in AboutToPromote => tgt[p] \in promoted'
  BY GotoMoves DEF AboutToPromote
<1>2. after' \in [Procs -> {"return", "plan_rollback"}] BY DEF Domains
<1>3. Domains' BY <1>1, <1>2 DEF Domains
<1>4. RevisionFirst' BY <1>1 DEF RevisionFirst
<1>5. RecoveryExclusive' BY <1>1 DEF RecoveryExclusive, Recovers
<1> QED BY <1>3, <1>4, <1>5

(* Such a step that leaves the database alone and is not about to promote. *)
LEMMA PlainStep ==
    ASSUME OrderInv, NEW p \in Procs, NEW l,
           pc[p] \notin {"idle", "next", "done"} \cup Transitions, Goto(p, l),
           UNCHANGED <<dep, promoted, tgt, writing>>,
           \/ UNCHANGED after
           \/ \E a \in {"return", "plan_rollback"} : after' = [after EXCEPT ![p] = a],
           l \notin AboutToPromote
    PROVE  OrderInv'
<1>1. writing' = writing \ {p} BY DEF OrderInv, Domains
<1>2. dep' = [d \in Revisions |-> dep'[d]] /\ PromotionOrder' /\ promoted \subseteq promoted'
  BY DEF OrderInv, Domains, PromotionOrder
<1> QED BY <1>1, <1>2, WorkStep

(* Writing a status keeps the order of the two tables, unless it promotes  *)
(* a deployment whose revision was not promoted before.                    *)
LEMMA SetKeepsOrder ==
    ASSUME OrderInv, NEW d, NEW s,
           SetRevision(d, s) \/ (SetDeployment(d, s) /\ (s = "promoted" => d \in promoted))
    PROVE  /\ promoted \subseteq promoted' /\ dep' = [e \in Revisions |-> dep'[e]]
           /\ PromotionOrder'
BY DEF OrderInv, Domains, PromotionOrder, SetRevision, SetDeployment

LEMMA CheckTransition_Inv ==
    ASSUME OrderInv, NEW p \in Procs, CheckTransition(p) PROVE OrderInv'
<1>1. CASE writing' = writing \cup {p} /\ UNCHANGED control
  BY <1>1 DEF CheckTransition, OrderInv, Domains, PromotionOrder, RevisionFirst,
              RecoveryExclusive, Recovers, db, place, control
<1>2. CASE Goto(p, Transition[pc[p]].bad) /\ UNCHANGED writing
  <2>1. /\ pc[p] \in Transitions /\ p \notin writing
        /\ UNCHANGED <<dep, promoted, tgt, after>>
    BY <1>2 DEF CheckTransition, db, place
  <2>2. Transition[pc[p]].bad \notin AboutToPromote /\ pc[p] \notin {"idle", "next", "done"}
    BY <2>1 DEF Transition, Transitions, Move, AboutToPromote
  <2>3. dep' = [d \in Revisions |-> dep'[d]] /\ PromotionOrder' /\ promoted \subseteq promoted'
    BY <2>1 DEF OrderInv, Domains, PromotionOrder
  <2>4. writing' = writing \ {p} BY <1>2, <2>1
  <2> QED BY <1>2, <2>1, <2>2, <2>3, <2>4, WorkStep
<1> QED BY <1>1, <1>2 DEF CheckTransition

(* Only promote and promote_end write "promoted", the revision first. *)
LEMMA WriteTransition_Inv ==
    ASSUME OrderInv, NEW p \in Procs, WriteTransition(p) PROVE OrderInv'
<1> DEFINE t == Transition[pc[p]]
<1>1. /\ pc[p] \in Transitions /\ writing' = writing \ {p} /\ UNCHANGED <<tgt, after>>
      /\ IF t.table = "rev" THEN SetRevision(tgt[p], t.to) ELSE SetDeployment(tgt[p], t.to)
      /\ Goto(p, t.ok)
  BY DEF WriteTransition, place, OrderInv, Domains
<1>2. /\ pc[p] \notin {"idle", "next", "done"}
      /\ t.table # "rev" /\ t.to = "promoted" => pc[p] = "promote_end"
      /\ t.ok \in AboutToPromote => t.table = "rev" /\ t.to = "promoted"
  BY <1>1 DEF Transition, Transitions, Move, AboutToPromote
<1>3. pc[p] = "promote_end" => tgt[p] \in promoted
  BY DEF OrderInv, RevisionFirst, AboutToPromote
<1> HIDE DEF t
<1>4. /\ promoted \subseteq promoted' /\ dep' = [e \in Revisions |-> dep'[e]]
      /\ PromotionOrder'
  BY <1>1, <1>2, <1>3, SetKeepsOrder
<1>5. t.ok \in AboutToPromote => tgt[p] \in promoted'
  BY <1>1, <1>2 DEF SetRevision
<1> QED BY <1>1, <1>2, <1>4, <1>5, WorkStep

LEMMA PromoteCandidate_Inv ==
    ASSUME OrderInv, NEW p \in Procs, PromoteCandidate(p) \/ FinalizeRollback(p)
    PROVE  OrderInv'
<1>1. PICK s, l :
        /\ SetRevision(tgt[p], s) \/ (SetDeployment(tgt[p], s) /\ (s = "promoted" => pc[p] = "finish_dep"))
        /\ Goto(p, l)
        /\ l \in AboutToPromote => SetRevision(tgt[p], s) /\ s = "promoted"
  BY DEF PromoteCandidate, FinalizeRollback, AboutToPromote
<1>2. /\ pc[p] \in {"finish_rev", "finish_dep", "finalize_rev", "finalize_dep"}
      /\ UNCHANGED <<tgt, after, writing>>
  BY DEF PromoteCandidate, FinalizeRollback, place
<1>3. writing' = writing \ {p} BY <1>2 DEF OrderInv, Domains, Transitions
<1>4. pc[p] = "finish_dep" => tgt[p] \in promoted
  BY DEF OrderInv, RevisionFirst, AboutToPromote
<1>5. /\ promoted \subseteq promoted' /\ dep' = [e \in Revisions |-> dep'[e]]
      /\ PromotionOrder'
  BY <1>1, <1>4, SetKeepsOrder
<1>6. l \in AboutToPromote => tgt[p] \in promoted' BY <1>1 DEF SetRevision
<1> QED BY <1>1, <1>2, <1>3, <1>5, <1>6, WorkStep

(* The commands of a rollout, of a rollback and of a recovery. *)
LEMMA CommandStep_Inv ==
    ASSUME OrderInv, NEW p \in Procs,
           \/ StartChecks(p) \/ RolloutStep(p) \/ RolloutAnswer(p) \/ ReadyReread(p)
           \/ promoteCandidateIfNeeded(p) \/ PlanRollback(p) \/ RollbackAnswer(p)
           \/ RecoveryDispatch(p) \/ RecoveryAnswer(p)
    PROVE  OrderInv'
<1>1. ASSUME NEW l, Goto(p, l), l \notin AboutToPromote,
             pc[p] \notin {"idle", "next", "done"} \cup Transitions,
             UNCHANGED <<dep, promoted, tgt, writing>>,
             \/ UNCHANGED after
             \/ \E a \in {"return", "plan_rollback"} : after' = [after EXCEPT ![p] = a]
      PROVE  OrderInv'
  BY <1>1, PlainStep
<1> USE DEF db, place, AboutToPromote, Transitions
<1>2. CASE StartChecks(p) BY <1>1, <1>2 DEF StartChecks
<1>3. CASE RolloutStep(p) BY <1>1, <1>3 DEF RolloutStep, Dispatch, FailThen
<1>4. CASE RolloutAnswer(p) BY <1>1, <1>4 DEF RolloutAnswer, FailThen, OnSuccess
<1>5. CASE ReadyReread(p) BY <1>1, <1>5 DEF ReadyReread
<1>6. CASE promoteCandidateIfNeeded(p) BY <1>1, <1>6 DEF promoteCandidateIfNeeded
<1>7. CASE PlanRollback(p) BY <1>1, <1>7 DEF PlanRollback, Dispatch, FailThen
<1>8. CASE RollbackAnswer(p) BY <1>1, <1>8 DEF RollbackAnswer, FailThen
<1>9. CASE RecoveryDispatch(p) BY <1>1, <1>9 DEF RecoveryDispatch, Dispatch
<1>10. CASE RecoveryAnswer(p) BY <1>1, <1>10 DEF RecoveryAnswer
<1> QED BY <1>2, <1>3, <1>4, <1>5, <1>6, <1>7, <1>8, <1>9, <1>10

(* A call begins: its process was idle, so it recovered nothing before. *)
LEMMA Begins_Inv ==
    ASSUME OrderInv, NEW p \in Procs,
           StartDeployment(p) \/ RecoverRunningDeployments(p) \/ Act(p)
    PROVE  OrderInv'
<1>1. PICK l \in {"start", "next", "promote", "rollback", "cancel"} :
        Goto(p, l) /\ (p \in Recoverers => l = "next")
  BY ConstantsAssumption DEF StartDeployment, RecoverRunningDeployments, Act
<1>2. /\ pc[p] = "idle" /\ UNCHANGED <<dep, promoted, after, writing>>
      /\ \A q \in Procs : q # p => tgt'[q] = tgt[q]
      /\ tgt' = [q \in Procs |-> tgt'[q]]
  BY DEF StartDeployment, RecoverRunningDeployments, Act, db, OrderInv, Domains
<1>3. /\ pc' = [q \in Procs |-> pc'[q]] /\ pc'[p] = l /\ recovering' = recovering
      /\ \A q \in Procs : q # p => pc'[q] = pc[q]
  BY <1>1 DEF Goto, Resolve, OrderInv, Domains
<1>4. p \notin writing BY <1>2 DEF OrderInv, Domains, Transitions
<1>5. Domains' BY <1>2, <1>3, <1>4 DEF OrderInv, Domains
<1>6. PromotionOrder' BY <1>2 DEF OrderInv, PromotionOrder
<1>7. RevisionFirst' BY <1>2, <1>3 DEF OrderInv, RevisionFirst, AboutToPromote
<1>8. RecoveryExclusive' BY <1>1, <1>2, <1>3 DEF OrderInv, RecoveryExclusive, Recovers
<1> QED BY <1>5, <1>6, <1>7, <1>8 DEF OrderInv

(* The next deployment of a recovery is one that was not marked before. *)
LEMMA RecoverNext_Inv ==
    ASSUME OrderInv, NEW p \in Procs, RecoverNext(p) PROVE OrderInv'
<1>1. /\ pc[p] = "next" /\ UNCHANGED <<dep, promoted, after, writing>>
  BY DEF RecoverNext, db, place
<1>2. p \notin writing BY <1>1 DEF OrderInv, Domains, Transitions
<1>3. CASE todo[p] = {}
  <2>1. Goto(p, "done") /\ UNCHANGED tgt BY <1>3 DEF RecoverNext, place
  <2>2. /\ pc' = [q \in Procs |-> pc'[q]] /\ pc'[p] = "done" /\ recovering' = recovering
        /\ \A q \in Procs : q # p => pc'[q] = pc[q]
    BY <2>1 DEF Goto, Resolve, OrderInv, Domains
  <2> QED
    BY <1>1, <1>2, <2>1, <2>2 DEF OrderInv, Domains, PromotionOrder, RevisionFirst,
                                  AboutToPromote, RecoveryExclusive, Recovers
<1>4. CASE UNCHANGED <<control, tgt>>
  BY <1>1, <1>4 DEF OrderInv, Domains, PromotionOrder, RevisionFirst, RecoveryExclusive,
                    Recovers, control
<1>5. ASSUME NEW d, NEW l \in {"start", "recover_promote"}, d \notin recovering,
             recovering' = recovering \cup {d}, tgt' = [tgt EXCEPT ![p] = d],
             pc' = [pc EXCEPT ![p] = l]
      PROVE  OrderInv'
  <2>1. /\ pc' = [q \in Procs |-> pc'[q]] /\ tgt' = [q \in Procs |-> tgt'[q]]
        /\ pc'[p] = l /\ tgt'[p] = d
        /\ \A q \in Procs : q # p => pc'[q] = pc[q] /\ tgt'[q] = tgt[q]
    BY <1>5 DEF OrderInv, Domains
  <2>2. Domains' BY <1>1, <1>2, <2>1 DEF OrderInv, Domains
  <2>3. PromotionOrder' /\ RevisionFirst'
    BY <1>1, <2>1 DEF OrderInv, PromotionOrder, RevisionFirst, AboutToPromote
  <2>4. RecoveryExclusive'
    BY <1>5, <2>1 DEF OrderInv, RecoveryExclusive, Recovers
  <2> QED BY <2>2, <2>3, <2>4 DEF OrderInv
<1> QED
  <2>1. CASE todo[p] # {}
    <3> DEFINE e == CHOOSE x \in todo[p] : \A y \in todo[p] : y.dep <= x.dep
    <3>1. CASE e.dep \in recovering BY <1>4, <2>1, <3>1 DEF RecoverNext
    <3>2. CASE e.dep \notin recovering
      BY <1>5, <2>1, <3>2 DEF RecoverNext
    <3> QED BY <3>1, <3>2
  <2> QED BY <1>3, <2>1

(* The backend dies: nothing is under way any more. *)
LEMMA Crash_Inv == OrderInv /\ Crash => OrderInv'
<1> SUFFICES ASSUME OrderInv, Crash PROVE OrderInv'
  OBVIOUS
<1>1. /\ UNCHANGED <<dep, promoted, tgt, after>> /\ writing' = {} /\ recovering' = {}
      /\ pc' = [p \in Procs |-> pc'[p]]
      /\ \A p \in Procs : pc'[p] \in {"idle", "done"}
  BY DEF Crash, UnderWay, db
<1> QED
  BY <1>1 DEF OrderInv, Domains, PromotionOrder, RevisionFirst, AboutToPromote,
              RecoveryExclusive, Recovers, Transitions

LEMMA InitOrder == Init => OrderInv
BY DEF Init, OrderInv, Domains, PromotionOrder, RevisionFirst, AboutToPromote,
       RecoveryExclusive, Recovers

LEMMA NextOrder == OrderInv /\ [Next]_vars => OrderInv'
<1> SUFFICES ASSUME OrderInv, [Next]_vars PROVE OrderInv'
  OBVIOUS
<1>1. ASSUME NEW d \in Revisions, Create(d) PROVE OrderInv'
  BY <1>1 DEF Create, OrderInv, Domains, PromotionOrder, RevisionFirst, RecoveryExclusive,
              Recovers, control, place
<1>2. CASE Crash BY <1>2, Crash_Inv
<1>3. CASE \/ UNCHANGED vars \/ (\E p \in Procs : AgentRun(p))
           \/ (\E c \in orphans : AgentRunLate(c))
  BY <1>3 DEF AgentRun, AgentRunLate, OrderInv, Domains, PromotionOrder, RevisionFirst,
              RecoveryExclusive, Recovers, vars, db, control, place
<1>4. ASSUME NEW p \in Procs, Rollout(p) PROVE OrderInv'
  BY <1>4, CheckTransition_Inv, WriteTransition_Inv, PromoteCandidate_Inv, CommandStep_Inv,
     RecoverNext_Inv DEF Rollout
<1>5. ASSUME NEW p \in Procs, StartDeployment(p) \/ RecoverRunningDeployments(p) \/ Act(p)
      PROVE  OrderInv'
  BY <1>5, Begins_Inv
<1> QED BY <1>1, <1>2, <1>3, <1>4, <1>5 DEF Next

LEMMA OrderInvariant == Spec => []OrderInv
BY InitOrder, NextOrder, PTL DEF Spec

(* A deployment is shown as promoted only after its revision was, however  *)
(* many calls, recoveries, operators and crashes interleave                *)
(* (PromoteCandidate and Act write the revision first).                    *)
THEOREM RowsInOrder == Spec => []PromotionOrder
<1>1. OrderInv => PromotionOrder BY DEF OrderInv
<1> QED BY <1>1, OrderInvariant, PTL

(* Two recoveries never work on the same deployment, however many agents   *)
(* reconnect and the backend crashes (beginRecovery, endRecovery).         *)
THEOREM RecoveriesApart == Spec => []RecoveryExclusive
<1>1. OrderInv => RecoveryExclusive BY DEF OrderInv
<1> QED BY <1>1, OrderInvariant, PTL

-----------------------------------------------------------------------------
(* Rollouts one after the other, without recoveries, operators and crashes *)
(* but with any loss of commands and failure of the agent: at every label  *)
(* the pair of statuses of the deployment worked on is one of a few, which *)
(* is why failDeployment and the transition table leave none in between.   *)

Serial == Overlap = FALSE /\ Recoverers = {} /\ Operators = {} /\ MaxCrashes = 0

Rest == {<<"queued", "queued">>, <<"queued", "artifact_ready">>} \cup
        {<<s, s>> : s \in {"promoted", "failed", "rolled_back"}}

Settled(d) == dep[d] = "absent" \/ <<dep[d], rev[d]>> \in Rest

Labels == {"start", "planned", "running", "step", "await", "applying", "ready"} \cup
          {"finish", "finish_rev", "finish_dep", "fail_dep", "fail_rev"} \cup
          {"plan_rollback", "await_rollback", "finalize_rev", "finalize_dep"}

(* The pairs at label l of a process at position i of the plan. *)
Pairs(l, i) ==
    CASE l = "start"   -> IF i = 1 THEN Rest ELSE {}
      [] l = "planned" -> IF i = 1 THEN {<<"queued", "queued">>, <<"queued", "artifact_ready">>} ELSE {}
      [] l = "running" -> IF i = 1 THEN {<<"queued", "planned">>} ELSE {}
      [] l \in {"step", "await"} ->
            IF i <= 2 THEN {<<"running", "planned">>}
            ELSE IF i = 3 THEN {<<"running", "applying">>} ELSE {<<"candidate_ready", "applying">>}
      [] l = "applying" -> IF i = 2 THEN {<<"running", "planned">>} ELSE {}
      [] l = "ready"    -> IF i = 3 THEN {<<"running", "applying">>} ELSE {}
      [] l \in {"finish", "finish_rev"} -> IF i = 4 THEN {<<"candidate_ready", "applying">>} ELSE {}
      [] l = "finish_dep" -> IF i = 4 THEN {<<"candidate_ready", "promoted">>} ELSE {}
      [] l = "fail_dep" -> {<<"running", "planned">>, <<"running", "applying">>} \cup
                           {<<"candidate_ready", "applying">>, <<"failed", "failed">>}
      [] l = "fail_rev" -> {<<"failed", "planned">>, <<"failed", "applying">>, <<"failed", "failed">>}
      [] l \in {"plan_rollback", "await_rollback", "finalize_rev"} -> {<<"failed", "failed">>}
      [] l = "finalize_dep" -> {<<"failed", "rolled_back">>}
      [] OTHER -> {}

SerialDomains ==
    /\ Domains /\ crashes = 0
    /\ rev = [d \in Revisions |-> rev[d]]
    /\ step \in [Procs -> 1..4]
    /\ cmd = [p \in Procs |-> cmd[p]]
    /\ \A p \in Procs : "type" \in DOMAIN cmd[p]

(* The one process under way, and what it works on. *)
Works(p) ==
    /\ \A q \in Procs : UnderWay(q) => q = p
    /\ pc[p] \in Labels
    /\ tgt[p] \in Revisions
    /\ <<dep[tgt[p]], rev[tgt[p]]>> \in Pairs(pc[p], step[p])
    /\ pc[p] = "await" => cmd[p].type = Plan[step[p]]

SerialInv ==
    /\ SerialDomains
    /\ \A p \in Procs : (UnderWay(p) => Works(p)) /\ (pc[p] = "idle" => step[p] = 1)
    /\ \A d \in Revisions : Settled(d) \/ \E p \in Procs : UnderWay(p) /\ tgt[p] = d

(* The one process goes on, and changes no row but its own. *)
LEMMA SerialStep ==
    ASSUME Serial, SerialInv, NEW p \in Procs, UnderWay(p), SerialDomains', UNCHANGED tgt,
           \A q \in Procs : q # p => pc'[q] = pc[q] /\ step'[q] = step[q],
           \A d \in Revisions : d # tgt[p] => dep'[d] = dep[d] /\ rev'[d] = rev[d],
           \/ /\ pc'[p] \in Labels
              /\ <<dep'[tgt[p]], rev'[tgt[p]]>> \in Pairs(pc'[p], step'[p])
              /\ pc'[p] = "await" => cmd'[p].type = Plan[step'[p]]
           \/ pc'[p] = "done" /\ <<dep'[tgt[p]], rev'[tgt[p]]>> \in Rest
    PROVE  SerialInv'
<1> USE DEF SerialInv
<1>1. Works(p) /\ \A q \in Procs : q # p => ~UnderWay(q) BY DEF Works
<1>2. \A q \in Procs : q # p => ~UnderWay(q)' BY <1>1 DEF UnderWay
<1>3. \A d \in Revisions : d # tgt[p] => Settled(d)' BY <1>1 DEF Settled
<1>4. CASE /\ pc'[p] \in Labels
           /\ <<dep'[tgt[p]], rev'[tgt[p]]>> \in Pairs(pc'[p], step'[p])
           /\ pc'[p] = "await" => cmd'[p].type = Plan[step'[p]]
  <2>1. UnderWay(p)' BY <1>4 DEF UnderWay, Labels
  <2>2. Works(p)' BY <1>1, <1>2, <1>4 DEF Works
  <2>3. \A q \in Procs : pc'[q] = "idle" => step'[q] = 1 BY <1>4 DEF Labels
  <2> QED BY <1>2, <1>3, <2>1, <2>2, <2>3
<1>5. CASE pc'[p] = "done" /\ <<dep'[tgt[p]], rev'[tgt[p]]>> \in Rest
  <2>1. ~UnderWay(p)' BY <1>5 DEF UnderWay
  <2>2. Settled(tgt[p])' BY <1>5 DEF Settled
  <2>3. \A q \in Procs : pc'[q] = "idle" => step'[q] = 1 BY <1>5
  <2> QED BY <1>2, <1>3, <2>1, <2>2, <2>3
<1> QED BY <1>4, <1>5

(* The types a step of the one process keeps. *)
LEMMA SerialGoto ==
    ASSUME Serial, SerialInv, NEW p \in Procs, UnderWay(p), NEW l, Goto(p, l)
    PROVE  /\ pc' = [q \in Procs |-> pc'[q]] /\ step' \in [Procs -> 1..4]
           /\ \A q \in Procs : q # p => pc'[q] = pc[q] /\ step'[q] = step[q]
           /\ l \notin {"after", "advance", "return"} => pc'[p] = l /\ step'[p] = step[p]
           /\ l = "return" => pc'[p] = "done"
           /\ l = "after" /\ after[p] = "return" => pc'[p] = "done"
           /\ l = "after" /\ after[p] # "return" => pc'[p] = "plan_rollback"
           /\ l = "advance" /\ step[p] < 4 => pc'[p] = "step" /\ step'[p] = step[p] + 1
           /\ l = "advance" /\ step[p] = 4 => pc'[p] = "done"
<1>1. Len(Plan) = 4 BY DEF Plan
<1>2. p \notin Recoverers /\ after[p] \in {"return", "plan_rollback"} /\ step[p] \in 1..4
  BY DEF Serial, SerialInv, SerialDomains, Domains
<1>3. PICK n \in Nat : n = step[p] + 1 BY <1>2
<1>4. \/ step' = step
      \/ l = "advance" /\ step[p] < 4 /\ step' = [step EXCEPT ![p] = n]
  BY <1>1, <1>2, <1>3 DEF Goto, Resolve, SerialInv, SerialDomains
<1>5. step' \in [Procs -> 1..4] BY <1>2, <1>3, <1>4 DEF SerialInv, SerialDomains
<1>6. l = "advance" /\ step[p] < 4 => step'[p] = n
  BY <1>1, <1>3, <1>4, <1>2 DEF Goto, Resolve, SerialInv, SerialDomains
<1>7. l # "advance" => step'[p] = step[p] BY <1>4
<1>8. /\ pc' = [q \in Procs |-> pc'[q]]
      /\ \A q \in Procs : q # p => pc'[q] = pc[q]
      /\ l \notin {"after", "advance", "return"} => pc'[p] = l
      /\ l = "return" => pc'[p] = "done"
      /\ l = "after" /\ after[p] = "return" => pc'[p] = "done"
      /\ l = "after" /\ after[p] # "return" => pc'[p] = "plan_rollback"
      /\ l = "advance" /\ step[p] < 4 => pc'[p] = "step"
      /\ l = "advance" /\ step[p] = 4 => pc'[p] = "done"
  <2>1. PICK m : /\ m = Resolve(p, l)
                 /\ pc' = [pc EXCEPT ![p] = IF m = "return" THEN "done" ELSE m]
    BY <1>2 DEF Goto
  <2>2. /\ l \notin {"after", "advance"} => m = l
        /\ l = "after" => m = after[p]
        /\ l = "advance" /\ step[p] < 4 => m = "step"
        /\ l = "advance" /\ step[p] = 4 => m = "return"
    BY <1>1, <1>2, <2>1 DEF Resolve
  <2> QED BY <1>2, <2>1, <2>2 DEF SerialInv, SerialDomains, Domains
<1>9. \A q \in Procs : q # p => step'[q] = step[q] BY <1>4 DEF SerialInv, SerialDomains
<1> QED BY <1>3, <1>5, <1>6, <1>7, <1>8, <1>9

LEMMA SerialCheck ==
    ASSUME Serial, SerialInv, NEW p \in Procs, CheckTransition(p)
    PROVE  SerialInv'
<1>1. /\ UnderWay(p) /\ Works(p) /\ pc[p] \in {"planned", "running", "applying", "ready", "fail_dep", "fail_rev"}
  BY DEF CheckTransition, SerialInv, UnderWay, Works, Labels, Transitions
<1>2. writing' = writing \cup {p} /\ UNCHANGED control
  BY <1>1 DEF CheckTransition, Works, Pairs, Transition, Transitions, Move,
     canTransitionRevisionStatus, canTransitionDeploymentStatus,
     RevisionSuccessors, DeploymentSuccessors, RevisionStatus, DeploymentStatusSet, SerialInv
<1>3. UNCHANGED <<dep, rev, promoted, tgt, after, cmd, crashes, pc, step>> /\ pc[p] \in Transitions
  BY <1>2 DEF CheckTransition, db, place, waits, control
<1>4. SerialDomains' BY <1>2, <1>3 DEF SerialInv, SerialDomains, Domains
<1> QED BY <1>1, <1>3, <1>4, SerialStep DEF Works

(* A row is written and control goes on. *)
LEMMA SerialWrite ==
    ASSUME Serial, SerialInv, NEW p \in Procs, UnderWay(p), NEW s, NEW l, Goto(p, l),
           SetRevision(tgt[p], s) \/ SetDeployment(tgt[p], s),
           writing' = writing \ {p}, UNCHANGED <<tgt, after, cmd, crashes>>
    PROVE  /\ SerialDomains'
           /\ \A d \in Revisions : d # tgt[p] => dep'[d] = dep[d] /\ rev'[d] = rev[d]
           /\ SetRevision(tgt[p], s) => dep'[tgt[p]] = dep[tgt[p]] /\ rev'[tgt[p]] = s
           /\ SetDeployment(tgt[p], s) => dep'[tgt[p]] = s /\ rev'[tgt[p]] = rev[tgt[p]]
<1>1. tgt[p] \in Revisions BY DEF SerialInv, Works
<1>2. /\ dep' = [d \in Revisions |-> dep'[d]] /\ rev' = [d \in Revisions |-> rev'[d]]
      /\ \A d \in Revisions : d # tgt[p] => dep'[d] = dep[d] /\ rev'[d] = rev[d]
      /\ SetRevision(tgt[p], s) => dep'[tgt[p]] = dep[tgt[p]] /\ rev'[tgt[p]] = s
      /\ SetDeployment(tgt[p], s) => dep'[tgt[p]] = s /\ rev'[tgt[p]] = rev[tgt[p]]
  BY <1>1 DEF SetRevision, SetDeployment, SerialInv, SerialDomains, Domains
<1>3. /\ pc' = [q \in Procs |-> pc'[q]] /\ step' \in [Procs -> 1..4]
      /\ \A q \in Procs : q # p => pc'[q] = pc[q]
  BY SerialGoto
<1>4. Domains' BY <1>2, <1>3 DEF SerialInv, SerialDomains, Domains
<1>5. SerialDomains' BY <1>2, <1>3, <1>4 DEF SerialInv, SerialDomains
<1> QED BY <1>2, <1>5

LEMMA SerialWriteTransition ==
    ASSUME Serial, SerialInv, NEW p \in Procs, WriteTransition(p)
    PROVE  SerialInv'
<1> DEFINE t == Transition[pc[p]]
<1>1. /\ p \in writing /\ UnderWay(p) /\ Works(p) /\ after[p] \in {"return", "plan_rollback"}
      /\ pc[p] \in {"planned", "running", "applying", "ready", "fail_dep", "fail_rev"}
  BY DEF WriteTransition, SerialInv, SerialDomains, Domains, UnderWay, Works, Labels, Transitions
<1>2. /\ IF t.table = "rev" THEN SetRevision(tgt[p], t.to) ELSE SetDeployment(tgt[p], t.to)
      /\ Goto(p, t.ok) /\ writing' = writing \ {p} /\ UNCHANGED <<tgt, after, cmd, crashes>>
  BY DEF WriteTransition, place, waits
<1>3. /\ SerialDomains'
      /\ \A d \in Revisions : d # tgt[p] => dep'[d] = dep[d] /\ rev'[d] = rev[d]
      /\ SetRevision(tgt[p], t.to) => dep'[tgt[p]] = dep[tgt[p]] /\ rev'[tgt[p]] = t.to
      /\ SetDeployment(tgt[p], t.to) => dep'[tgt[p]] = t.to /\ rev'[tgt[p]] = rev[tgt[p]]
  <2> HIDE DEF t
  <2> QED BY <1>1, <1>2, SerialWrite
<1>4. \A q \in Procs : q # p => pc'[q] = pc[q] /\ step'[q] = step[q] BY <1>1, <1>2, SerialGoto
<1>5. step[p] \in 1..4 BY DEF SerialInv, SerialDomains
<1> SUFFICES \/ /\ pc'[p] \in Labels
                /\ <<dep'[tgt[p]], rev'[tgt[p]]>> \in Pairs(pc'[p], step'[p])
                /\ pc'[p] # "await"
             \/ pc'[p] = "done" /\ <<dep'[tgt[p]], rev'[tgt[p]]>> \in Rest
  BY <1>1, <1>2, <1>3, <1>4, SerialStep
<1> USE DEF Works, Pairs, Labels, Rest
<1>6. CASE pc[p] = "planned"
  <2>1. t = Move("rev", "planned", "running", "return") BY <1>6 DEF Transition, Transitions
  <2>2. Goto(p, "running") /\ rev'[tgt[p]] = "planned" /\ dep'[tgt[p]] = dep[tgt[p]]
    BY <1>2, <1>3, <2>1 DEF Move
  <2>3. pc'[p] = "running" /\ step'[p] = step[p] BY <1>1, <2>2, SerialGoto
  <2>4. dep[tgt[p]] = "queued" /\ step[p] = 1 BY <1>1, <1>6
  <2>5. <<dep'[tgt[p]], rev'[tgt[p]]>> = <<"queued", "planned">> BY <2>2, <2>4
  <2> QED BY <2>3, <2>4, <2>5
<1>7. CASE pc[p] = "running"
  <2>1. t = Move("dep", "running", "step", "return") BY <1>7 DEF Transition, Transitions
  <2>2. Goto(p, "step") /\ dep'[tgt[p]] = "running" /\ rev'[tgt[p]] = rev[tgt[p]]
    BY <1>2, <1>3, <2>1 DEF Move
  <2>3. pc'[p] = "step" /\ step'[p] = step[p] BY <1>1, <2>2, SerialGoto
  <2>4. rev[tgt[p]] = "planned" /\ step[p] = 1 BY <1>1, <1>7
  <2>5. <<dep'[tgt[p]], rev'[tgt[p]]>> = <<"running", "planned">> BY <2>2, <2>4
  <2> QED BY <2>3, <2>4, <2>5
<1>8. CASE pc[p] = "applying"
  <2>1. t = Move("rev", "applying", "advance", "return") BY <1>8 DEF Transition, Transitions
  <2>2. Goto(p, "advance") /\ rev'[tgt[p]] = "applying" /\ dep'[tgt[p]] = dep[tgt[p]]
    BY <1>2, <1>3, <2>1 DEF Move
  <2>3. step[p] = 2 /\ <<dep[tgt[p]], rev[tgt[p]]>> = <<"running", "planned">> BY <1>1, <1>8
  <2>4. pc'[p] = "step" /\ step'[p] = 3 BY <1>1, <2>2, <2>3, SerialGoto
  <2> QED BY <2>2, <2>3, <2>4
<1>9. CASE pc[p] = "ready"
  <2>1. t = Move("dep", "candidate_ready", "advance", "ready_reread") BY <1>9 DEF Transition, Transitions
  <2>2. Goto(p, "advance") /\ dep'[tgt[p]] = "candidate_ready" /\ rev'[tgt[p]] = rev[tgt[p]]
    BY <1>2, <1>3, <2>1 DEF Move
  <2>3. step[p] = 3 /\ <<dep[tgt[p]], rev[tgt[p]]>> = <<"running", "applying">> BY <1>1, <1>9
  <2>4. pc'[p] = "step" /\ step'[p] = 4 BY <1>1, <2>2, <2>3, SerialGoto
  <2> QED BY <2>2, <2>3, <2>4
<1>10. CASE pc[p] = "fail_dep"
  <2>1. t = Move("dep", "failed", "fail_rev", "fail_rev") BY <1>10 DEF Transition, Transitions
  <2>2. Goto(p, "fail_rev") /\ dep'[tgt[p]] = "failed" /\ rev'[tgt[p]] = rev[tgt[p]]
    BY <1>2, <1>3, <2>1 DEF Move
  <2>3. pc'[p] = "fail_rev" BY <1>1, <2>2, SerialGoto
  <2> QED BY <1>1, <1>10, <2>2, <2>3
<1>11. CASE pc[p] = "fail_rev"
  <2>1. t = Move("rev", "failed", "after", "after") BY <1>11 DEF Transition, Transitions
  <2>2. Goto(p, "after") /\ rev'[tgt[p]] = "failed" /\ dep'[tgt[p]] = dep[tgt[p]]
    BY <1>2, <1>3, <2>1 DEF Move
  <2>3. pc'[p] \in {"done", "plan_rollback"} BY <1>1, <2>2, SerialGoto
  <2> QED BY <1>1, <1>11, <2>2, <2>3
<1> QED BY <1>1, <1>6, <1>7, <1>8, <1>9, <1>10, <1>11

(* The two rows of a promotion and of a rollback. *)
LEMMA SerialPromote ==
    ASSUME Serial, SerialInv, NEW p \in Procs, PromoteCandidate(p) \/ FinalizeRollback(p)
    PROVE  SerialInv'
<1>1. /\ UnderWay(p) /\ Works(p) /\ p \notin writing /\ step[p] \in 1..4
      /\ pc[p] \in {"finish_rev", "finish_dep", "finalize_rev", "finalize_dep"}
  BY DEF PromoteCandidate, FinalizeRollback, SerialInv, SerialDomains, Domains, UnderWay, Transitions
<1>2. UNCHANGED <<tgt, after, cmd, crashes, writing>> /\ writing' = writing \ {p}
  BY <1>1 DEF PromoteCandidate, FinalizeRollback, place, waits
<1>3. ASSUME NEW s, NEW l, Goto(p, l), SetRevision(tgt[p], s) \/ SetDeployment(tgt[p], s),
             \/ /\ l \in {"finish_dep", "finalize_dep"} /\ SetRevision(tgt[p], s)
                /\ <<dep[tgt[p]], s>> \in Pairs(l, step[p])
             \/ /\ l = "return" \/ (l = "advance" /\ step[p] = 4)
                /\ SetDeployment(tgt[p], s) /\ <<s, rev[tgt[p]]>> \in Rest
      PROVE  SerialInv'
  <2>1. /\ SerialDomains'
        /\ \A d \in Revisions : d # tgt[p] => dep'[d] = dep[d] /\ rev'[d] = rev[d]
        /\ SetRevision(tgt[p], s) => dep'[tgt[p]] = dep[tgt[p]] /\ rev'[tgt[p]] = s
        /\ SetDeployment(tgt[p], s) => dep'[tgt[p]] = s /\ rev'[tgt[p]] = rev[tgt[p]]
    BY <1>1, <1>2, <1>3, SerialWrite
  <2>2. /\ \A q \in Procs : q # p => pc'[q] = pc[q] /\ step'[q] = step[q]
        /\ l \in Labels => pc'[p] = l /\ step'[p] = step[p]
        /\ l \notin Labels => pc'[p] = "done"
    BY <1>1, <1>3, SerialGoto DEF Labels
  <2>3. \/ /\ pc'[p] \in Labels /\ pc'[p] # "await"
           /\ <<dep'[tgt[p]], rev'[tgt[p]]>> \in Pairs(pc'[p], step'[p])
        \/ pc'[p] = "done" /\ <<dep'[tgt[p]], rev'[tgt[p]]>> \in Rest
    BY <1>3, <2>1, <2>2 DEF Labels
  <2> QED BY <1>1, <1>2, <2>1, <2>2, <2>3, SerialStep
<1> USE <1>1 DEF Works, Pairs, Labels, Rest
<1>4. CASE pc[p] = "finish_rev"
  <2>1. Goto(p, "finish_dep") /\ SetRevision(tgt[p], "promoted")
    BY <1>4 DEF PromoteCandidate, FinalizeRollback
  <2>2. dep[tgt[p]] = "candidate_ready" /\ step[p] = 4 BY <1>4
  <2> QED BY <1>3, <2>1, <2>2
<1>5. CASE pc[p] = "finish_dep"
  <2>1. Goto(p, "advance") /\ SetDeployment(tgt[p], "promoted")
    BY <1>5 DEF PromoteCandidate, FinalizeRollback
  <2>2. rev[tgt[p]] = "promoted" /\ step[p] = 4 BY <1>5
  <2> QED BY <1>3, <2>1, <2>2
<1>6. CASE pc[p] = "finalize_rev"
  <2>1. Goto(p, "finalize_dep") /\ SetRevision(tgt[p], "rolled_back")
    BY <1>6 DEF PromoteCandidate, FinalizeRollback
  <2>2. dep[tgt[p]] = "failed" BY <1>6
  <2> QED BY <1>3, <2>1, <2>2
<1>7. CASE pc[p] = "finalize_dep"
  <2>1. Goto(p, "return") /\ SetDeployment(tgt[p], "rolled_back")
    BY <1>7 DEF PromoteCandidate, FinalizeRollback
  <2>2. rev[tgt[p]] = "rolled_back" BY <1>7
  <2> QED BY <1>3, <2>1, <2>2
<1> QED BY <1>4, <1>5, <1>6, <1>7

(* No row is written: the pair is to be one of the next label. *)
LEMMA SerialPlain ==
    ASSUME Serial, SerialInv, NEW p \in Procs, UnderWay(p), pc[p] \notin Transitions,
           NEW l, Goto(p, l), UNCHANGED <<dep, rev, tgt, writing, crashes>>,
           \/ UNCHANGED after
           \/ \E a \in {"return", "plan_rollback"} : after' = [after EXCEPT ![p] = a],
           \/ UNCHANGED cmd
           \/ \E c : "type" \in DOMAIN c /\ cmd' = [cmd EXCEPT ![p] = c],
           \/ /\ l \in Labels \ {"await"} /\ <<dep[tgt[p]], rev[tgt[p]]>> \in Pairs(l, step[p])
           \/ /\ l = "await" /\ <<dep[tgt[p]], rev[tgt[p]]>> \in Pairs(l, step[p])
              /\ cmd'[p].type = Plan[step[p]]
           \/ /\ l = "advance" /\ step[p] < 4
              /\ <<dep[tgt[p]], rev[tgt[p]]>> \in Pairs("step", step[p] + 1)
           \/ /\ l = "return" \/ (l = "advance" /\ step[p] = 4)
              /\ <<dep[tgt[p]], rev[tgt[p]]>> \in Rest
    PROVE  SerialInv'
<1>1. /\ pc' = [q \in Procs |-> pc'[q]] /\ step' \in [Procs -> 1..4]
      /\ \A q \in Procs : q # p => pc'[q] = pc[q] /\ step'[q] = step[q]
      /\ l \in Labels => pc'[p] = l /\ step'[p] = step[p]
      /\ l = "return" => pc'[p] = "done"
      /\ l = "advance" /\ step[p] < 4 => pc'[p] = "step" /\ step'[p] = step[p] + 1
      /\ l = "advance" /\ step[p] = 4 => pc'[p] = "done"
  BY SerialGoto DEF Labels
<1>2. after' \in [Procs -> {"return", "plan_rollback"}]
  BY DEF SerialInv, SerialDomains, Domains
<1>3. writing' \subseteq {q \in Procs : pc'[q] \in Transitions}
  BY <1>1 DEF SerialInv, SerialDomains, Domains
<1>4. cmd' = [q \in Procs |-> cmd'[q]] /\ \A q \in Procs : "type" \in DOMAIN cmd'[q]
  BY DEF SerialInv, SerialDomains
<1>5. SerialDomains' BY <1>1, <1>2, <1>3, <1>4 DEF SerialInv, SerialDomains, Domains
<1>6. \/ /\ pc'[p] \in Labels
         /\ <<dep'[tgt[p]], rev'[tgt[p]]>> \in Pairs(pc'[p], step'[p])
         /\ pc'[p] = "await" => cmd'[p].type = Plan[step'[p]]
      \/ pc'[p] = "done" /\ <<dep'[tgt[p]], rev'[tgt[p]]>> \in Rest
  <2>1. CASE l \in Labels /\ <<dep[tgt[p]], rev[tgt[p]]>> \in Pairs(l, step[p]) /\ (l = "await" => cmd'[p].type = Plan[step[p]])
    BY <1>1, <2>1
  <2>2. CASE l = "advance" /\ step[p] < 4 /\ <<dep[tgt[p]], rev[tgt[p]]>> \in Pairs("step", step[p] + 1)
    BY <1>1, <2>2 DEF Labels
  <2>3. CASE (l = "return" \/ (l = "advance" /\ step[p] = 4)) /\ <<dep[tgt[p]], rev[tgt[p]]>> \in Rest
    BY <1>1, <2>3
  <2> QED BY <2>1, <2>2, <2>3 DEF Labels
<1> QED BY <1>1, <1>5, <1>6, SerialStep

(* What is known of p at a label that is no transition. *)
LEMMA AtLabel ==
    ASSUME Serial, SerialInv, NEW p \in Procs, pc[p] \in Labels \ Transitions
    PROVE  /\ UnderWay(p) /\ step[p] \in 1..4
           /\ <<dep[tgt[p]], rev[tgt[p]]>> \in Pairs(pc[p], step[p])
           /\ pc[p] = "await" => cmd[p].type = Plan[step[p]]
BY DEF SerialInv, SerialDomains, Works, UnderWay, Labels

LEMMA SerialLoop ==
    ASSUME Serial, SerialInv, NEW p \in Procs,
           StartChecks(p) \/ RolloutStep(p) \/ promoteCandidateIfNeeded(p)
    PROVE  SerialInv'
<1> USE DEF Pairs, Labels, Rest
<1>1. CASE StartChecks(p)
  <2>1. /\ pc[p] = "start" /\ UNCHANGED <<dep, rev, tgt, writing, crashes, after, cmd>>
    BY <1>1 DEF StartChecks, db, waits, place
  <2>2. /\ UnderWay(p) /\ step[p] \in 1..4 /\ pc[p] \notin Transitions
        /\ <<dep[tgt[p]], rev[tgt[p]]>> \in Rest /\ step[p] = 1
    BY <2>1, AtLabel DEF Transitions
  <2>3. CASE Goto(p, "return") BY <2>1, <2>2, <2>3, SerialPlain
  <2>4. CASE ~rolloutAlreadyStarted(dep[tgt[p]], rev[tgt[p]]) /\ Goto(p, "planned")
    <3>1. <<dep[tgt[p]], rev[tgt[p]]>> \in Pairs("planned", step[p])
      BY <2>2, <2>4 DEF rolloutAlreadyStarted
    <3> QED BY <2>1, <2>2, <2>4, <3>1, SerialPlain
  <2> QED BY <1>1, <2>3, <2>4 DEF StartChecks
<1>2. CASE RolloutStep(p)
  <2> DEFINE t == Plan[step[p]]
  <2>1. /\ pc[p] = "step" /\ UNCHANGED <<dep, rev, tgt, writing, crashes>>
    BY <1>2 DEF RolloutStep, db
  <2>2. /\ UnderWay(p) /\ step[p] \in 1..4 /\ pc[p] \notin Transitions
        /\ <<dep[tgt[p]], rev[tgt[p]]>> \in Pairs("step", step[p])
    BY <2>1, AtLabel DEF Transitions
  <2>3. dep[tgt[p]] \in {"running", "candidate_ready"} /\ (step[p] # 4 => dep[tgt[p]] = "running")
    BY <2>2
  <2>4. ~shouldSkipRolloutStep(tgt[p], t)
    BY <2>2, <2>3 DEF shouldSkipRolloutStep, Plan
  <2>5. CASE Dispatch(p, t, "await")
    <3>1. /\ cmd' = [cmd EXCEPT ![p] = [type |-> t, answer |-> "sent"]] /\ UNCHANGED after
          /\ Goto(p, "await")
      BY <2>5 DEF Dispatch
    <3>2. "type" \in DOMAIN [type |-> t, answer |-> "sent"] OBVIOUS
    <3>3. cmd'[p].type = t BY <3>1 DEF SerialInv, SerialDomains
    <3>4. <<dep[tgt[p]], rev[tgt[p]]>> \in Pairs("await", step[p]) BY <2>2
    <3> QED BY <2>1, <2>2, <3>1, <3>2, <3>3, <3>4, SerialPlain
  <2>6. CASE FailThen(p, "return") /\ UNCHANGED waits
    <3>1. <<dep[tgt[p]], rev[tgt[p]]>> \in Pairs("fail_dep", step[p]) BY <2>2
    <3>2. Goto(p, "fail_dep") /\ after' = [after EXCEPT ![p] = "return"] /\ UNCHANGED cmd
      BY <2>6 DEF FailThen, waits
    <3> QED BY <2>1, <2>2, <3>1, <3>2, SerialPlain
  <2> QED BY <1>2, <2>4, <2>5, <2>6 DEF RolloutStep
<1>3. CASE promoteCandidateIfNeeded(p)
  <2>1. /\ pc[p] = "finish" /\ UNCHANGED <<dep, rev, tgt, writing, crashes, after, cmd>>
    BY <1>3 DEF promoteCandidateIfNeeded, db, waits, place
  <2>2. /\ UnderWay(p) /\ step[p] = 4 /\ pc[p] \notin Transitions
        /\ <<dep[tgt[p]], rev[tgt[p]]>> = <<"candidate_ready", "applying">>
    BY <2>1, AtLabel DEF Transitions
  <2>3. Goto(p, "finish_rev") BY <1>3, <2>2 DEF promoteCandidateIfNeeded
  <2>4. <<dep[tgt[p]], rev[tgt[p]]>> \in Pairs("finish_rev", step[p]) BY <2>2
  <2> QED BY <2>1, <2>2, <2>3, <2>4, SerialPlain
<1> QED BY <1>1, <1>2, <1>3

LEMMA SerialAnswer ==
    ASSUME Serial, SerialInv, NEW p \in Procs,
           RolloutAnswer(p) \/ PlanRollback(p) \/ RollbackAnswer(p)
    PROVE  SerialInv'
<1> USE DEF Pairs, Labels, Rest
<1>1. /\ pc[p] \in {"await", "plan_rollback", "await_rollback"}
      /\ UNCHANGED <<dep, rev, tgt, writing, crashes>>
  BY DEF RolloutAnswer, PlanRollback, RollbackAnswer, db
<1>2. /\ UnderWay(p) /\ step[p] \in 1..4 /\ pc[p] \notin Transitions
      /\ <<dep[tgt[p]], rev[tgt[p]]>> \in Pairs(pc[p], step[p])
      /\ pc[p] = "await" => cmd[p].type = Plan[step[p]]
  BY <1>1, AtLabel DEF Transitions
<1>3. "type" \in DOMAIN NoCommand BY DEF NoCommand
<1>4. ASSUME NEW l, FailThen(p, l), l \in {"return", "plan_rollback"},
             \/ UNCHANGED cmd
             \/ \E c : "type" \in DOMAIN c /\ cmd' = [cmd EXCEPT ![p] = c]
      PROVE  SerialInv'
  <2>1. <<dep[tgt[p]], rev[tgt[p]]>> \in Pairs("fail_dep", step[p]) BY <1>1, <1>2
  <2>2. Goto(p, "fail_dep") /\ after' = [after EXCEPT ![p] = l] BY <1>4 DEF FailThen
  <2> QED BY <1>1, <1>2, <1>4, <2>1, <2>2, SerialPlain
<1>5. CASE RolloutAnswer(p)
  <2>1. PICK o \in Outcomes :
          /\ Await(p, o)
          /\ \/ Goto(p, OnSuccess(cmd[p].type)) /\ UNCHANGED after
             \/ FailThen(p, "plan_rollback")
    BY <1>5 DEF RolloutAnswer
  <2>2. cmd' = [cmd EXCEPT ![p] = NoCommand] BY <2>1 DEF Await
  <2>3. CASE Goto(p, OnSuccess(cmd[p].type)) /\ UNCHANGED after
    <3>1. pc[p] = "await" /\ cmd[p].type = Plan[step[p]] BY <1>2, <1>5 DEF RolloutAnswer
    <3>2. CASE step[p] = 1
      <4>1. Goto(p, "advance") BY <2>3, <3>1, <3>2 DEF OnSuccess, Plan
      <4>2. <<dep[tgt[p]], rev[tgt[p]]>> \in Pairs("step", step[p] + 1) BY <1>2, <3>1, <3>2
      <4>3. step[p] < 4 BY <3>2
      <4> HIDE DEF Pairs, Labels, Rest
      <4> QED BY <1>1, <1>2, <1>3, <2>2, <2>3, <4>1, <4>2, <4>3, SerialPlain
    <3>3. CASE step[p] = 2
      <4>1. Goto(p, "applying") BY <2>3, <3>1, <3>3 DEF OnSuccess, Plan
      <4>2. <<dep[tgt[p]], rev[tgt[p]]>> \in Pairs("applying", step[p]) BY <1>2, <3>1, <3>3
      <4> QED BY <1>1, <1>2, <1>3, <2>2, <2>3, <4>1, <4>2, SerialPlain
    <3>4. CASE step[p] = 3
      <4>1. Goto(p, "ready") BY <2>3, <3>1, <3>4 DEF OnSuccess, Plan
      <4>2. <<dep[tgt[p]], rev[tgt[p]]>> \in Pairs("ready", step[p]) BY <1>2, <3>1, <3>4
      <4> QED BY <1>1, <1>2, <1>3, <2>2, <2>3, <4>1, <4>2, SerialPlain
    <3>5. CASE step[p] = 4
      <4>1. Goto(p, "finish") BY <2>3, <3>1, <3>5 DEF OnSuccess, Plan
      <4>2. <<dep[tgt[p]], rev[tgt[p]]>> \in Pairs("finish", step[p]) BY <1>2, <3>1, <3>5
      <4> QED BY <1>1, <1>2, <1>3, <2>2, <2>3, <4>1, <4>2, SerialPlain
    <3> QED BY <1>2, <3>2, <3>3, <3>4, <3>5
  <2>4. CASE FailThen(p, "plan_rollback") BY <1>3, <1>4, <2>2, <2>4
  <2> QED BY <2>1, <2>3, <2>4
<1>6. CASE PlanRollback(p)
  <2>1. CASE Dispatch(p, "rollback_release", "await_rollback")
    <3>1. /\ Goto(p, "await_rollback") /\ UNCHANGED after
          /\ cmd' = [cmd EXCEPT ![p] = [type |-> "rollback_release", answer |-> "sent"]]
      BY <2>1 DEF Dispatch
    <3>2. "type" \in DOMAIN [type |-> "rollback_release", answer |-> "sent"] OBVIOUS
    <3>3. <<dep[tgt[p]], rev[tgt[p]]>> \in Pairs("await_rollback", step[p])
      BY <1>2, <1>6 DEF PlanRollback
    <3> QED BY <1>1, <1>2, <3>1, <3>2, <3>3, SerialPlain
  <2>2. CASE FailThen(p, "return") /\ UNCHANGED waits BY <1>4, <2>2 DEF waits
  <2> QED BY <1>6, <2>1, <2>2 DEF PlanRollback
<1>7. CASE RollbackAnswer(p)
  <2>1. cmd' = [cmd EXCEPT ![p] = NoCommand] BY <1>7 DEF RollbackAnswer, Await
  <2>2. CASE Goto(p, "finalize_rev") /\ UNCHANGED after
    <3>1. <<dep[tgt[p]], rev[tgt[p]]>> \in Pairs("finalize_rev", step[p])
      BY <1>2, <1>7 DEF RollbackAnswer
    <3> QED BY <1>1, <1>2, <1>3, <2>1, <2>2, <3>1, SerialPlain
  <2>3. CASE FailThen(p, "return") BY <1>3, <1>4, <2>1, <2>3
  <2> QED BY <1>7, <2>2, <2>3 DEF RollbackAnswer
<1> QED BY <1>5, <1>6, <1>7

(* A call begins when no other is under way; a deployment is created. *)
LEMMA SerialBegins ==
    ASSUME Serial, SerialInv, NEW p \in Procs,
           StartDeployment(p) \/ RecoverRunningDeployments(p) \/ Act(p)
    PROVE  SerialInv'
<1>1. /\ pc[p] = "idle" /\ p \in Starters /\ dep[Target[p]] # "absent" /\ Target[p] \in Revisions
      /\ \A q \in Procs : ~UnderWay(q)
      /\ tgt' = [tgt EXCEPT ![p] = Target[p]] /\ Goto(p, "start")
      /\ UNCHANGED <<dep, rev, after, writing, crashes, cmd>>
  BY ConstantsAssumption DEF StartDeployment, RecoverRunningDeployments, Act, Serial, db, waits
<1>2. pc' = [pc EXCEPT ![p] = "start"] /\ step' = step
  BY <1>1 DEF Goto, Resolve, SerialInv, SerialDomains
<1>3. /\ pc'[p] = "start" /\ tgt'[p] = Target[p] /\ step[p] = 1
      /\ \A q \in Procs : q # p => pc'[q] = pc[q]
      /\ p \notin writing
  BY <1>1, <1>2 DEF SerialInv, SerialDomains, Domains, Transitions
<1>4. Domains' BY <1>1, <1>2, <1>3 DEF SerialInv, SerialDomains, Domains
<1>5. SerialDomains' BY <1>1, <1>2, <1>4 DEF SerialInv, SerialDomains
<1>6. \A d \in Revisions : Settled(d) /\ Settled(d)' BY <1>1 DEF SerialInv, Settled
<1>7. UnderWay(p)' /\ \A q \in Procs : q # p => ~UnderWay(q)' BY <1>1, <1>3 DEF UnderWay
<1>8. Works(p)'
  BY <1>1, <1>2, <1>3, <1>6, <1>7 DEF Works, Labels, Pairs, Settled
<1>9. \A q \in Procs : pc'[q] = "idle" => step'[q] = 1 BY <1>2, <1>3 DEF SerialInv
<1> QED BY <1>5, <1>6, <1>7, <1>8, <1>9 DEF SerialInv

LEMMA SerialCreate ==
    ASSUME Serial, SerialInv, NEW d \in Revisions, Create(d) PROVE SerialInv'
<1>1. /\ dep[d] = "absent" /\ UNCHANGED <<tgt, after, writing, crashes, cmd, pc, step>>
      /\ dep' = [dep EXCEPT ![d] = "queued"]
      /\ \E s \in {"queued", "artifact_ready"} : rev' = [rev EXCEPT ![d] = s]
  BY DEF Create, waits, control, place
<1>2. /\ dep'[d] = "queued" /\ rev'[d] \in {"queued", "artifact_ready"}
      /\ \A e \in Revisions : e # d => dep'[e] = dep[e] /\ rev'[e] = rev[e]
  BY <1>1 DEF SerialInv, SerialDomains, Domains
<1>3. SerialDomains' BY <1>1 DEF SerialInv, SerialDomains, Domains
<1>4. \A p \in Procs : UnderWay(p)' = UnderWay(p) BY <1>1 DEF UnderWay
<1>5. \A e \in Revisions : Settled(e) => Settled(e)' BY <1>2 DEF Settled, Rest
<1>6. ASSUME NEW p \in Procs, UnderWay(p) PROVE Works(p)'
  <2>1. Works(p) BY <1>6 DEF SerialInv
  <2>2. tgt[p] # d
    BY <1>1, <2>1 DEF Works, Pairs, Rest
  <2> QED BY <1>1, <1>2, <1>4, <2>1, <2>2 DEF Works
<1> QED BY <1>1, <1>3, <1>4, <1>5, <1>6 DEF SerialInv

(* The agent's steps change no row; the answer keeps the command's type. *)
LEMMA SerialAgent ==
    ASSUME SerialInv,
           \/ UNCHANGED vars \/ (\E p \in Procs : AgentRun(p))
           \/ (\E c \in orphans : AgentRunLate(c))
    PROVE  SerialInv'
<1>1. /\ UNCHANGED <<dep, rev, tgt, after, writing, crashes, pc, step>>
      /\ \/ cmd' = cmd
         \/ \E p \in Procs : \E got : cmd' = [cmd EXCEPT ![p].answer = got]
  BY DEF AgentRun, AgentRunLate, vars, db, control, place, waits
<1>2. /\ cmd' = [p \in Procs |-> cmd'[p]]
      /\ \A p \in Procs : "type" \in DOMAIN cmd'[p] /\ cmd'[p].type = cmd[p].type
  BY <1>1 DEF SerialInv, SerialDomains
<1>3. SerialDomains' BY <1>1, <1>2 DEF SerialInv, SerialDomains, Domains
<1>4. \A p \in Procs : UnderWay(p)' = UnderWay(p) BY <1>1 DEF UnderWay
<1>5. \A d \in Revisions : Settled(d) => Settled(d)' BY <1>1 DEF Settled
<1>6. \A p \in Procs : Works(p) => Works(p)' BY <1>1, <1>2, <1>4 DEF Works
<1> QED BY <1>1, <1>3, <1>4, <1>5, <1>6 DEF SerialInv

LEMMA InitSerial == Init => SerialInv
BY DEF Init, SerialInv, SerialDomains, Domains, Settled, UnderWay, NoCommand

LEMMA NextSerial == Serial /\ SerialInv /\ [Next]_vars => SerialInv'
<1> SUFFICES ASSUME Serial, SerialInv, [Next]_vars PROVE SerialInv'
  OBVIOUS
<1>1. ~Crash BY DEF Crash, Serial, SerialInv, SerialDomains
<1>2. ASSUME NEW p \in Procs, Rollout(p) PROVE SerialInv'
  <2>1. CASE ReadyReread(p) \/ RecoverNext(p) \/ RecoveryDispatch(p) \/ RecoveryAnswer(p)
    BY <2>1 DEF ReadyReread, RecoverNext, RecoveryDispatch, RecoveryAnswer, SerialInv,
       UnderWay, Works, Labels
  <2> QED
    BY <1>2, <2>1, SerialCheck, SerialWriteTransition, SerialLoop, SerialAnswer, SerialPromote
       DEF Rollout
<1> QED
  BY <1>1, <1>2, SerialBegins, SerialCreate, SerialAgent DEF Next

(* Rollouts that come one after the other leave no deployment between two  *)
(* statuses and no button that would be refused, for any number of them,   *)
(* any loss of commands and any failure of the agent (failDeployment,      *)
(* FinalizeRollback, buildDeploymentDetail).                               *)
THEOREM SerialRests ==
    ASSUME Serial PROVE Spec => [](SettledTogether /\ ButtonsWork)
<1>1. SerialInv => SettledTogether
  BY DEF SerialInv, SettledTogether, Settled, Quiet, Rest
<1>2. SerialInv => ButtonsWork
  <2> SUFFICES ASSUME SerialInv, Quiet, NEW d \in Revisions, dep[d] # "absent",
                      NEW b \in ButtonsOffered(buildDeploymentOverview(dep[d], rev[d]))
               PROVE  ButtonAccepted(b, dep[d], rev[d])
    BY DEF ButtonsWork
  <2>1. <<dep[d], rev[d]>> \in Rest BY DEF SerialInv, Settled, Quiet
  <2>2. \/ dep[d] = "queued" /\ b = "cancel"
        \/ dep[d] = "promoted" /\ rev[d] = "promoted" /\ b = "rollback"
    BY <2>1 DEF Rest, ButtonsOffered, buildDeploymentOverview
  <2> QED
    BY <2>2 DEF ButtonAccepted, StatusesAsked, canTransitionDeploymentStatus,
       canTransitionRevisionStatus, RevisionSuccessors, DeploymentSuccessors,
       RevisionStatus, DeploymentStatusSet
<1>3. Init => SerialInv BY InitSerial
<1>4. SerialInv /\ [Next]_vars => SerialInv' BY NextSerial
<1> QED BY <1>1, <1>2, <1>3, <1>4, PTL DEF Spec

-----------------------------------------------------------------------------
(* Over a link that loses nothing, what the agent serves is what the rows  *)
(* say: the records the agent keeps only name deployments that are live    *)
(* or about to be, so that a rollback ends at a live one.                  *)

Reliable == Serial /\ LinkMayFail = FALSE

LiveOnes == {d \in Revisions : dep[d] = "promoted"}
LiveOrNone == LiveOnes \cup {None}

(* A rollout whose candidate the agent has promoted and that is not shown  *)
(* as promoted yet, and one that the agent has rolled back.                *)
Promoting(p) ==
    \/ pc[p] \in {"finish", "finish_rev", "finish_dep"}
    \/ pc[p] = "await" /\ step[p] = 4 /\ cmd[p].answer = "done"

RolledBack(p) ==
    \/ pc[p] \in {"finalize_rev", "finalize_dep"}
    \/ pc[p] = "await_rollback" /\ cmd[p].answer = "done"

(* A command is waited for, or there is none. *)
LinkHolds ==
    /\ orphans = {}
    /\ \A p \in Procs :
         /\ cmd[p] = [type |-> cmd[p].type, answer |-> cmd[p].answer]
         /\ cmd[p].answer \in Verdicts \cup {"sent", "none"}
         /\ cmd[p].answer # "none" => pc[p] \in {"await", "await_rollback"}
         /\ pc[p] = "await_rollback" => cmd[p].type = "rollback_release"

RecordsLive ==
    /\ traffic = [active |-> traffic.active, prev |-> traffic.prev]
    /\ cache = [current |-> cache.current, prev |-> cache.prev]
    /\ cache.prev \in LiveOrNone
    /\ \A d \in Revisions : rev[d] = "promoted" => cache.current # None
    /\ cache.current \in LiveOrNone \/ \E p \in Procs : Promoting(p) /\ cache.current = tgt[p]
    /\ traffic.active \in LiveOrNone \/ traffic.prev \in LiveOrNone
    /\ \A d \in Revisions : dep[d] = "rolled_back" => traffic.active # d

(* What a rollout relies on when it writes down how it ended. *)
Relies(p) ==
    /\ Promoting(p) => traffic.active = tgt[p] /\ cache.current = tgt[p]
    /\ pc[p] = "await_rollback" => cache.current \in LiveOnes
    /\ RolledBack(p) => traffic.active \in LiveOnes

AgentInv == LinkHolds /\ RecordsLive /\ \A p \in Procs : Relies(p)

(* What a step of rollout p does to the rows and to its own control: it    *)
(* writes a row as promoted or rolled back only after the agent did it.    *)
OwnRow(p, d) ==
    /\ dep[d] = "promoted" => dep'[d] = "promoted"
    /\ rev'[d] = "promoted" => rev[d] = "promoted" \/ Promoting(p)
    /\ dep'[d] = "rolled_back" => dep[d] = "rolled_back" \/ RolledBack(p)
    /\ Promoting(p) => Promoting(p)' \/ dep'[d] = "promoted"
    /\ dep'[d] = "promoted" => dep[d] = "promoted" \/ Promoting(p)

OwnControl(p, d) ==
    /\ Promoting(p)' => Promoting(p)
    /\ RolledBack(p)' => RolledBack(p)
    /\ pc'[p] = "await_rollback" => pc[p] = "plan_rollback" /\ StableRevisions(d) # {}
    /\ pc'[p] # "idle" /\ (pc[p] # "start" => pc'[p] # "start")
    /\ pc[p] = "start" => dep' = dep /\ (pc'[p] = "done" \/ (pc'[p] = "planned" /\ dep[d] = "queued"))
    /\ pc[p] # "start" /\ pc'[p] = "done" => dep'[d] \in {"promoted", "failed", "rolled_back"}

Effect(p) ==
    /\ UNCHANGED <<traffic, cache, orphans, tgt>>
    /\ \A q \in Procs : q # p => pc'[q] = pc[q] /\ step'[q] = step[q] /\ cmd'[q] = cmd[q]
    /\ \A d \in Revisions : d # tgt[p] => dep'[d] = dep[d] /\ rev'[d] = rev[d]
    /\ OwnRow(p, tgt[p]) /\ OwnControl(p, tgt[p])
    /\ LinkHolds'

(* A step that writes no row, receives no answer and sends no command. *)
LEMMA QuietEffect ==
    ASSUME Reliable, SerialInv, AgentInv, NEW p \in Procs,
           StartChecks(p) \/ CheckTransition(p) \/ promoteCandidateIfNeeded(p)
    PROVE  Effect(p)
<1>1. /\ UNCHANGED <<traffic, cache, orphans, tgt, dep, rev, cmd>>
      /\ UnderWay(p) /\ Works(p) /\ Serial /\ pc[p] \notin {"await", "await_rollback"} /\ step[p] \in 1..4
  BY DEF StartChecks, CheckTransition, promoteCandidateIfNeeded, db, agent, waits, place, Reliable,
         SerialInv, SerialDomains, UnderWay, Transitions
<1>2. ASSUME \A q \in Procs : q # p => pc'[q] = pc[q] /\ step'[q] = step[q],
             pc'[p] \notin {"await", "await_rollback"},
             OwnRow(p, tgt[p]), OwnControl(p, tgt[p])
      PROVE  Effect(p)
  <2>1. LinkHolds' BY <1>1, <1>2 DEF AgentInv, LinkHolds
  <2> QED BY <1>1, <1>2, <2>1 DEF Effect
<1>3. cmd[p].answer = "none" BY <1>1 DEF AgentInv, LinkHolds
<1> USE DEF OwnRow, OwnControl, Promoting, RolledBack
<1>4. CASE StartChecks(p)
  <2>1. pc[p] = "start" BY <1>4 DEF StartChecks
  <2>2. CASE Goto(p, "return")
    <3>1. pc'[p] = "done" /\ \A q \in Procs : q # p => pc'[q] = pc[q] /\ step'[q] = step[q]
      BY <1>1, <2>2, SerialGoto
    <3> QED BY <1>1, <1>2, <2>1, <3>1
  <2>3. CASE ~rolloutAlreadyStarted(dep[tgt[p]], rev[tgt[p]]) /\ Goto(p, "planned")
    <3>1. pc'[p] = "planned" /\ \A q \in Procs : q # p => pc'[q] = pc[q] /\ step'[q] = step[q]
      BY <1>1, <2>3, SerialGoto
    <3>2. dep[tgt[p]] = "queued"
      BY <1>1, <2>1, <2>3 DEF Works, Pairs, Rest, rolloutAlreadyStarted
    <3> QED BY <1>1, <1>2, <2>1, <3>1, <3>2
  <2> QED BY <1>4, <2>2, <2>3 DEF StartChecks
<1>5. CASE CheckTransition(p)
  <2>1. pc[p] \in {"planned", "running", "applying", "ready", "fail_dep", "fail_rev"}
    BY <1>1, <1>5 DEF CheckTransition, Works, Labels, Transitions
  <2>2. UNCHANGED control
    BY <1>1, <1>5, <2>1 DEF CheckTransition, Works, Pairs, Transition, Transitions, Move,
       canTransitionRevisionStatus, canTransitionDeploymentStatus,
       RevisionSuccessors, DeploymentSuccessors, RevisionStatus, DeploymentStatusSet
  <2>3. pc' = pc /\ step' = step BY <2>2 DEF control
  <2> QED BY <1>1, <1>2, <2>1, <2>3
<1>6. CASE promoteCandidateIfNeeded(p)
  <2>1. pc[p] = "finish" BY <1>6 DEF promoteCandidateIfNeeded
  <2>2. <<dep[tgt[p]], rev[tgt[p]]>> = <<"candidate_ready", "applying">>
    BY <1>1, <2>1 DEF Works, Pairs
  <2>3. Goto(p, "finish_rev") BY <1>6, <2>2 DEF promoteCandidateIfNeeded
  <2>4. pc'[p] = "finish_rev" /\ \A q \in Procs : q # p => pc'[q] = pc[q] /\ step'[q] = step[q]
    BY <1>1, <2>3, SerialGoto
  <2> QED BY <1>1, <1>2, <2>1, <2>4
<1> QED BY <1>4, <1>5, <1>6

(* A step that writes a row. *)
LEMMA WriteEffect ==
    ASSUME Reliable, SerialInv, AgentInv, NEW p \in Procs,
           WriteTransition(p) \/ PromoteCandidate(p) \/ FinalizeRollback(p)
    PROVE  Effect(p)
<1>1. /\ UNCHANGED <<traffic, cache, orphans, tgt, after, cmd, crashes>> /\ writing' = writing \ {p}
      /\ UnderWay(p) /\ Works(p) /\ Serial /\ step[p] \in 1..4 /\ after[p] \in {"return", "plan_rollback"}
      /\ pc[p] \in {"planned", "running", "applying", "ready", "fail_dep", "fail_rev"} \cup
                   {"finish_rev", "finish_dep", "finalize_rev", "finalize_dep"}
  <2>1. /\ UNCHANGED <<traffic, cache, orphans, tgt, after, cmd, crashes>>
        /\ Serial /\ step[p] \in 1..4 /\ after[p] \in {"return", "plan_rollback"}
    BY DEF WriteTransition, PromoteCandidate, FinalizeRollback, agent, waits, place, Reliable,
           SerialInv, SerialDomains, Domains
  <2>2. CASE WriteTransition(p)
    <3>1. p \in writing /\ writing' = writing \ {p} BY <2>2 DEF WriteTransition
    <3>2. pc[p] \in Transitions BY <3>1 DEF SerialInv, SerialDomains, Domains
    <3>3. UnderWay(p) BY <3>2 DEF Transitions, UnderWay
    <3>4. Works(p) BY <3>3 DEF SerialInv
    <3>5. pc[p] \in {"planned", "running", "applying", "ready", "fail_dep", "fail_rev"}
      BY <3>2, <3>4 DEF Works, Labels, Transitions
    <3> QED BY <2>1, <3>1, <3>3, <3>4, <3>5
  <2>3. CASE PromoteCandidate(p) \/ FinalizeRollback(p)
    <3>1. pc[p] \in {"finish_rev", "finish_dep", "finalize_rev", "finalize_dep"} /\ writing' = writing
      BY <2>3 DEF PromoteCandidate, FinalizeRollback
    <3>2. UnderWay(p) /\ p \notin writing BY <3>1 DEF UnderWay, SerialInv, SerialDomains, Domains, Transitions
    <3>3. Works(p) BY <3>2 DEF SerialInv
    <3> QED BY <2>1, <3>1, <3>2, <3>3
  <2> QED BY <2>2, <2>3
<1>2. cmd[p].answer = "none" BY <1>1 DEF AgentInv, LinkHolds
<1>3. ASSUME NEW s, NEW l, Goto(p, l), l \notin {"await", "await_rollback", "plan_rollback"},
             SetRevision(tgt[p], s) \/ SetDeployment(tgt[p], s),
             /\ \A q \in Procs : q # p => pc'[q] = pc[q] /\ step'[q] = step[q]
             /\ \A d \in Revisions : d # tgt[p] => dep'[d] = dep[d] /\ rev'[d] = rev[d]
             /\ SetRevision(tgt[p], s) => dep'[tgt[p]] = dep[tgt[p]] /\ rev'[tgt[p]] = s
             /\ SetDeployment(tgt[p], s) => dep'[tgt[p]] = s /\ rev'[tgt[p]] = rev[tgt[p]]
             => /\ OwnRow(p, tgt[p]) /\ OwnControl(p, tgt[p])
                /\ pc'[p] \notin {"await", "await_rollback"}
      PROVE  Effect(p)
  <2>1. /\ \A d \in Revisions : d # tgt[p] => dep'[d] = dep[d] /\ rev'[d] = rev[d]
        /\ SetRevision(tgt[p], s) => dep'[tgt[p]] = dep[tgt[p]] /\ rev'[tgt[p]] = s
        /\ SetDeployment(tgt[p], s) => dep'[tgt[p]] = s /\ rev'[tgt[p]] = rev[tgt[p]]
    BY <1>1, <1>3, SerialWrite
  <2>2. \A q \in Procs : q # p => pc'[q] = pc[q] /\ step'[q] = step[q] BY <1>1, <1>3, SerialGoto
  <2>3. OwnRow(p, tgt[p]) /\ OwnControl(p, tgt[p]) /\ pc'[p] \notin {"await", "await_rollback"}
    BY <1>3, <2>1, <2>2
  <2>4. LinkHolds' BY <1>1, <1>2, <2>2, <2>3 DEF AgentInv, LinkHolds
  <2> QED BY <1>1, <2>1, <2>2, <2>3, <2>4 DEF Effect
<1> USE DEF OwnRow, OwnControl, Promoting, RolledBack
<1>4. ASSUME WriteTransition(p) PROVE Effect(p)
  <2> DEFINE t == Transition[pc[p]]
  <2>1. /\ IF t.table = "rev" THEN SetRevision(tgt[p], t.to) ELSE SetDeployment(tgt[p], t.to)
        /\ Goto(p, t.ok)
    BY <1>4 DEF WriteTransition
  <2>2. /\ pc[p] \in {"planned", "running", "applying", "ready", "fail_dep", "fail_rev"}
    BY <1>1, <1>4 DEF WriteTransition, SerialInv, SerialDomains, Domains, Transitions
  <2>3. /\ t.to \in {"planned", "running", "applying", "candidate_ready", "failed"}
        /\ t.ok = CASE pc[p] = "planned" -> "running" [] pc[p] = "running" -> "step"
                    [] pc[p] = "fail_dep" -> "fail_rev" [] pc[p] = "fail_rev" -> "after"
                    [] OTHER -> "advance"
    BY <2>2 DEF Transition, Transitions, Move
  <2>4. /\ dep[tgt[p]] # "promoted" /\ (pc[p] = "fail_rev" => dep[tgt[p]] = "failed")
        /\ (pc[p] \in {"applying", "ready"} => step[p] < 4)
    BY <1>1, <2>2 DEF Works, Pairs
  <2>6. pc[p] = "fail_rev" => t.table = "rev" BY DEF Transition, Transitions, Move
  <2>7. t.ok = "advance" => step[p] < 4 BY <2>2, <2>3, <2>4
  <2>5. /\ t.ok # "advance" /\ t.ok # "after" => pc'[p] = t.ok
        /\ t.ok = "after" => pc'[p] \in {"done", "plan_rollback"}
        /\ t.ok = "advance" => pc'[p] = "step"
    BY <1>1, <2>1, <2>2, <2>3, <2>7, SerialGoto
  <2> HIDE DEF t
  <2> QED BY <1>1, <1>2, <1>3, <2>1, <2>2, <2>3, <2>4, <2>5, <2>6
<1>5. CASE pc[p] = "finish_rev" /\ PromoteCandidate(p)
  <2>1. Goto(p, "finish_dep") /\ SetRevision(tgt[p], "promoted") BY <1>5 DEF PromoteCandidate
  <2>2. pc'[p] = "finish_dep" BY <1>1, <2>1, SerialGoto
  <2>3. dep[tgt[p]] = "candidate_ready" BY <1>1, <1>5 DEF Works, Pairs
  <2> QED BY <1>1, <1>2, <1>3, <1>5, <2>1, <2>2, <2>3
<1>6. CASE pc[p] = "finish_dep" /\ PromoteCandidate(p)
  <2>1. Goto(p, "advance") /\ SetDeployment(tgt[p], "promoted") BY <1>6 DEF PromoteCandidate
  <2>2. step[p] = 4 BY <1>1, <1>6 DEF Works, Pairs
  <2>3. pc'[p] = "done" BY <1>1, <2>1, <2>2, SerialGoto
  <2>4. rev[tgt[p]] = "promoted" BY <1>1, <1>6 DEF Works, Pairs
  <2> QED BY <1>1, <1>2, <1>3, <1>6, <2>1, <2>3, <2>4
<1>7. CASE pc[p] = "finalize_rev" /\ FinalizeRollback(p)
  <2>1. Goto(p, "finalize_dep") /\ SetRevision(tgt[p], "rolled_back") BY <1>7 DEF FinalizeRollback
  <2>2. pc'[p] = "finalize_dep" BY <1>1, <2>1, SerialGoto
  <2>3. dep[tgt[p]] = "failed" BY <1>1, <1>7 DEF Works, Pairs
  <2> QED BY <1>1, <1>2, <1>3, <1>7, <2>1, <2>2, <2>3
<1>8. CASE pc[p] = "finalize_dep" /\ FinalizeRollback(p)
  <2>1. Goto(p, "return") /\ SetDeployment(tgt[p], "rolled_back") BY <1>8 DEF FinalizeRollback
  <2>2. pc'[p] = "done" BY <1>1, <2>1, SerialGoto
  <2>3. dep[tgt[p]] = "failed" /\ rev[tgt[p]] = "rolled_back" BY <1>1, <1>8 DEF Works, Pairs
  <2> QED BY <1>1, <1>2, <1>3, <1>8, <2>1, <2>2, <2>3
<1> QED BY <1>4, <1>5, <1>6, <1>7, <1>8 DEF PromoteCandidate, FinalizeRollback

(* A command is sent, or its answer received. *)
LEMMA CommandEffect ==
    ASSUME Reliable, SerialInv, AgentInv, NEW p \in Procs,
           RolloutStep(p) \/ RolloutAnswer(p) \/ PlanRollback(p) \/ RollbackAnswer(p)
    PROVE  Effect(p)
<1>1. /\ UNCHANGED <<traffic, cache, tgt, dep, rev>>
      /\ pc[p] \in {"step", "await", "plan_rollback", "await_rollback"}
      /\ UnderWay(p) /\ Works(p) /\ Serial /\ LinkMayFail = FALSE /\ step[p] \in 1..4
  BY DEF RolloutStep, RolloutAnswer, PlanRollback, RollbackAnswer, db, agent, Reliable,
         SerialInv, SerialDomains, UnderWay
<1>2. Plan[step[p]] \in {"prepare_release_workspace", "start_release_candidate", "run_health_gate", "promote_release"}
      /\ (Plan[step[p]] = "promote_release" => step[p] = 4) /\ (step[p] = 4 => Plan[step[p]] = "promote_release")
  BY <1>1 DEF Plan
<1>3. dep[tgt[p]] \in {"running", "candidate_ready", "failed"} /\ rev[tgt[p]] # "promoted"
      /\ (pc[p] = "step" => dep[tgt[p]] # "failed")
      /\ (pc[p] = "step" /\ step[p] # 4 => dep[tgt[p]] = "running")
  BY <1>1 DEF Works, Pairs
(* A command of type t is sent. *)
<1>4. ASSUME NEW t, NEW l \in {"await", "await_rollback"}, Dispatch(p, t, l), pc[p] \in {"step", "plan_rollback"},
             l = "await_rollback" => /\ t = "rollback_release" /\ pc[p] = "plan_rollback"
                                     /\ StableRevisions(tgt[p]) # {}
      PROVE  Effect(p)
  <2>1. Goto(p, l) /\ orphans' = orphans /\ cmd' = [cmd EXCEPT ![p] = [type |-> t, answer |-> "sent"]]
    BY <1>4 DEF Dispatch
  <2>2. pc'[p] = l /\ \A q \in Procs : q # p => pc'[q] = pc[q] /\ step'[q] = step[q]
    BY <1>1, <2>1, SerialGoto
  <2>3. cmd'[p] = [type |-> t, answer |-> "sent"] /\ \A q \in Procs : q # p => cmd'[q] = cmd[q]
    BY <2>1 DEF SerialInv, SerialDomains
  <2>4. cmd'[p].type = t /\ cmd'[p].answer = "sent" BY <2>3
  <2>5. LinkHolds' BY <1>4, <2>1, <2>2, <2>3, <2>4 DEF AgentInv, LinkHolds
  <2>6. OwnRow(p, tgt[p]) /\ OwnControl(p, tgt[p])
    BY <1>1, <1>3, <1>4, <2>2, <2>4 DEF OwnRow, OwnControl, Promoting, RolledBack
  <2> QED BY <1>1, <2>1, <2>2, <2>3, <2>5, <2>6 DEF Effect
(* Its answer is received. *)
<1>5. ASSUME NEW o \in Outcomes, Await(p, o), NEW l, Goto(p, l), pc[p] \in {"await", "await_rollback"},
             \/ pc'[p] \in {"fail_dep", "step", "applying", "ready"} /\ ~(o = "done" /\ step[p] = 4)
             \/ o = "done" /\ pc[p] = "await" /\ step[p] = 4 /\ pc'[p] = "finish"
             \/ o = "done" /\ pc[p] = "await_rollback" /\ pc'[p] = "finalize_rev"
             \/ o # "done" /\ pc'[p] = "fail_dep"
      PROVE  Effect(p)
  <2>1. o \in Verdicts /\ cmd[p].answer = o /\ cmd' = [cmd EXCEPT ![p] = NoCommand] /\ GiveUp(SentBy({p}))
    BY <1>1, <1>5 DEF Await
  <2>2. cmd[p].answer # "sent" BY <2>1 DEF Verdicts
  <2>3. orphans' = orphans
    <3>1. SentBy({p}) = {} BY <2>2 DEF SentBy
    <3>2. orphans' \in SUBSET (orphans \cup {}) BY <2>1, <3>1 DEF GiveUp
    <3> QED BY <3>2 DEF AgentInv, LinkHolds
  <2>4. \A q \in Procs : q # p => pc'[q] = pc[q] /\ step'[q] = step[q]
    BY <1>1, <1>5, SerialGoto
  <2>5. cmd'[p] = NoCommand /\ \A q \in Procs : q # p => cmd'[q] = cmd[q]
    BY <2>1 DEF SerialInv, SerialDomains
  <2>6. NoCommand = [type |-> NoCommand.type, answer |-> NoCommand.answer] /\ NoCommand.answer = "none"
    BY DEF NoCommand
  <2>7. LinkHolds' BY <1>5, <2>3, <2>4, <2>5, <2>6 DEF AgentInv, LinkHolds
  <2>8. OwnRow(p, tgt[p]) /\ OwnControl(p, tgt[p])
    BY <1>1, <1>3, <1>5, <2>1, <2>5, <2>6 DEF OwnRow, OwnControl, Promoting, RolledBack
  <2> QED BY <1>1, <2>3, <2>4, <2>5, <2>7, <2>8 DEF Effect
<1>6. CASE RolloutStep(p)
  <2>1. pc[p] = "step" BY <1>6 DEF RolloutStep
  <2>2. ~shouldSkipRolloutStep(tgt[p], Plan[step[p]])
    BY <1>1, <1>2, <1>3, <2>1 DEF shouldSkipRolloutStep
  <2>3. Dispatch(p, Plan[step[p]], "await") BY <1>1, <1>6, <2>2 DEF RolloutStep
  <2> QED BY <1>4, <2>1, <2>3
<1>7. CASE RolloutAnswer(p)
  <2>1. PICK o \in Outcomes :
          /\ Await(p, o)
          /\ \/ o = "done" /\ Goto(p, OnSuccess(cmd[p].type))
             \/ o # "done" /\ Goto(p, "fail_dep")
    BY <1>1, <1>7 DEF RolloutAnswer, FailThen, Await, Verdicts
  <2>2. pc[p] = "await" /\ cmd[p].type = Plan[step[p]] BY <1>1, <1>7 DEF RolloutAnswer, Works
  <2>3. CASE o # "done"
    <3>1. Goto(p, "fail_dep") BY <2>1, <2>3
    <3>2. pc'[p] = "fail_dep" BY <1>1, <3>1, SerialGoto
    <3> QED BY <1>5, <2>1, <2>2, <2>3, <3>1, <3>2
  <2>4. CASE o = "done" /\ step[p] = 4
    <3>1. Goto(p, "finish") BY <1>2, <2>1, <2>2, <2>4 DEF OnSuccess
    <3>2. pc'[p] = "finish" BY <1>1, <3>1, SerialGoto
    <3> QED BY <1>5, <2>1, <2>2, <2>4, <3>1, <3>2
  <2>5. CASE o = "done" /\ step[p] # 4
    <3>1. PICK l \in {"advance", "applying", "ready"} : Goto(p, l)
      BY <1>2, <2>1, <2>2, <2>5 DEF OnSuccess
    <3>2. pc'[p] \in {"step", "applying", "ready"} BY <1>1, <2>5, <3>1, SerialGoto
    <3> QED BY <1>5, <2>1, <2>2, <2>5, <3>1, <3>2
  <2> QED BY <2>3, <2>4, <2>5
<1>8. CASE PlanRollback(p)
  <2>1. pc[p] = "plan_rollback" BY <1>8 DEF PlanRollback
  <2>2. CASE Dispatch(p, "rollback_release", "await_rollback") /\ StableRevisions(tgt[p]) # {}
    BY <1>4, <2>1, <2>2
  <2>3. CASE FailThen(p, "return") /\ UNCHANGED waits
    <3>1. Goto(p, "fail_dep") /\ UNCHANGED <<cmd, orphans>> BY <2>3 DEF FailThen, waits
    <3>2. pc'[p] = "fail_dep" /\ \A q \in Procs : q # p => pc'[q] = pc[q] /\ step'[q] = step[q]
      BY <1>1, <3>1, SerialGoto
    <3>3. LinkHolds' BY <2>1, <3>1, <3>2 DEF AgentInv, LinkHolds
    <3> QED BY <1>1, <1>3, <2>1, <3>1, <3>2, <3>3 DEF Effect, OwnRow, OwnControl, Promoting, RolledBack
  <2> QED BY <1>8, <2>2, <2>3 DEF PlanRollback
<1>9. CASE RollbackAnswer(p)
  <2>1. PICK o \in Outcomes :
          /\ Await(p, o)
          /\ \/ o = "done" /\ Goto(p, "finalize_rev")
             \/ o # "done" /\ Goto(p, "fail_dep")
    BY <1>9 DEF RollbackAnswer, FailThen
  <2>2. pc[p] = "await_rollback" BY <1>9 DEF RollbackAnswer
  <2>3. PICK l \in {"finalize_rev", "fail_dep"} : Goto(p, l) /\ (l = "finalize_rev" <=> o = "done") BY <2>1
  <2>4. pc'[p] = l BY <1>1, <2>3, SerialGoto
  <2> QED BY <1>5, <2>1, <2>2, <2>3, <2>4
<1> QED BY <1>6, <1>7, <1>8, <1>9

LEMMA RolloutEffect ==
    ASSUME Reliable, SerialInv, AgentInv, NEW p \in Procs, Rollout(p)
    PROVE  Effect(p)
<1>1. ~(ReadyReread(p) \/ RecoverNext(p) \/ RecoveryDispatch(p) \/ RecoveryAnswer(p))
  BY DEF ReadyReread, RecoverNext, RecoveryDispatch, RecoveryAnswer, SerialInv, UnderWay, Works, Labels
<1> QED BY <1>1, QuietEffect, WriteEffect, CommandEffect DEF Rollout

(* A rollout's own step keeps what the agent's records say. *)
LEMMA EffectKeeps ==
    ASSUME Reliable, SerialInv, AgentInv, NEW p \in Procs, UnderWay(p), Effect(p)
    PROVE  AgentInv'
<1> DEFINE d == tgt[p]
<1>1. Works(p) /\ d \in Revisions /\ \A q \in Procs : q # p => ~UnderWay(q) BY DEF SerialInv, Works
<1>2. /\ UNCHANGED <<traffic, cache, tgt>>
      /\ \A q \in Procs : q # p => pc'[q] = pc[q]
      /\ \A e \in Revisions : e # d => dep'[e] = dep[e] /\ rev'[e] = rev[e]
      /\ OwnRow(p, d) /\ OwnControl(p, d) /\ LinkHolds'
  BY DEF Effect
<1>3. \A q \in Procs : q # p => /\ ~Promoting(q) /\ ~RolledBack(q) /\ pc[q] # "await_rollback"
                                /\ ~Promoting(q)' /\ ~RolledBack(q)' /\ pc'[q] # "await_rollback"
  BY <1>1, <1>2 DEF UnderWay, Promoting, RolledBack
<1> HIDE DEF d
<1>4. LiveOnes \subseteq LiveOnes' /\ LiveOrNone \subseteq LiveOrNone'
  BY <1>2 DEF LiveOnes, LiveOrNone, OwnRow
<1>5. RecordsLive /\ Relies(p) BY DEF AgentInv
<1>6. Promoting(p) => cache.current = d /\ traffic.active = d BY <1>5 DEF Relies, d
<1>7. RolledBack(p) => traffic.active \in LiveOnes BY <1>5 DEF Relies
<1>8. \A e \in Revisions : rev'[e] = "promoted" => cache.current # None
  BY <1>1, <1>2, <1>5, <1>6, NoneAssumption DEF OwnRow, RecordsLive
<1>9. cache.current \in LiveOrNone' \/ \E q \in Procs : Promoting(q)' /\ cache.current = tgt[q]
  <2>1. CASE cache.current \in LiveOrNone BY <1>4, <2>1
  <2>2. CASE cache.current \notin LiveOrNone
    <3>1. Promoting(p) BY <1>3, <1>5, <2>2 DEF RecordsLive
    <3>2. Promoting(p)' \/ dep'[d] = "promoted" BY <1>2, <3>1 DEF OwnRow
    <3> QED BY <1>1, <1>6, <3>1, <3>2 DEF LiveOnes, LiveOrNone, d
  <2> QED BY <2>1, <2>2
<1>10. \A e \in Revisions : dep'[e] = "rolled_back" => traffic.active # e
  <2>1. dep'[d] = "rolled_back" /\ RolledBack(p) => traffic.active # d
    BY <1>2, <1>7 DEF LiveOnes, OwnRow
  <2> QED BY <1>2, <1>5, <2>1 DEF OwnRow, RecordsLive
<1>11. RecordsLive' BY <1>2, <1>4, <1>5, <1>8, <1>9, <1>10 DEF RecordsLive
<1>12. Relies(p)'
  <2>1. Promoting(p)' => traffic.active = d /\ cache.current = d BY <1>2, <1>6 DEF OwnControl
  <2>2. RolledBack(p)' => traffic.active \in LiveOnes' BY <1>2, <1>4, <1>7 DEF OwnControl
  <2>3. ASSUME pc'[p] = "await_rollback" PROVE cache.current \in LiveOnes'
    <3>1. pc[p] = "plan_rollback" /\ StableRevisions(d) # {} BY <1>2, <2>3 DEF OwnControl
    <3>2. cache.current # None BY <1>5, <3>1 DEF RecordsLive, StableRevisions
    <3>3. ~Promoting(p) BY <3>1 DEF Promoting
    <3> QED BY <1>3, <1>4, <1>5, <3>2, <3>3 DEF RecordsLive, LiveOrNone
  <2> QED BY <1>2, <2>1, <2>2, <2>3 DEF Relies, d
<1>13. \A q \in Procs : q # p => Relies(q)' BY <1>3 DEF Relies
<1> QED BY <1>2, <1>11, <1>12, <1>13 DEF AgentInv

(* Deployments are created and calls begin. *)
OnlyBegins ==
    /\ UNCHANGED <<traffic, cache, orphans, cmd, step>>
    /\ \A q \in Procs : pc'[q] = pc[q] \/ (pc[q] = "idle" /\ pc'[q] = "start")
    /\ \A q \in Procs : pc[q] # "idle" => tgt'[q] = tgt[q]
    /\ \A e \in Revisions : dep'[e] = dep[e] \/ (dep[e] = "absent" /\ dep'[e] = "queued")
    /\ \A e \in Revisions : rev'[e] = rev[e] \/ rev'[e] # "promoted"

LEMMA BeginsKeeps ==
    ASSUME Reliable, SerialInv, AgentInv,
           \/ UNCHANGED vars
           \/ \E d \in Revisions : Create(d)
           \/ \E p \in Procs : StartDeployment(p)
    PROVE  AgentInv'
<1>1. OnlyBegins
  <2>1. CASE UNCHANGED vars BY <2>1 DEF OnlyBegins, vars, db, agent, waits, control, place
  <2>2. ASSUME NEW d \in Revisions, Create(d) PROVE  OnlyBegins
    BY <2>2 DEF OnlyBegins, Create, agent, waits, control, place, SerialInv, SerialDomains, Domains
  <2>3. ASSUME NEW p \in Procs, StartDeployment(p) PROVE  OnlyBegins
    <3>1. pc[p] = "idle" /\ Goto(p, "start") BY <2>3 DEF StartDeployment
    <3>2. pc' = [pc EXCEPT ![p] = "start"] /\ step' = step
      BY <3>1 DEF Goto, Resolve, SerialInv, SerialDomains
    <3> QED BY <2>3, <3>1, <3>2 DEF OnlyBegins, StartDeployment, db, agent, waits, SerialInv, SerialDomains, Domains
  <2> QED BY <2>1, <2>2, <2>3
<1>2. LiveOnes' = LiveOnes /\ LiveOrNone' = LiveOrNone BY <1>1 DEF OnlyBegins, LiveOnes, LiveOrNone
<1>3. \A q \in Procs : /\ Promoting(q)' <=> Promoting(q)
                       /\ RolledBack(q)' <=> RolledBack(q)
                       /\ Promoting(q) => tgt'[q] = tgt[q]
                       /\ pc'[q] = "await_rollback" => pc[q] = "await_rollback"
  BY <1>1 DEF OnlyBegins, Promoting, RolledBack
<1>4. LinkHolds' BY <1>1 DEF OnlyBegins, AgentInv, LinkHolds
<1>5. RecordsLive'
  <2>1. RecordsLive BY DEF AgentInv
  <2>2. cache.current \in LiveOrNone' \/ \E q \in Procs : Promoting(q)' /\ cache.current = tgt'[q]
    BY <1>2, <1>3, <2>1 DEF RecordsLive
  <2> QED BY <1>1, <1>2, <2>1, <2>2 DEF OnlyBegins, RecordsLive
<1>6. \A q \in Procs : Relies(q)' BY <1>1, <1>2, <1>3 DEF OnlyBegins, AgentInv, Relies
<1> QED BY <1>4, <1>5, <1>6 DEF AgentInv

(* The agent runs a command of the one rollout under way. *)
LEMMA RunAt ==
    ASSUME Reliable, SerialInv, AgentInv, NEW p \in Procs, AgentRun(p)
    PROVE  /\ UnderWay(p) /\ Works(p) /\ tgt[p] \in Revisions /\ step[p] \in 1..4
           /\ pc[p] \in {"await", "await_rollback"} /\ cmd[p].answer = "sent"
           /\ UNCHANGED <<dep, rev, pc, step, tgt, orphans>>
           /\ \E a \in Verdicts :
                /\ AgentDoes(cmd[p].type, tgt[p], a)
                /\ cmd' = [cmd EXCEPT ![p].answer = a]
<1>1. cmd[p].answer = "sent" BY DEF AgentRun
<1>2. pc[p] \in {"await", "await_rollback"} BY <1>1 DEF AgentInv, LinkHolds
<1>3. UnderWay(p) BY <1>2 DEF UnderWay
<1>4. Works(p) /\ step[p] \in 1..4 BY <1>3 DEF SerialInv, SerialDomains
<1> QED BY <1>1, <1>2, <1>3, <1>4 DEF AgentRun, Works, Reliable, db, control, place

(* A rollback ends at a live deployment. *)
LEMMA RestoresLive ==
    ASSUME SerialInv, AgentInv, NEW d \in Revisions, dep[d] # "promoted", cache.current \in LiveOnes,
           selectRollbackPlan(d, cache, traffic).restored # None
    PROVE  selectRollbackPlan(d, cache, traffic).restored \in LiveOnes
<1> DEFINE prev == firstNonEmpty(cache.prev, traffic.prev)
<1>1. cache.current # None /\ d # cache.current BY NoneAssumption DEF LiveOnes
<1>2. firstNonEmpty(cache.current, traffic.active) = cache.current BY <1>1 DEF firstNonEmpty
<1>3. CASE d # traffic.active
  <2>1. selectRollbackPlan(d, cache, traffic) = [failed |-> d, restored |-> cache.current]
    BY <1>1, <1>2, <1>3 DEF selectRollbackPlan
  <2> QED BY <2>1
<1>4. CASE d = traffic.active
  <2>1. selectRollbackPlan(d, cache, traffic) = [failed |-> d, restored |-> Unless(prev, d)]
    BY <1>2, <1>4 DEF selectRollbackPlan
  <2>2. traffic.active \notin LiveOrNone BY <1>4, NoneAssumption DEF LiveOnes, LiveOrNone
  <2>3. prev \in LiveOrNone BY <2>2 DEF AgentInv, RecordsLive, firstNonEmpty
  <2>4. Unless(prev, d) \in {None, prev} BY DEF Unless
  <2>5. Unless(prev, d) # None BY <2>1
  <2> QED BY <2>1, <2>3, <2>4, <2>5 DEF LiveOrNone
<1> QED BY <1>3, <1>4

(* What a command does to the records. *)
LEMMA PromoteRuns ==
    ASSUME NEW d, NEW a, promote_release(d, a)
    PROVE  \/ a # "done" /\ UNCHANGED <<traffic, cache>>
           \/ /\ traffic' = [active |-> d, prev |-> Unless(cache.current, d)]
              /\ \/ a # "done" /\ cache' = cache
                 \/ a = "done" /\ cache' = [current |-> d, prev |-> Unless(cache.current, d)]
BY DEF promote_release, PromotedTraffic

LEMMA RollbackRuns ==
    ASSUME SerialInv, AgentInv, NEW d \in Revisions, dep[d] # "promoted", cache.current \in LiveOnes,
           NEW a, rollback_release(d, a)
    PROVE  \/ a # "done" /\ UNCHANGED <<traffic, cache>>
           \/ \E e \in LiveOnes : \E f :
                /\ traffic' = [active |-> e, prev |-> f]
                /\ \/ a # "done" /\ cache' = cache
                   \/ a = "done" /\ cache' = [current |-> e, prev |-> None]
<1> DEFINE plan == selectRollbackPlan(d, cache, traffic)
<1>1. CASE a # "done" /\ UNCHANGED <<traffic, cache>> BY <1>1
<1>2. CASE /\ plan.restored # None
           /\ traffic' = [active |-> plan.restored, prev |-> plan.failed]
           /\ \/ a # "done" /\ cache' = cache
              \/ a = "done" /\ cache' = [current |-> plan.restored, prev |-> None]
  <2>1. plan.restored \in LiveOnes BY <1>2, RestoresLive
  <2> QED BY <1>2, <2>1
<1> QED BY <1>1, <1>2 DEF rollback_release, RolledBackTraffic, agent

LEMMA RunKeeps ==
    ASSUME Reliable, SerialInv, AgentInv, NEW p \in Procs, AgentRun(p)
    PROVE  AgentInv' /\ (traffic' = traffic \/ traffic.active' \in LiveOnes \cup {tgt[p]})
<1> DEFINE d == tgt[p]
<1>1. /\ UnderWay(p) /\ Works(p) /\ d \in Revisions /\ step[p] \in 1..4
      /\ pc[p] \in {"await", "await_rollback"} /\ cmd[p].answer = "sent"
      /\ UNCHANGED <<dep, rev, pc, step, tgt, orphans>>
  BY RunAt
<1>2. PICK a \in Verdicts : AgentDoes(cmd[p].type, d, a) /\ cmd' = [cmd EXCEPT ![p].answer = a]
  BY RunAt
<1>3. /\ cmd'[p] = [type |-> cmd[p].type, answer |-> a]
      /\ \A q \in Procs : q # p => cmd'[q] = cmd[q]
  BY <1>2 DEF AgentInv, LinkHolds, SerialInv, SerialDomains
<1>4. cmd'[p].type = cmd[p].type /\ cmd'[p].answer = a BY <1>3
<1>5. LinkHolds' BY <1>1, <1>3, <1>4 DEF AgentInv, LinkHolds
<1>6. \A q \in Procs : q # p => pc[q] \in {"idle", "done"} BY <1>1 DEF Works, UnderWay
<1>7. \A q \in Procs : q # p => ~Promoting(q)' /\ ~Promoting(q) /\ Relies(q)'
  BY <1>1, <1>6 DEF Promoting, RolledBack, Relies
<1>8. LiveOnes' = LiveOnes /\ LiveOrNone' = LiveOrNone BY <1>1 DEF LiveOnes, LiveOrNone
<1>9. RecordsLive /\ Relies(p) /\ ~Promoting(p) /\ ~RolledBack(p)
  BY <1>1 DEF AgentInv, Promoting, RolledBack
<1>10. cache.current \in LiveOrNone BY <1>7, <1>9 DEF RecordsLive
<1>11. ASSUME UNCHANGED <<traffic, cache>>, ~Promoting(p)', ~RolledBack(p)'
       PROVE  AgentInv' /\ traffic' = traffic
  <2>1. RecordsLive' BY <1>1, <1>8, <1>9, <1>10, <1>11 DEF RecordsLive
  <2>2. Relies(p)' BY <1>1, <1>8, <1>9, <1>11 DEF Relies
  <2> QED BY <1>5, <1>7, <1>11, <2>1, <2>2 DEF AgentInv
<1> HIDE DEF d
<1>12. CASE pc[p] = "await"
  <2>1. cmd[p].type = Plan[step[p]] /\ (step[p] = 4 => dep[d] = "candidate_ready")
    BY <1>1, <1>12 DEF Works, Pairs, d
  <2>2. ~RolledBack(p)' /\ (Promoting(p)' <=> step[p] = 4 /\ a = "done")
    BY <1>1, <1>4, <1>12 DEF RolledBack, Promoting
  <2>3. CASE step[p] # 4
    <3>1. UNCHANGED <<traffic, cache>>
      BY <1>1, <1>2, <2>1, <2>3 DEF Plan, AgentDoes, prepare_release_workspace, start_release_candidate, run_health_gate
    <3> QED BY <1>11, <2>2, <2>3, <3>1
  <2>4. CASE step[p] = 4
    <3>1. promote_release(d, a) BY <1>2, <2>1, <2>4 DEF Plan, AgentDoes
    <3>2. CASE a # "done" /\ UNCHANGED <<traffic, cache>> BY <1>11, <2>2, <3>2
    <3>3. CASE /\ traffic' = [active |-> d, prev |-> Unless(cache.current, d)]
               /\ \/ a # "done" /\ cache' = cache
                  \/ a = "done" /\ cache' = [current |-> d, prev |-> Unless(cache.current, d)]
      <4>1. Unless(cache.current, d) \in LiveOrNone BY <1>10 DEF Unless, LiveOrNone
      <4>2. d # None /\ dep[d] # "rolled_back" BY <1>1, <2>1, <2>4, NoneAssumption DEF d
      <4>3. /\ traffic'.active = d /\ traffic'.prev \in LiveOrNone
            /\ traffic' = [active |-> traffic'.active, prev |-> traffic'.prev]
        BY <3>3, <4>1
      <4>4. \/ a # "done" /\ cache' = cache
            \/ /\ a = "done" /\ cache'.current = d /\ cache'.prev \in LiveOrNone
               /\ cache' = [current |-> cache'.current, prev |-> cache'.prev]
        BY <3>3, <4>1
      <4>5. RecordsLive'
        <5>1. cache'.current \in LiveOrNone \/ (Promoting(p)' /\ cache'.current = tgt[p])
          BY <1>10, <2>2, <2>4, <4>4 DEF d
        <5> QED BY <1>1, <1>8, <1>9, <4>2, <4>3, <4>4, <5>1 DEF RecordsLive
      <4>6. Relies(p)' BY <1>1, <1>12, <2>2, <4>3, <4>4 DEF Relies, d
      <4>7. AgentInv' BY <1>5, <1>7, <4>5, <4>6 DEF AgentInv
      <4> QED BY <4>3, <4>7 DEF d
    <3> QED BY <3>1, <3>2, <3>3, PromoteRuns
  <2> QED BY <2>3, <2>4
<1>13. CASE pc[p] = "await_rollback"
  <2>1. cmd[p].type = "rollback_release" /\ dep[d] = "failed" /\ cache.current \in LiveOnes
    BY <1>1, <1>9, <1>13 DEF Works, Pairs, AgentInv, LinkHolds, Relies, d
  <2>2. ~Promoting(p)' /\ (RolledBack(p)' <=> a = "done")
    BY <1>1, <1>4, <1>13 DEF RolledBack, Promoting
  <2>3. rollback_release(d, a) BY <1>2, <2>1 DEF AgentDoes
  <2>4. CASE a # "done" /\ UNCHANGED <<traffic, cache>> BY <1>11, <2>2, <2>4
  <2>5. CASE \E e \in LiveOnes : \E f :
               /\ traffic' = [active |-> e, prev |-> f]
               /\ \/ a # "done" /\ cache' = cache
                  \/ a = "done" /\ cache' = [current |-> e, prev |-> None]
    <3>0. PICK e \in LiveOnes :
             \E f : /\ traffic' = [active |-> e, prev |-> f]
                    /\ \/ a # "done" /\ cache' = cache
                       \/ a = "done" /\ cache' = [current |-> e, prev |-> None]
      BY <2>5
    <3>1. PICK f : /\ traffic' = [active |-> e, prev |-> f]
                   /\ \/ a # "done" /\ cache' = cache
                      \/ a = "done" /\ cache' = [current |-> e, prev |-> None]
      BY <3>0
    <3>2. traffic'.active = e /\ traffic' = [active |-> traffic'.active, prev |-> traffic'.prev] BY <3>1
    <3>3. \/ cache' = cache
          \/ /\ cache'.current = e /\ cache'.prev = None
             /\ cache' = [current |-> cache'.current, prev |-> cache'.prev]
      BY <3>1
    <3>4. e \in Revisions /\ e # None /\ dep[e] = "promoted" BY NoneAssumption DEF LiveOnes
    <3>5. cache'.current \in LiveOnes /\ cache'.current # None /\ cache'.prev \in LiveOrNone
      BY <1>9, <2>1, <3>3, <3>4, NoneAssumption DEF LiveOnes, LiveOrNone, RecordsLive
    <3>6. RecordsLive' BY <1>1, <1>8, <1>9, <3>2, <3>3, <3>4, <3>5 DEF RecordsLive, LiveOrNone
    <3>7. Relies(p)' BY <1>1, <1>8, <2>2, <3>2, <3>5 DEF Relies
    <3>8. AgentInv' BY <1>5, <1>7, <3>6, <3>7 DEF AgentInv
    <3> QED BY <3>2, <3>8
  <2> QED BY <1>1, <2>1, <2>3, <2>4, <2>5, RollbackRuns DEF d
<1> QED BY <1>1, <1>12, <1>13

LEMMA InitAgent == Init => AgentInv
<1> SUFFICES ASSUME Init PROVE AgentInv
  OBVIOUS
<1>1. LinkHolds BY DEF Init, LinkHolds, NoCommand
<1>2. \A p \in Procs : ~Promoting(p) /\ Relies(p) BY DEF Init, Promoting, RolledBack, Relies
<1>3. RecordsLive BY DEF Init, RecordsLive, NoTraffic, EmptyCache, LiveOrNone
<1> QED BY <1>1, <1>2, <1>3 DEF AgentInv

(* Of the steps only these three kinds are left. *)
LEMMA ReliableSteps ==
    ASSUME Reliable, SerialInv, AgentInv, [Next]_vars
    PROVE  \/ UNCHANGED vars \/ (\E d \in Revisions : Create(d)) \/ (\E p \in Procs : StartDeployment(p))
           \/ \E p \in Procs : UnderWay(p) /\ Rollout(p) /\ Effect(p)
           \/ \E p \in Procs : AgentRun(p)
<1>1. ~Crash BY DEF Crash, Reliable, Serial, SerialInv, SerialDomains
<1>2. \A p \in Procs : ~RecoverRunningDeployments(p) /\ ~Act(p)
  BY DEF RecoverRunningDeployments, Act, Reliable, Serial
<1>3. \A c \in orphans : ~AgentRunLate(c) BY DEF AgentInv, LinkHolds
<1>4. ASSUME NEW p \in Procs, Rollout(p) PROVE UnderWay(p) /\ Effect(p)
  <2>1. Effect(p) BY <1>4, RolloutEffect
  <2>2. UnderWay(p)
    BY <1>4 DEF Rollout, CheckTransition, WriteTransition, StartChecks, RolloutStep, RolloutAnswer, ReadyReread,
       promoteCandidateIfNeeded, PromoteCandidate, PlanRollback, RollbackAnswer, FinalizeRollback,
       RecoverNext, RecoveryDispatch, RecoveryAnswer, UnderWay, Transitions, SerialInv, SerialDomains, Domains
  <2> QED BY <2>1, <2>2
<1> QED BY <1>1, <1>2, <1>3, <1>4 DEF Next

LEMMA NextAgent == Reliable /\ SerialInv /\ AgentInv /\ [Next]_vars => AgentInv'
BY ReliableSteps, BeginsKeeps, EffectKeeps, RunKeeps

-----------------------------------------------------------------------------
(* The refinement.  The phase of a deployment depends on its row and on    *)
(* whether a rollout works on it.                                          *)

PhaseFor(s, worked) ==
    CASE s = "absent" -> "absent"
      [] s = "promoted" -> "live"
      [] s \notin {"absent", "promoted"} /\ worked -> "working"
      [] s = "queued" /\ ~worked -> "waiting"
      [] s = "rolled_back" /\ ~worked -> "back"
      [] OTHER -> "failed"

LEMMA PhaseIs ==
    \A d : PhaseOf(d) = PhaseFor(dep[d], WorkedOn(d)) /\ PhaseOf(d)' = PhaseFor(dep'[d], WorkedOn(d)')
BY DEF PhaseOf, PhaseFor

(* Only the one rollout under way works on a deployment. *)
LEMMA WorkedOnlyBy ==
    ASSUME SerialInv, NEW p \in Procs, UnderWay(p)
    PROVE  /\ tgt[p] \in Revisions
           /\ \A e \in Revisions : WorkedOn(e) <=> e = tgt[p] /\ pc[p] # "start"
           /\ pc[p] # "start" => dep[tgt[p]] \notin {"absent", "promoted", "rolled_back"}
<1>1. Works(p) BY DEF SerialInv
<1>2. pc[p] # "start" => dep[tgt[p]] \notin {"absent", "promoted", "rolled_back"}
  BY <1>1 DEF Works, Pairs, Labels
<1>3. \A e \in Revisions : WorkedOn(e) <=> e = tgt[p] /\ pc[p] # "start" BY <1>1 DEF Works, WorkedOn
<1> QED BY <1>1, <1>2, <1>3 DEF Works

LEMMA NoneWorkedOn ==
    ASSUME NEW e, \A p \in Procs : ~UnderWay(p) PROVE ~WorkedOn(e)
BY DEF WorkedOn

(* A phase that changes, and a step that changes none. *)
LEMMA PhaseChanges ==
    ASSUME NEW d \in Revisions, NEW s, PhaseOf(d)' = s,
           \A e \in Revisions : e # d => PhaseOf(e)' = PhaseOf(e)
    PROVE  Lifecycle!Becomes(d, s)
BY DEF Lifecycle!Becomes

LEMMA PhasesStay ==
    ASSUME \A e \in Revisions : PhaseOf(e)' = PhaseOf(e)
    PROVE  [e \in Revisions |-> PhaseOf(e)]' = [e \in Revisions |-> PhaseOf(e)]
OBVIOUS

(* A call may begin, and nothing else happens. *)
OnlyStarts ==
    /\ UNCHANGED <<dep, traffic>>
    /\ \A q \in Procs : \/ pc'[q] = pc[q] /\ tgt'[q] = tgt[q]
                        \/ pc[q] = "idle" /\ pc'[q] = "start"

LEMMA BeginsLife ==
    ASSUME Reliable, SerialInv,
           \/ UNCHANGED vars
           \/ \E d \in Revisions : Create(d)
           \/ \E p \in Procs : StartDeployment(p)
    PROVE  [Lifecycle!LifeNext]_(Lifecycle!lifeVars)
<1>1. ASSUME NEW d \in Revisions, Create(d) PROVE Lifecycle!Created(d)
  <2>1. /\ dep[d] = "absent" /\ dep' = [dep EXCEPT ![d] = "queued"] /\ UNCHANGED <<pc, tgt, traffic>>
    BY <1>1 DEF Create, agent, control, place
  <2>2. dep'[d] = "queued" /\ \A e \in Revisions : e # d => dep'[e] = dep[e]
    BY <2>1 DEF SerialInv, SerialDomains, Domains
  <2>3. ~WorkedOn(d)
    <3>1. ASSUME NEW p \in Procs, UnderWay(p), tgt[p] = d, pc[p] # "start" PROVE FALSE
      BY <2>1, <3>1, WorkedOnlyBy
    <3> QED BY <3>1 DEF WorkedOn
  <2>4. \A e : WorkedOn(e)' <=> WorkedOn(e) BY <2>1 DEF WorkedOn, UnderWay
  <2>5. PhaseOf(d) = "absent" /\ PhaseOf(d)' = "waiting" BY <2>1, <2>2, <2>3, <2>4, PhaseIs DEF PhaseFor
  <2>6. \A e \in Revisions : e # d => PhaseOf(e)' = PhaseOf(e)
    BY <2>2, <2>4, PhaseIs DEF PhaseFor
  <2>7. Lifecycle!Becomes(d, "waiting") BY <2>5, <2>6, PhaseChanges
  <2> QED BY <2>1, <2>5, <2>7 DEF Lifecycle!Created
<1>2. ASSUME UNCHANGED vars \/ \E p \in Procs : StartDeployment(p) PROVE UNCHANGED Lifecycle!lifeVars
  <2>1. OnlyStarts
    <3>1. CASE UNCHANGED vars BY <3>1 DEF vars, db, agent, control, place, OnlyStarts
    <3>2. ASSUME NEW p \in Procs, StartDeployment(p) PROVE OnlyStarts
      <4>1. pc[p] = "idle" /\ Goto(p, "start") BY <3>2 DEF StartDeployment
      <4>2. pc' = [pc EXCEPT ![p] = "start"] BY <4>1 DEF Goto, Resolve
      <4> QED BY <3>2, <4>1, <4>2 DEF OnlyStarts, StartDeployment, db, agent, SerialInv, SerialDomains, Domains
    <3> QED BY <1>2, <3>1, <3>2
  <2>2. \A e : WorkedOn(e)' <=> WorkedOn(e) BY <2>1 DEF OnlyStarts, WorkedOn, UnderWay
  <2>3. \A e \in Revisions : PhaseOf(e)' = PhaseOf(e) BY <2>1, <2>2, PhaseIs DEF OnlyStarts, PhaseFor
  <2> QED BY <2>1, <2>3, PhasesStay DEF OnlyStarts, Lifecycle!lifeVars
<1> QED BY <1>1, <1>2 DEF Lifecycle!LifeNext

LEMMA EffectLife ==
    ASSUME Reliable, SerialInv, SerialInv', AgentInv, NEW p \in Procs, UnderWay(p), Effect(p)
    PROVE  [Lifecycle!LifeNext]_(Lifecycle!lifeVars)
<1> SUFFICES ASSUME NEW d \in Revisions, d = tgt[p] PROVE [Lifecycle!LifeNext]_(Lifecycle!lifeVars)
  BY WorkedOnlyBy
<1>1. /\ d \in Revisions /\ UNCHANGED <<traffic, tgt>>
      /\ \A e \in Revisions : WorkedOn(e) <=> e = d /\ pc[p] # "start"
      /\ pc[p] # "start" => dep[d] \notin {"absent", "promoted", "rolled_back"}
  BY WorkedOnlyBy DEF Effect
<1>2. /\ \A e \in Revisions : e # d => dep'[e] = dep[e]
      /\ OwnRow(p, d) /\ OwnControl(p, d)
  BY DEF Effect
<1>3. \A q \in Procs : q # p => ~UnderWay(q)'
  BY DEF SerialInv, Works, Effect, UnderWay
<1>4. UnderWay(p)' <=> pc'[p] # "done" BY <1>2 DEF UnderWay, OwnControl
<1>5. /\ \A e \in Revisions : WorkedOn(e)' <=> e = d /\ pc'[p] \notin {"done", "start"}
      /\ pc'[p] \notin {"done", "start"} => dep'[d] \notin {"absent", "promoted", "rolled_back"}
  <2>1. \A e \in Revisions : WorkedOn(e)' <=> e = d /\ pc'[p] \notin {"done", "start"}
    BY <1>1, <1>3, <1>4 DEF WorkedOn
  <2>2. pc'[p] \notin {"done", "start"} => dep'[d] \notin {"absent", "promoted", "rolled_back"}
    BY <1>1, <1>4 DEF SerialInv, Works, Pairs, Labels
  <2> QED BY <2>1, <2>2
<1>6. \A e \in Revisions : e # d => PhaseOf(e)' = PhaseOf(e)
  BY <1>1, <1>2, <1>5, PhaseIs DEF PhaseFor
<1>7. traffic.active' = traffic.active BY <1>1
<1>8. RecordsLive /\ Relies(p) BY DEF AgentInv
<1>9. CASE pc[p] = "start" /\ pc'[p] = "done"
  <2>1. PhaseOf(d)' = PhaseOf(d) BY <1>1, <1>2, <1>5, <1>9, PhaseIs DEF PhaseFor, OwnControl
  <2> QED BY <1>6, <1>7, <2>1, PhasesStay DEF Lifecycle!lifeVars
<1>10. CASE pc[p] = "start" /\ pc'[p] # "done"
  <2>1. dep[d] = "queued" /\ dep' = dep /\ pc'[p] = "planned" BY <1>2, <1>10 DEF OwnControl
  <2>2. PhaseOf(d) = "waiting" /\ PhaseOf(d)' = "working" BY <1>1, <1>5, <1>10, <2>1, PhaseIs DEF PhaseFor
  <2>3. \A e \in Revisions : PhaseOf(e) # "working" BY <1>1, <1>10, PhaseIs DEF PhaseFor
  <2>4. Lifecycle!Becomes(d, "working") BY <1>1, <1>6, <2>2, PhaseChanges
  <2>5. Lifecycle!TakenUp(d) BY <1>1, <1>7, <2>2, <2>3, <2>4 DEF Lifecycle!TakenUp
  <2> QED BY <1>1, <2>5 DEF Lifecycle!LifeNext
<1>11. CASE pc[p] # "start" /\ pc'[p] # "done"
  <2>1. pc'[p] # "start" BY <1>2, <1>11 DEF OwnControl
  <2>2. PhaseOf(d) = "working" /\ PhaseOf(d)' = "working" BY <1>1, <1>5, <1>11, <2>1, PhaseIs DEF PhaseFor
  <2> QED BY <1>6, <1>7, <2>2, PhasesStay DEF Lifecycle!lifeVars
<1>12. CASE pc[p] # "start" /\ pc'[p] = "done"
  <2>1. dep'[d] \in {"promoted", "failed", "rolled_back"} BY <1>2, <1>12 DEF OwnControl
  <2>2. PhaseOf(d) = "working" BY <1>1, <1>12, PhaseIs DEF PhaseFor
  <2>3. PhaseOf(d)' = CASE dep'[d] = "promoted" -> "live" [] dep'[d] = "failed" -> "failed" [] OTHER -> "back"
    BY <1>1, <1>5, <1>12, <2>1, PhaseIs DEF PhaseFor
  <2>4. CASE dep'[d] = "promoted"
    <3>1. traffic.active = d BY <1>1, <1>2, <1>8, <1>12, <2>4 DEF OwnRow, Relies
    <3>2. Lifecycle!Becomes(d, "live") BY <1>1, <1>6, <2>3, <2>4, PhaseChanges
    <3>3. Lifecycle!GoesLive(d) BY <1>1, <1>7, <2>2, <3>1, <3>2 DEF Lifecycle!GoesLive
    <3> QED BY <1>1, <3>3 DEF Lifecycle!LifeNext
  <2>5. CASE dep'[d] = "failed"
    <3>1. Lifecycle!Becomes(d, "failed") BY <1>1, <1>6, <2>3, <2>5, PhaseChanges
    <3>2. Lifecycle!Fails(d) BY <1>1, <1>7, <2>2, <3>1 DEF Lifecycle!Fails
    <3> QED BY <1>1, <3>2 DEF Lifecycle!LifeNext
  <2>6. CASE dep'[d] = "rolled_back"
    <3>1. traffic.active \in LiveOnes BY <1>1, <1>2, <1>8, <1>12, <2>6 DEF OwnRow, Relies
    <3>2. traffic.active \in Revisions /\ PhaseOf(traffic.active) = "live"
      BY <3>1, PhaseIs DEF LiveOnes, PhaseFor
    <3>3. traffic.active \in Lifecycle!Live BY <3>2 DEF Lifecycle!Live
    <3>4. Lifecycle!Becomes(d, "back") BY <1>1, <1>6, <2>3, <2>6, PhaseChanges
    <3>5. Lifecycle!IsRolledBack(d) BY <1>1, <1>7, <2>2, <3>3, <3>4 DEF Lifecycle!IsRolledBack
    <3> QED BY <1>1, <3>5 DEF Lifecycle!LifeNext
  <2> QED BY <2>1, <2>4, <2>5, <2>6
<1> QED BY <1>9, <1>10, <1>11, <1>12

LEMMA RunLife ==
    ASSUME Reliable, SerialInv, AgentInv, NEW p \in Procs, AgentRun(p)
    PROVE  [Lifecycle!LifeNext]_(Lifecycle!lifeVars)
<1> DEFINE d == tgt[p]
<1>1. /\ UnderWay(p) /\ d \in Revisions /\ pc[p] # "start" /\ UNCHANGED <<dep, pc, tgt>> BY RunAt
<1>2. traffic' = traffic \/ traffic.active' \in LiveOnes \cup {d} BY RunKeeps
<1>3. \A e : WorkedOn(e)' <=> WorkedOn(e) BY <1>1 DEF WorkedOn, UnderWay
<1>4. \A e \in Revisions : PhaseOf(e)' = PhaseOf(e) BY <1>1, <1>3, PhaseIs DEF PhaseFor
<1>5. PhaseOf(d) = "working" BY <1>1, WorkedOnlyBy, PhaseIs DEF PhaseFor
<1>6. LiveOnes \subseteq Lifecycle!Live BY PhaseIs DEF LiveOnes, PhaseFor, Lifecycle!Live
<1> HIDE DEF d
<1>7. CASE traffic' = traffic BY <1>4, <1>7, PhasesStay DEF Lifecycle!lifeVars
<1>8. CASE traffic.active' \in LiveOnes \cup {d}
  <2>1. Lifecycle!TrafficMoves(d) BY <1>1, <1>4, <1>5, <1>6, <1>8, PhasesStay DEF Lifecycle!TrafficMoves
  <2> QED BY <1>1, <2>1 DEF Lifecycle!LifeNext
<1> QED BY <1>2, <1>7, <1>8

LEMMA InitLife == Init => Lifecycle!LifeInit
<1> SUFFICES ASSUME Init PROVE Lifecycle!LifeInit
  OBVIOUS
<1>1. \A d \in Revisions : PhaseOf(d) = "absent" BY DEF Init, PhaseOf
<1>2. traffic.active = None BY DEF Init, NoTraffic
<1> QED BY <1>1, <1>2 DEF Lifecycle!LifeInit

(* Rollouts one after the other over a link that loses nothing implement   *)
(* the lifecycle, for any number of deployments and calls and whatever     *)
(* the agent fails at.                                                     *)
THEOREM ImplementsLife ==
    ASSUME Reliable PROVE Spec => ImplementsLifecycle
<1>1. Serial BY DEF Reliable
<1>2. Init => SerialInv /\ AgentInv BY InitSerial, InitAgent
<1>3. SerialInv /\ AgentInv /\ [Next]_vars => SerialInv' /\ AgentInv' BY <1>1, NextSerial, NextAgent
<1>4. SerialInv /\ SerialInv' /\ AgentInv /\ [Next]_vars => [Lifecycle!LifeNext]_(Lifecycle!lifeVars)
  BY ReliableSteps, BeginsLife, EffectLife, RunLife
<1> QED BY <1>2, <1>3, <1>4, InitLife, PTL DEF Spec, ImplementsLifecycle, Lifecycle!LifeSpec

(* A deployment becomes promoted only while its revision is served. *)
LEMMA PromotesServed ==
    ASSUME Reliable, SerialInv, AgentInv, [Next]_vars
    PROVE  [\A d \in Revisions : dep[d] # "promoted" /\ dep'[d] = "promoted" => traffic.active = d]_vars
<1> SUFFICES ASSUME NEW d \in Revisions, dep[d] # "promoted", dep'[d] = "promoted"
             PROVE  traffic.active = d
  OBVIOUS
<1>1. ~UNCHANGED vars BY DEF vars, db
<1>2. \A e \in Revisions : ~Create(e)
  BY DEF Create, SerialInv, SerialDomains, Domains
<1>3. \A p \in Procs : ~StartDeployment(p) /\ ~AgentRun(p) BY DEF StartDeployment, AgentRun, db
<1>4. PICK p \in Procs : Effect(p) BY <1>1, <1>2, <1>3, ReliableSteps
<1>5. d = tgt[p] BY <1>4 DEF Effect
<1>6. Promoting(p) BY <1>4, <1>5 DEF Effect, OwnRow
<1> QED BY <1>5, <1>6 DEF AgentInv, Relies

(* Over a link that loses nothing, a deployment is shown as promoted only  *)
(* while the agent serves its revision, for any number of rollouts one     *)
(* after the other and whatever the agent fails at (PromoteCandidate).     *)
THEOREM PromotesWhatIsServed ==
    ASSUME Reliable PROVE Spec => PromotedIsServed
<1>1. Serial BY DEF Reliable
<1>2. Init => SerialInv /\ AgentInv BY InitSerial, InitAgent
<1>3. SerialInv /\ AgentInv /\ [Next]_vars => SerialInv' /\ AgentInv' BY <1>1, NextSerial, NextAgent
<1> QED BY <1>2, <1>3, PromotesServed, PTL DEF Spec, PromotedIsServed

(* Over a link that loses nothing, what rests is settled: deployment and   *)
(* revision agree, what was rolled back has no traffic, and the buttons of *)
(* the page work (FinalizeRollback, buildDeploymentDetail).                *)
THEOREM ReliableRests ==
    ASSUME Reliable PROVE Spec => []RestsSettled
<1>1. Serial BY DEF Reliable
<1>2. Init => SerialInv /\ AgentInv BY InitSerial, InitAgent
<1>3. SerialInv /\ AgentInv /\ [Next]_vars => SerialInv' /\ AgentInv' BY <1>1, NextSerial, NextAgent
<1>4. AgentInv => RolledBackNotServing BY DEF AgentInv, RecordsLive, RolledBackNotServing
<1>5. Spec => [](SettledTogether /\ ButtonsWork) BY <1>1, SerialRests
<1> QED BY <1>2, <1>3, <1>4, <1>5, PTL DEF Spec, RestsSettled

=============================================================================
