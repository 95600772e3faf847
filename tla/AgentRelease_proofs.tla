------------------------- MODULE AgentRelease_proofs -------------------------
(***************************************************************************)
(* AgentRelease for any number of revisions and of concurrent handlers:    *)
(* its types, that the state file only names revisions that have served,   *)
(* and that no revision is recorded as its own predecessor.  A goroutine   *)
(* saves a copy it made earlier, so neither property is inductive by       *)
(* itself: every copy must have it too (CopiesServed, CopiesDiffer), and   *)
(* every traffic record that is about to be written (ShiftSound).  That    *)
(* served only grows is what makes a stale copy harmless.                  *)
(***************************************************************************)
EXTENDS AgentRelease, TLAPS

NamesServed(c, S) ==
    /\ c.current # None => c.current \in S
    /\ c.prev # None => c.prev \in S

Differs(c) == c.current # None => c.current # c.prev

CopiesServed ==
    /\ NamesServed(copy[App], served)
    /\ \A h \in Handlers : NamesServed(copy[h], served \cup {shift[h].active})

CopiesDiffer == \A w \in Writers : Differs(copy[w])

ShiftSteps == {"promote_shift", "rollback_shift"}

ShiftSound ==
    \A h \in Handlers :
        /\ pc[h] \in ShiftSteps =>
             shift[h].active # None /\ shift[h].active # shift[h].prev
        /\ pc[h] \notin ShiftSteps => shift[h] = NoTraffic

IInv ==
    /\ TypeOK /\ ShiftSound
    /\ CacheNamesServed /\ PredecessorDiffers /\ CopiesServed /\ CopiesDiffer

-----------------------------------------------------------------------------
(* PromotedTraffic: a promoted revision is not its own predecessor, and    *)
(* its predecessor is the revision the cache held.                         *)
LEMMA PromotedTrafficFacts ==
    ASSUME NEW r \in Revisions, NEW c \in Caches
    PROVE  /\ PromotedTraffic(r, c) \in TrafficRecords
           /\ PromotedTraffic(r, c).active = r
           /\ PromotedTraffic(r, c).prev # r
           /\ PromotedTraffic(r, c).prev \in {c.current, None}
BY NoneAssumption DEF PromotedTraffic, Unless, Caches, TrafficRecords, OptRevision

(* selectRollbackPlan: when there is something to restore, it is not the   *)
(* revision that is rolled back.                                           *)
LEMMA RollbackPlanFacts ==
    ASSUME NEW r \in Revisions, NEW c \in Caches, NEW t \in TrafficRecords,
           t.active # None, selectRollbackPlan(r, c, t).restored # None
    PROVE  /\ selectRollbackPlan(r, c, t).restored \in Revisions
           /\ selectRollbackPlan(r, c, t).failed \in Revisions
           /\ selectRollbackPlan(r, c, t).restored # selectRollbackPlan(r, c, t).failed
<1> DEFINE stable == firstNonEmpty(c.current, t.active)
           prev == firstNonEmpty(c.prev, t.prev)
<1>1. stable \in OptRevision /\ prev \in OptRevision /\ t.active \in Revisions
  BY DEF firstNonEmpty, Caches, TrafficRecords, OptRevision
<1>2. CASE r \notin {stable, t.active}
  BY <1>1, <1>2 DEF selectRollbackPlan, OptRevision
<1>3. CASE r \in {stable, t.active}
  BY <1>1, <1>3 DEF selectRollbackPlan, Unless, OptRevision
<1> QED BY <1>2, <1>3

(* The agent starts without goroutines and without a recorded revision. *)
LEMMA InitIInv == Init => IInv
<1> SUFFICES ASSUME Init PROVE IInv
  OBVIOUS
<1>1. EmptyCache \in Caches /\ NoTraffic \in TrafficRecords
  BY DEF EmptyCache, NoTraffic, Caches, TrafficRecords, OptRevision
<1>2. TypeOK
  BY <1>1, AppAssumption
     DEF Init, TypeOK, CandidateStates, Steps, FirstStep, OptRevision, Writers
<1>3. CacheNamesServed /\ PredecessorDiffers /\ CopiesServed /\ CopiesDiffer
  BY DEF Init, CacheNamesServed, PredecessorDiffers, CopiesServed, CopiesDiffer,
         NamesServed, Differs, EmptyCache, NoTraffic, Writers
<1>4. ShiftSound
  BY DEF Init, ShiftSound, ShiftSteps, Writers
<1> QED BY <1>2, <1>3, <1>4 DEF IInv

(* Ending a handler keeps what the invariant says of the goroutines. *)
LEMMA EndKeeps ==
    ASSUME IInv, NEW h \in Handlers, End(h), served' = served
    PROVE  /\ pc' \in [Writers -> Steps]
           /\ rev' \in [Handlers -> OptRevision]
           /\ \A g \in Handlers : pc'[g] # "idle" => rev'[g] \in Revisions
           /\ pc'[App] \in {"idle", "save"}
           /\ seen' \in [Handlers -> CandidateStates]
           /\ shift' \in [Handlers -> TrafficRecords]
           /\ copy' \in [Writers -> Caches]
           /\ ShiftSound' /\ CopiesServed' /\ CopiesDiffer'
<1>1. /\ EmptyCache \in Caches /\ Differs(EmptyCache) /\ NoTraffic \in TrafficRecords
      /\ NamesServed(EmptyCache, served \cup {NoTraffic.active})
  BY DEF EmptyCache, NoTraffic, Caches, TrafficRecords, OptRevision, Differs, NamesServed
<1>2. h \in Writers /\ h # App /\ App \in Writers /\ Handlers \subseteq Writers
  BY AppAssumption DEF Writers
<1>3. /\ pc' \in [Writers -> Steps] /\ rev' \in [Handlers -> OptRevision]
      /\ \A g \in Handlers : pc'[g] # "idle" => rev'[g] \in Revisions
      /\ pc'[App] \in {"idle", "save"}
      /\ seen' \in [Handlers -> CandidateStates]
      /\ shift' \in [Handlers -> TrafficRecords]
      /\ copy' \in [Writers -> Caches]
  BY <1>1, <1>2 DEF IInv, TypeOK, End, Goto, Steps, OptRevision, CandidateStates, Writers
<1>4. ShiftSound'
  BY <1>2 DEF IInv, TypeOK, ShiftSound, ShiftSteps, End, Goto
<1>5. CopiesServed' /\ CopiesDiffer'
  <2>1. /\ copy' = [copy EXCEPT ![h] = EmptyCache]
        /\ shift' = [shift EXCEPT ![h] = NoTraffic]
        /\ copy \in [Writers -> Caches] /\ shift \in [Handlers -> TrafficRecords]
    BY DEF IInv, TypeOK, End
  <2>2. CopiesServed'
    BY <1>1, <1>2, <2>1 DEF IInv, CopiesServed
  <2>3. CopiesDiffer'
    BY <1>1, <1>2, <2>1 DEF IInv, CopiesDiffer
  <2> QED BY <2>2, <2>3
<1> QED BY <1>3, <1>4, <1>5

(* A goroutine that copies the state file, and changes no file, keeps the  *)
(* invariant: what holds of the cache holds of the copy.                   *)
LEMMA CopyKeeps ==
    ASSUME IInv, NEW w \in Writers, NEW s \in Steps \ ShiftSteps,
           pc[w] \notin ShiftSteps,
           w = App => s = "save",
           w # App => pc[w] # "idle",
           Goto(w, s), copy' = [copy EXCEPT ![w] = cache],
           UNCHANGED <<files, rev, seen, shift, served>>
    PROVE  IInv'
<1>1. TypeOK'
  BY AppAssumption DEF IInv, TypeOK, Goto, files, Writers
<1>2. CacheNamesServed' /\ PredecessorDiffers'
  BY DEF IInv, CacheNamesServed, PredecessorDiffers, files
<1>3. CopiesServed' /\ CopiesDiffer'
  BY DEF IInv, TypeOK, CacheNamesServed, PredecessorDiffers, CopiesServed,
         CopiesDiffer, NamesServed, Differs, files, Writers
<1>4. ShiftSound'
  BY DEF IInv, TypeOK, ShiftSound, Goto, Writers
<1> QED BY <1>1, <1>2, <1>3, <1>4 DEF IInv

(* A handler that leaves the state file, its copy and the traffic alone    *)
(* keeps the invariant.                                                    *)
LEMMA CandidateKeeps ==
    ASSUME IInv, NEW h \in Handlers, NEW s \in Steps \ ShiftSteps,
           pc[h] # "idle", pc[h] \notin ShiftSteps, Goto(h, s),
           cand' \in [Revisions -> CandidateStates],
           seen' \in [Handlers -> CandidateStates],
           UNCHANGED <<traffic, cache, rev, shift, copy, served>>
    PROVE  IInv'
<1>1. TypeOK'
  BY AppAssumption DEF IInv, TypeOK, Goto, Writers
<1>2. CacheNamesServed' /\ PredecessorDiffers' /\ CopiesServed' /\ CopiesDiffer'
  BY DEF IInv, CacheNamesServed, PredecessorDiffers, CopiesServed, CopiesDiffer
<1>3. ShiftSound'
  BY DEF IInv, TypeOK, ShiftSound, Goto, Writers
<1> QED BY <1>1, <1>2, <1>3 DEF IInv

(* Loading or saving a candidate record is such a step. *)
LEMMA LoadKeeps ==
    ASSUME IInv, NEW h \in Handlers, NEW s \in Steps \ ShiftSteps,
           pc[h] # "idle", pc[h] \notin ShiftSteps,
           LoadCandidate(h, s), UNCHANGED <<shift, copy>>
    PROVE  IInv'
<1>1. cand' \in [Revisions -> CandidateStates] /\ seen' \in [Handlers -> CandidateStates]
  BY DEF IInv, TypeOK, LoadCandidate, files
<1> QED BY <1>1, CandidateKeeps DEF LoadCandidate, files

LEMMA SaveKeeps ==
    ASSUME IInv, NEW h \in Handlers, NEW s \in Steps \ ShiftSteps,
           pc[h] # "idle", pc[h] \notin ShiftSteps,
           NEW c \in CandidateStates, SaveCandidate(h, c, s)
    PROVE  IInv'
<1>1. cand' \in [Revisions -> CandidateStates] /\ seen' \in [Handlers -> CandidateStates]
  BY DEF IInv, TypeOK, SaveCandidate, CandidateStates
<1> QED BY <1>1, CandidateKeeps DEF SaveCandidate

(* A plan for a traffic record with a predecessor other than the active    *)
(* revision, and for a cache of revisions that have served, or will have   *)
(* when the record is written.                                             *)
LEMMA PlanKeeps ==
    ASSUME IInv, NEW h \in Handlers, NEW s \in ShiftSteps, pc[h] # "idle",
           NEW t \in TrafficRecords, NEW c \in Caches,
           t.active # None, t.active # t.prev,
           Differs(c), NamesServed(c, served \cup {t.active}),
           Plan(h, t, c), Goto(h, s),
           seen' \in [Handlers -> CandidateStates],
           UNCHANGED <<files, rev, served>>
    PROVE  IInv'
<1>1. h \in Writers /\ h # App /\ Handlers \subseteq Writers /\ App \in Writers
  BY AppAssumption DEF Writers
<1>2. s \in Steps /\ s # "idle"
  BY DEF Steps, ShiftSteps
<1>3. TypeOK'
  BY <1>1, <1>2 DEF IInv, TypeOK, Plan, Goto, files
<1>4. CacheNamesServed' /\ PredecessorDiffers'
  BY DEF IInv, CacheNamesServed, PredecessorDiffers, files
<1>5. CopiesServed'
  BY <1>1 DEF IInv, TypeOK, CopiesServed, NamesServed, Plan
<1>6. CopiesDiffer'
  BY <1>1 DEF IInv, TypeOK, CopiesDiffer, Plan
<1>7. ShiftSound'
  BY <1>1 DEF IInv, TypeOK, ShiftSound, Plan, Goto
<1> QED BY <1>3, <1>4, <1>5, <1>6, <1>7 DEF IInv

(* Writing the planned traffic record keeps the invariant: from now on the *)
(* planned cache names revisions that have served.                         *)
LEMMA ShiftKeeps ==
    ASSUME IInv, NEW h \in Handlers, Shift(h)
    PROVE  IInv'
<1>1. h \in Writers /\ h # App /\ Handlers \subseteq Writers /\ App \in Writers
  BY AppAssumption DEF Writers
<1>2. /\ pc[h] \in ShiftSteps /\ pc[h] # "idle"
      /\ shift[h] \in TrafficRecords /\ shift[h].active # None
      /\ shift[h].active # shift[h].prev
      /\ shift[h].active \in Revisions
  BY DEF IInv, TypeOK, Shift, ShiftSound, ShiftSteps, TrafficRecords, OptRevision
<1>3. PICK s \in Steps \ ShiftSteps : Goto(h, s) /\ s # "idle"
  BY DEF Shift, Steps, ShiftSteps
<1>4. NoTraffic \in TrafficRecords /\ NoTraffic.active = None
  BY DEF NoTraffic, TrafficRecords, OptRevision
<1>5. TypeOK'
  BY <1>1, <1>2, <1>3, <1>4 DEF IInv, TypeOK, Shift, Goto
<1>6. CacheNamesServed' /\ PredecessorDiffers'
  BY <1>2 DEF IInv, CacheNamesServed, PredecessorDiffers, Shift
<1>7. CopiesServed'
  BY <1>1, <1>4 DEF IInv, TypeOK, CopiesServed, NamesServed, Shift
<1>8. CopiesDiffer'
  BY DEF IInv, CopiesDiffer, Shift
<1>9. ShiftSound'
  BY <1>1, <1>3 DEF IInv, TypeOK, ShiftSound, Shift, Goto
<1> QED BY <1>5, <1>6, <1>7, <1>8, <1>9 DEF IInv

(* A handler that ends after saving its copy, or without touching the      *)
(* state file.                                                             *)
LEMMA EndIInv ==
    ASSUME IInv, NEW h \in Handlers, End(h),
           cand' \in [Revisions -> CandidateStates],
           \/ cache' = cache
           \/ cache' = copy[h] /\ pc[h] \notin ShiftSteps,
           UNCHANGED <<traffic, served>>
    PROVE  IInv'
<1>1. h \in Writers
  BY DEF Writers
<1>2. TypeOK'
  BY <1>1, EndKeeps DEF IInv, TypeOK
<1>3. CacheNamesServed' /\ PredecessorDiffers'
  BY <1>1 DEF IInv, CacheNamesServed, PredecessorDiffers, CopiesServed, CopiesDiffer,
              NamesServed, Differs, ShiftSound, NoTraffic
<1> QED BY <1>2, <1>3, EndKeeps DEF IInv

-----------------------------------------------------------------------------
(* Every step of a handler keeps the invariant. *)
LEMMA HandleIInv ==
    ASSUME IInv, NEW h \in Handlers, Handle(h)
    PROVE  IInv'
<1>1. h \in Writers /\ h # App
  BY AppAssumption DEF Writers
<1>2. rev[h] \in OptRevision /\ (pc[h] # "idle" => rev[h] \in Revisions)
  BY DEF IInv, TypeOK
<1>3. /\ seen[h] \in CandidateStates /\ copy[h] \in Caches /\ traffic \in TrafficRecords
      /\ cand \in [Revisions -> CandidateStates]
  BY <1>1 DEF IInv, TypeOK
<1>4. ASSUME NEW r \in Revisions, Accept(h, r) PROVE IInv'
  <2>1. PICK s \in FirstStep : Goto(h, s)
    BY <1>4 DEF Accept
  <2>2. TypeOK'
    BY <1>1, <1>4, <2>1 DEF IInv, TypeOK, Accept, Goto, files, Steps, OptRevision
  <2>3. CacheNamesServed' /\ PredecessorDiffers' /\ CopiesServed' /\ CopiesDiffer'
    BY <1>4 DEF IInv, Accept, files, CacheNamesServed, PredecessorDiffers,
                CopiesServed, CopiesDiffer
  <2>4. ShiftSound'
    <3>1. shift' = shift /\ pc[h] = "idle" /\ pc' = [pc EXCEPT ![h] = s]
      BY <1>4, <2>1 DEF Accept, Goto
    <3> QED BY <1>1, <3>1 DEF IInv, TypeOK, ShiftSound, ShiftSteps, FirstStep, Writers
  <2> QED BY <2>2, <2>3, <2>4 DEF IInv
<1>5. CASE Fail(h)
  BY <1>5, EndIInv DEF Fail, files, IInv, TypeOK
<1>6. CASE PrepareReleaseWorkspace(h)
  <2>1. rev[h] \in Revisions
    BY <1>2, <1>6 DEF PrepareReleaseWorkspace
  <2>2. cand' \in [Revisions -> CandidateStates]
    BY <1>6, <2>1 DEF PrepareReleaseWorkspace, IInv, TypeOK, CandidateStates
  <2>3. CASE End(h)
    BY <1>6, <2>2, <2>3, EndIInv DEF PrepareReleaseWorkspace
  <2>4. CASE Goto(h, "load") /\ UNCHANGED <<rev, seen, shift, copy>>
    <3>1. /\ "load" \in Steps \ ShiftSteps /\ pc[h] # "idle" /\ pc[h] \notin ShiftSteps
          /\ seen' \in [Handlers -> CandidateStates]
      BY <1>6, <2>4 DEF Steps, ShiftSteps, PrepareReleaseWorkspace, IInv, TypeOK
    <3> QED BY <1>6, <2>2, <2>4, <3>1, CandidateKeeps DEF PrepareReleaseWorkspace
  <2> QED BY <1>6, <2>3, <2>4 DEF PrepareReleaseWorkspace
<1>7. CASE StartReleaseCandidate(h)
  <2>1. /\ pc[h] # "idle" /\ pc[h] \notin ShiftSteps
        /\ "load" \in Steps \ ShiftSteps /\ "start_save" \in Steps \ ShiftSteps
    BY <1>7 DEF StartReleaseCandidate, Steps, ShiftSteps
  <2>2. CASE LoadCandidate(h, "start_save")
    BY <1>7, <2>1, <2>2, LoadKeeps DEF StartReleaseCandidate
  <2>3. CASE Goto(h, "load") /\ UNCHANGED <<files, rev, seen, served>>
    <3>1. cand' \in [Revisions -> CandidateStates] /\ seen' \in [Handlers -> CandidateStates]
      BY <2>3 DEF files, IInv, TypeOK
    <3> QED BY <1>7, <2>1, <2>3, <3>1, CandidateKeeps DEF StartReleaseCandidate, files
  <2> QED BY <1>7, <2>2, <2>3 DEF StartReleaseCandidate
<1>8. CASE RecordCandidate(h)
  <2>1. /\ pc[h] # "idle" /\ pc[h] \notin ShiftSteps /\ "load" \in Steps \ ShiftSteps
        /\ Started(seen[h]) \in CandidateStates
    BY <1>3, <1>8 DEF RecordCandidate, Steps, ShiftSteps, Started, CandidateStates
  <2> QED BY <1>8, <2>1, SaveKeeps DEF RecordCandidate
<1>9. CASE RunHealthGate(h)
  <2>1. /\ pc[h] # "idle" /\ pc[h] \notin ShiftSteps /\ "gate_report" \in Steps \ ShiftSteps
    BY <1>9 DEF RunHealthGate, Steps, ShiftSteps
  <2> QED BY <1>9, <2>1, LoadKeeps DEF RunHealthGate
<1>10. CASE HealthGateReport(h)
  <2>1. /\ pc[h] # "idle" /\ pc[h] \notin ShiftSteps /\ "load" \in Steps \ ShiftSteps
        /\ moveCandidateToPromotable(seen[h]) \in CandidateStates
        /\ moveCandidateToFailed(seen[h]) \in CandidateStates
    BY <1>3, <1>10 DEF HealthGateReport, Steps, ShiftSteps, moveCandidateToPromotable,
                       moveCandidateToFailed, CandidateStates
  <2> QED BY <1>10, <2>1, SaveKeeps DEF HealthGateReport
<1>11. CASE populateRolloutContext(h)
  <2>1. PICK s \in Steps \ ShiftSteps : Goto(h, s) /\ pc[h] # "idle" /\ pc[h] \notin ShiftSteps
    BY <1>11 DEF populateRolloutContext, Steps, ShiftSteps
  <2> QED BY <1>1, <1>11, <2>1, CopyKeeps DEF populateRolloutContext
<1>12. CASE PromoteRelease(h)
  <2> DEFINE r == rev[h]
             t == PromotedTraffic(r, copy[h])
             c == [current |-> r, prev |-> t.prev]
  <2>1. r \in Revisions /\ pc[h] # "idle" /\ pc[h] \notin ShiftSteps
    BY <1>2, <1>12 DEF PromoteRelease, ShiftSteps
  <2>2. /\ t \in TrafficRecords /\ t.active = r /\ t.prev # r
        /\ t.prev \in {copy[h].current, None}
    BY <1>3, <2>1, PromotedTrafficFacts
  <2>3. c \in Caches /\ Differs(c) /\ t.active # None
    BY <2>1, <2>2, NoneAssumption DEF Caches, TrafficRecords, OptRevision, Differs
  <2>4. NamesServed(c, served \cup {t.active})
    <3>1. shift[h] = NoTraffic /\ NamesServed(copy[h], served \cup {shift[h].active})
      BY <2>1 DEF IInv, ShiftSound, CopiesServed
    <3> QED BY <2>2, <3>1 DEF NamesServed, NoTraffic
  <2>5. /\ Plan(h, t, c) /\ Goto(h, "promote_shift") /\ UNCHANGED <<files, rev, served>>
        /\ seen' \in [Handlers -> CandidateStates] /\ "promote_shift" \in ShiftSteps
    BY <1>3, <1>12, <2>1 DEF PromoteRelease, LoadCandidate, ShiftSteps, IInv, TypeOK
  <2> HIDE DEF t, c
  <2> QED BY <2>1, <2>2, <2>3, <2>4, <2>5, PlanKeeps
<1>13. CASE RollbackRelease(h)
  <2> DEFINE plan == selectRollbackPlan(rev[h], copy[h], traffic)
             t == RolledBackTraffic(plan)
             c == [current |-> plan.restored, prev |-> None]
  <2>1. /\ rev[h] \in Revisions
        /\ pc[h] # "idle" /\ traffic.active # None /\ plan.restored # None
    BY <1>2, <1>13 DEF RollbackRelease
  <2>2. /\ plan.restored \in Revisions /\ plan.failed \in Revisions
        /\ plan.restored # plan.failed
    BY <1>3, <2>1, RollbackPlanFacts
  <2>3. /\ Plan(h, t, c) /\ Goto(h, "rollback_shift") /\ UNCHANGED <<files, rev, served>>
        /\ seen' \in [Handlers -> CandidateStates] /\ "rollback_shift" \in ShiftSteps
    BY <1>13 DEF RollbackRelease, ShiftSteps, IInv, TypeOK
  <2> HIDE DEF plan
  <2>4. /\ t \in TrafficRecords /\ t.active # None /\ t.active # t.prev
        /\ t.active = plan.restored
    BY <2>2, NoneAssumption DEF RolledBackTraffic, TrafficRecords, OptRevision
  <2>5. c \in Caches /\ Differs(c) /\ NamesServed(c, served \cup {t.active})
    BY <2>2, <2>4, NoneAssumption DEF Caches, OptRevision, Differs, NamesServed
  <2> HIDE DEF t, c
  <2> QED BY <2>1, <2>3, <2>4, <2>5, PlanKeeps
<1>14. CASE Shift(h)
  BY <1>14, ShiftKeeps
<1>15. CASE AnnotatePromoted(h)
  <2>1. pc[h] # "idle" /\ pc[h] \notin ShiftSteps /\ "record" \in Steps \ ShiftSteps
    BY <1>15 DEF AnnotatePromoted, Steps, ShiftSteps
  <2> QED BY <1>3, <1>15, <2>1, SaveKeeps DEF AnnotatePromoted
<1>16. CASE LoadRolledBack(h)
  <2>1. /\ pc[h] # "idle" /\ pc[h] \notin ShiftSteps
        /\ "record" \in Steps \ ShiftSteps /\ "annotate_save" \in Steps \ ShiftSteps
    BY <1>16 DEF LoadRolledBack, Steps, ShiftSteps
  <2>2. CASE LoadCandidate(h, "annotate_save")
    BY <1>16, <2>1, <2>2, LoadKeeps DEF LoadRolledBack
  <2>3. CASE Goto(h, "record") /\ UNCHANGED <<files, rev, seen, served>>
    <3>1. cand' \in [Revisions -> CandidateStates] /\ seen' \in [Handlers -> CandidateStates]
      BY <2>3 DEF files, IInv, TypeOK
    <3> QED BY <1>16, <2>1, <2>3, <3>1, CandidateKeeps DEF LoadRolledBack, files
  <2> QED BY <1>16, <2>2, <2>3 DEF LoadRolledBack
<1>17. CASE AnnotateRolledBack(h)
  <2>1. /\ pc[h] # "idle" /\ pc[h] \notin ShiftSteps /\ "record" \in Steps \ ShiftSteps
        /\ RolledBackCandidate(seen[h]) \in CandidateStates
    BY <1>3, <1>17 DEF AnnotateRolledBack, Steps, ShiftSteps, RolledBackCandidate,
                       CandidateStates
  <2>2. CASE SaveCandidate(h, RolledBackCandidate(seen[h]), "record")
    BY <2>1, <2>2, SaveKeeps
  <2>3. CASE /\ Goto(h, "record")
             /\ seen' = [seen EXCEPT ![h] = "none"]
             /\ UNCHANGED <<files, rev, shift, copy, served>>
    <3>1. cand' \in [Revisions -> CandidateStates] /\ seen' \in [Handlers -> CandidateStates]
      BY <2>3 DEF files, IInv, TypeOK, CandidateStates
    <3> QED BY <2>1, <2>3, <3>1, CandidateKeeps DEF files
  <2> QED BY <1>17, <2>2, <2>3 DEF AnnotateRolledBack
<1>18. CASE RecordShift(h) \/ Save(h)
  <2>1. pc[h] \notin ShiftSteps
    BY <1>18 DEF RecordShift, Save, ShiftSteps
  <2> QED BY <1>18, <2>1, EndIInv DEF RecordShift, Save, IInv, TypeOK
<1>19. CASE Load(h)
  <2>1. "save" \in Steps \ ShiftSteps /\ pc[h] # "idle" /\ pc[h] \notin ShiftSteps
    BY <1>19 DEF Load, Steps, ShiftSteps
  <2> QED BY <1>1, <1>19, <2>1, CopyKeeps DEF Load
<1> QED
  BY <1>4, <1>5, <1>6, <1>7, <1>8, <1>9, <1>10, <1>11, <1>12, <1>13, <1>14, <1>15,
     <1>16, <1>17, <1>18, <1>19 DEF Handle

(* The invariant is inductive. *)
LEMMA NextIInv == IInv /\ [Next]_vars => IInv'
<1> SUFFICES ASSUME IInv, [Next]_vars PROVE IInv'
  OBVIOUS
<1>1. /\ App \in Writers /\ Handlers \subseteq Writers /\ App \notin Handlers
      /\ "save" \in Steps \ ShiftSteps /\ "idle" \in Steps \ ShiftSteps
      /\ pc[App] \notin ShiftSteps
  BY AppAssumption DEF Writers, Steps, ShiftSteps, IInv, TypeOK
<1>2. /\ EmptyCache \in Caches /\ Differs(EmptyCache)
      /\ NamesServed(EmptyCache, served) /\ NamesServed(EmptyCache, served \cup {None})
      /\ NoTraffic \in TrafficRecords /\ NoTraffic.active = None
  BY DEF EmptyCache, NoTraffic, Caches, TrafficRecords, OptRevision, Differs, NamesServed
<1>3. CASE UNCHANGED vars
  BY <1>3 DEF vars, IInv, TypeOK, CacheNamesServed, PredecessorDiffers,
              CopiesServed, CopiesDiffer, ShiftSound
<1>4. ASSUME NEW h \in Handlers, Handle(h) PROVE IInv'
  BY <1>4, HandleIInv
<1>5. CASE HeartbeatLoad
  BY <1>1, <1>5, CopyKeeps DEF HeartbeatLoad
<1>6. CASE HeartbeatSave
  <2>1. TypeOK'
    BY <1>1, <1>2, <1>6 DEF HeartbeatSave, Goto, IInv, TypeOK
  <2>2. CacheNamesServed' /\ PredecessorDiffers'
    BY <1>1, <1>6 DEF HeartbeatSave, IInv, CacheNamesServed, PredecessorDiffers,
                      CopiesServed, CopiesDiffer, NamesServed, Differs
  <2>3. CopiesServed' /\ CopiesDiffer'
    BY <1>1, <1>2, <1>6 DEF HeartbeatSave, IInv, TypeOK, CopiesServed, CopiesDiffer
  <2>4. ShiftSound'
    BY <1>1, <1>6 DEF HeartbeatSave, Goto, IInv, TypeOK, ShiftSound
  <2> QED BY <2>1, <2>2, <2>3, <2>4 DEF IInv
<1>7. CASE Crash
  <2>1. TypeOK'
    BY <1>1, <1>2, <1>7 DEF Crash, files, IInv, TypeOK, OptRevision, CandidateStates
  <2>2. CacheNamesServed' /\ PredecessorDiffers'
    BY <1>7 DEF Crash, files, IInv, CacheNamesServed, PredecessorDiffers
  <2>3. CopiesServed' /\ CopiesDiffer'
    BY <1>1, <1>2, <1>7 DEF Crash, files, CopiesServed, CopiesDiffer
  <2>4. ShiftSound'
    BY <1>1, <1>7 DEF Crash, ShiftSound
  <2> QED BY <2>1, <2>2, <2>3, <2>4 DEF IInv
<1> QED BY <1>3, <1>4, <1>5, <1>6, <1>7 DEF Next

(* The whole invariant holds in every state of the agent. *)
LEMMA AlwaysIInv == Spec => []IInv
BY InitIInv, NextIInv, PTL DEF Spec

-----------------------------------------------------------------------------
(* Every variable of the agent stays in its range; in particular a handler *)
(* that is not idle has a command, and a candidate record is only saved in *)
(* a state the transition table knows (candidate.go).                      *)
THEOREM TypeCorrect == Spec => []TypeOK
<1>1. IInv => TypeOK BY DEF IInv
<1> QED BY <1>1, AlwaysIInv, PTL

(* The revision cache names only revisions that have carried traffic, for  *)
(* any number of concurrent commands, stale saves and crashes (promotion   *)
(* and rollback write the traffic record before store.Update).             *)
THEOREM CacheSound == Spec => []CacheNamesServed
<1>1. IInv => CacheNamesServed BY DEF IInv
<1> QED BY <1>1, AlwaysIInv, PTL

(* Neither record ever names a revision as its own predecessor             *)
(* (PromoteRelease, selectRollbackPlan).                                   *)
THEOREM PredecessorSound == Spec => []PredecessorDiffers
<1>1. IInv => PredecessorDiffers BY DEF IInv
<1> QED BY <1>1, AlwaysIInv, PTL

(* Together: what a later rollback relies on in the two records. *)
THEOREM Records == Spec => []RecordsSound
<1>1. IInv => RecordsSound BY DEF IInv, RecordsSound
<1> QED BY <1>1, AlwaysIInv, PTL

(* A failed candidate becomes anything but removed only when a command     *)
(* saves a record it loaded before the failure: what the gate, the start,  *)
(* the promotion and the rollback make of a failed record is a failed one  *)
(* (moveCandidateToPromotable refuses it).                                 *)
THEOREM FailedFinal == Spec => FailedIsFinal
<1> DEFINE Undone ==
        \A r \in Revisions :
            cand[r] = "failed" /\ cand'[r] \notin {"failed", "none"} =>
                \E h \in Handlers :
                    rev[h] = r /\ pc[h] \in CandidateSaves /\ seen[h] # "failed"
<1>1. TypeOK /\ [Next]_vars => [Undone]_vars
  <2> SUFFICES ASSUME TypeOK, Next PROVE Undone
    OBVIOUS
  <2>1. ASSUME NEW h \in Handlers, Handle(h) PROVE Undone
    <3>1. ASSUME NEW c, NEW s, SaveCandidate(h, c, s), pc[h] \in CandidateSaves,
                 seen[h] = "failed" => c = "failed"
          PROVE  Undone
      BY <3>1 DEF TypeOK, SaveCandidate
    <3>2. CASE RecordCandidate(h)
      BY <3>1, <3>2 DEF RecordCandidate, Started, CandidateSaves
    <3>3. CASE HealthGateReport(h)
      BY <3>1, <3>3 DEF HealthGateReport, moveCandidateToPromotable, moveCandidateToFailed,
                        CandidateSaves
    <3>4. CASE AnnotatePromoted(h)
      BY <3>1, <3>4 DEF AnnotatePromoted, CandidateSaves
    <3>5. CASE AnnotateRolledBack(h)
      <4>1. CASE SaveCandidate(h, RolledBackCandidate(seen[h]), "record")
        BY <3>1, <3>5, <4>1 DEF AnnotateRolledBack, RolledBackCandidate, CandidateSaves
      <4>2. CASE cand' = cand
        BY <4>2
      <4> QED BY <3>5, <4>1, <4>2 DEF AnnotateRolledBack, files
    <3>6. CASE PrepareReleaseWorkspace(h)
      BY <3>6 DEF TypeOK, PrepareReleaseWorkspace
    <3>7. CASE cand' = cand
      BY <3>7
    <3> QED
      BY <2>1, <3>2, <3>3, <3>4, <3>5, <3>6, <3>7
         DEF Handle, Accept, Fail, StartReleaseCandidate, RunHealthGate, LoadCandidate,
             populateRolloutContext, PromoteRelease, RollbackRelease, Shift,
             LoadRolledBack, RecordShift, Load, Save, files
  <2>2. CASE HeartbeatLoad \/ HeartbeatSave \/ Crash
    BY <2>2 DEF HeartbeatLoad, HeartbeatSave, Crash, files
  <2> QED BY <2>1, <2>2 DEF Next
<1> QED BY <1>1, TypeCorrect, PTL DEF Spec, FailedIsFinal

=============================================================================
