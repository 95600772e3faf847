----------------------------- MODULE Node_proofs ------------------------------
(***************************************************************************)
(* The parts of an agent's node, each for every value of its constants:    *)
(* the live files of the gateway, the requests on hold, the password       *)
(* marker of the internal Postgres, the compatibility sidecars, the routes *)
(* of the mesh, the log tails of a cluster, what is reported of logs and   *)
(* requests, the log followers, and the health gate a release goes         *)
(* through.  Each part has the strengthened invariant, that a step keeps   *)
(* it, and the theorem.                                                    *)
(***************************************************************************)
EXTENDS Gateway, Autosleep, NodeContainers, Sidecars, Mesh, K3sNode, Telemetry,
        HealthGate, Induction, FiniteSetTheorems, TLAPS

-----------------------------------------------------------------------------
(* Gateway.  What the live files hold at each step of a render that has    *)
(* them for itself: they agree until the first is written, are of the      *)
(* plan's version one by one, and a rollback makes them of the previous    *)
(* one in the same order.  While nothing is torn whatever renders does so  *)
(* alone.                                                                  *)

GwVersions  == Versions \cup {"none"}
RenderSteps == {"idle", "validate", "config", "plan", "active", "applied", "reload", "observe",
                "report", "unconfig", "unplan", "unactive"}
Written(file) ==
    CASE file = "config" -> {"plan", "active", "applied", "reload", "observe", "report"}
      [] file = "plan"   -> {"active", "applied", "reload", "observe", "report"}
      [] file = "active" -> {"applied", "reload", "observe", "report"}
Restored(file) ==
    CASE file = "config" -> {"unplan", "unactive"}
      [] file = "plan"   -> {"unactive"}
      [] file = "active" -> {}
GwFiles == {"config", "plan", "active"}
Agree(live) == live.config = live.plan /\ live.plan = live.active
RenderRecords ==
    [step : RenderSteps, version : GwVersions, previous : GwVersions, alone : BOOLEAN]

GatewayTyped(live, render) ==
    /\ live \in [config : GwVersions, plan : GwVersions, active : GwVersions]
    /\ render \in [Renders -> RenderRecords]

AloneIsAlone(render, torn) ==
    \A r \in Renders : render[r].step # "idle" =>
        /\ render[r].alone => \A o \in Renders \ {r} : render[o].step = "idle"
        /\ ~torn => render[r].alone

HoldsOf(live, re) ==
    re.alone => \A f \in GwFiles :
        /\ re.step \in Written(f) => live[f] = re.version
        /\ re.step \in Restored(f) => live[f] = re.previous

UntornAgree(live, render, torn) ==
    ~torn /\ (\A r \in Renders : render[r].step \in {"idle", "validate", "config"}) => Agree(live)

GatewayIs(live, render, torn) ==
    /\ GatewayTyped(live, render)
    /\ AloneIsAlone(render, torn)
    /\ \A r \in Renders : HoldsOf(live, render[r])
    /\ UntornAgree(live, render, torn)

GatewayInv == GatewayIs(gwLive, gwRender, gwTorn)

LEMMA GatewayInit_Inv == GatewayInit => GatewayInv
<1> SUFFICES ASSUME GatewayInit PROVE GatewayInv
  OBVIOUS
<1>1. gwLive = NoLive /\ gwRender = [r \in Renders |-> NoRender] BY DEF GatewayInit
<1>2. NoRender \in RenderRecords BY DEF NoRender, RenderRecords, RenderSteps, GwVersions
<1>3. GatewayTyped(gwLive, gwRender) BY <1>1, <1>2 DEF GatewayTyped, NoLive, GwVersions
<1>4. \A r \in Renders : gwRender[r].step = "idle" /\ gwRender[r].alone = FALSE BY <1>1 DEF NoRender
<1>5. Agree(gwLive) BY <1>1 DEF Agree, NoLive
<1> QED BY <1>3, <1>4, <1>5 DEF GatewayInv, GatewayIs, AloneIsAlone, HoldsOf, UntornAgree

(* A step of one render keeps the invariant when it does so for the files  *)
(* that render has for itself; what it does beside others is torn anyway.  *)
LEMMA StepOfOne ==
    ASSUME NEW live, NEW live2, NEW render, NEW render2, NEW torn, NEW torn2, NEW r \in Renders, NEW re,
           GatewayIs(live, render, torn), render[r].step # "idle",
           re \in RenderRecords, re.step # "idle" => re.alone = render[r].alone,
           render2 = [render EXCEPT ![r] = re],
           live2 \in [config : GwVersions, plan : GwVersions, active : GwVersions],
           ~torn2 => ~torn \/ (render[r].alone /\ re.step = "idle"),
           render[r].alone => HoldsOf(live2, re),
           render[r].alone /\ ~torn2 /\ re.step \in {"idle", "validate", "config"} => Agree(live2)
    PROVE  GatewayIs(live2, render2, torn2)
<1>1. GatewayTyped(live2, render2) BY DEF GatewayIs, GatewayTyped
<1>2. /\ render \in [Renders -> RenderRecords]
      /\ render2[r] = re /\ \A o \in Renders \ {r} : render2[o] = render[o]
  BY DEF GatewayIs, GatewayTyped
<1>3. ASSUME NEW o \in Renders \ {r}
      PROVE  /\ render[r].alone => render[o].step = "idle"
             /\ render[o].step # "idle" => ~render[o].alone
             /\ ~torn => render[r].alone
  BY <1>2 DEF GatewayIs, AloneIsAlone, RenderRecords
<1>4. AloneIsAlone(render2, torn2)
  <2> SUFFICES ASSUME NEW x \in Renders, render2[x].step # "idle"
               PROVE  /\ render2[x].alone => \A o \in Renders \ {x} : render2[o].step = "idle"
                      /\ ~torn2 => render2[x].alone
    BY DEF AloneIsAlone
  <2>1. CASE x = r
    <3>1. re.step # "idle" /\ re.alone = render[r].alone BY <1>2, <2>1
    <3>2. ~torn => render[r].alone BY DEF GatewayIs, AloneIsAlone
    <3> QED BY <1>2, <1>3, <2>1, <3>1, <3>2
  <2>2. CASE x # r
    <3>1. render[x].step # "idle" /\ ~render[x].alone /\ render2[x] = render[x] BY <1>2, <1>3, <2>2
    <3>2. torn /\ ~render[r].alone BY <1>3, <2>2, <3>1 DEF GatewayIs, AloneIsAlone
    <3> QED BY <3>1, <3>2
  <2> QED BY <2>1, <2>2
<1>5. ASSUME NEW x \in Renders PROVE HoldsOf(live2, render2[x])
  <2>1. CASE x = r
    <3>1. re.alone => render[r].alone \/ re.step = "idle" OBVIOUS
    <3>2. re.step = "idle" => HoldsOf(live2, re) BY DEF HoldsOf, Written, Restored, GwFiles
    <3>3. ~re.alone => HoldsOf(live2, re) BY DEF HoldsOf
    <3> QED BY <1>2, <2>1, <3>1, <3>2, <3>3
  <2>2. CASE x # r
    <3>1. render2[x] = render[x] /\ (render[x].step # "idle" => ~render[x].alone) BY <1>2, <1>3, <2>2
    <3> QED BY <3>1 DEF HoldsOf, Written, Restored, GwFiles
  <2> QED BY <2>1, <2>2
<1>6. UntornAgree(live2, render2, torn2)
  <2> SUFFICES ASSUME ~torn2, \A x \in Renders : render2[x].step \in {"idle", "validate", "config"} PROVE Agree(live2)
    BY DEF UntornAgree
  <2>1. render[r].alone BY DEF GatewayIs, AloneIsAlone
  <2>2. re.step \in {"idle", "validate", "config"} BY <1>2
  <2> QED BY <2>1, <2>2
<1> QED BY <1>1, <1>4, <1>5, <1>6 DEF GatewayIs

LEMMA StepFacts ==
    ASSUME GatewayTyped(gwLive, gwRender), NEW r \in Renders, NEW s \in RenderSteps, RenderStep(r, s)
    PROVE  \E re \in RenderRecords :
             /\ gwRender' = [gwRender EXCEPT ![r] = re]
             /\ re.step = s /\ re.version = gwRender[r].version /\ re.previous = gwRender[r].previous
             /\ re.alone = gwRender[r].alone
<1> DEFINE old == gwRender[r]
           re == [old EXCEPT !.step = s]
<1>1. old \in RenderRecords BY DEF GatewayTyped
<1>2. /\ re \in RenderRecords /\ re.step = s /\ re.version = old.version
      /\ re.previous = old.previous /\ re.alone = old.alone
  BY <1>1 DEF RenderRecords
<1>3. gwRender' = [gwRender EXCEPT ![r] = re] BY DEF RenderStep
<1> QED BY <1>2, <1>3

LEMMA OverFacts ==
    ASSUME NEW r \in Renders, RenderOver(r)
    PROVE  \E re \in RenderRecords :
             gwRender' = [gwRender EXCEPT ![r] = re] /\ re.step = "idle" /\ re.alone = FALSE
<1>1. NoRender \in RenderRecords BY DEF NoRender, RenderRecords, RenderSteps, GwVersions
<1> QED BY <1>1 DEF RenderOver, NoRender

LEMMA PutFacts ==
    ASSUME GatewayTyped(gwLive, gwRender), NEW f \in GwFiles, NEW v \in GwVersions, PutLive(f, v)
    PROVE  /\ gwLive' \in [config : GwVersions, plan : GwVersions, active : GwVersions]
           /\ gwLive'[f] = v /\ \A g \in GwFiles \ {f} : gwLive'[g] = gwLive[g]
BY DEF GatewayTyped, PutLive, GwFiles

LEMMA TryFacts ==
    ASSUME GatewayTyped(gwLive, gwRender), NEW f \in GwFiles, NEW v \in GwVersions, TryLive(f, v)
    PROVE  /\ gwLive' \in [config : GwVersions, plan : GwVersions, active : GwVersions]
           /\ \A g \in GwFiles \ {f} : gwLive'[g] = gwLive[g]
<1>1. PICK w \in {gwLive[f], "none", v} : PutLive(f, w) BY DEF TryLive
<1>2. w \in GwVersions BY DEF GatewayTyped, GwVersions, GwFiles
<1> QED BY <1>1, <1>2, PutFacts

LEMMA LiveTyped ==
    ASSUME GatewayInv, NEW r \in Renders
    PROVE  /\ gwLive \in [config : GwVersions, plan : GwVersions, active : GwVersions]
           /\ gwRender[r] \in RenderRecords
           /\ gwRender[r].version \in GwVersions /\ gwRender[r].previous \in GwVersions
           /\ gwRender[r].alone \in BOOLEAN
           /\ GatewayTyped(gwLive, gwRender) /\ GatewayIs(gwLive, gwRender, gwTorn)
           /\ HoldsOf(gwLive, gwRender[r])
BY DEF GatewayInv, GatewayIs, GatewayTyped, RenderRecords

LEMMA RenderNext_Inv ==
    ASSUME GatewayInv, NEW r \in Renders, RenderOf(r)
    PROVE  GatewayInv'
<1> DEFINE old == gwRender[r]
<1> USE DEF RenderSteps
<1>0. /\ GatewayTyped(gwLive, gwRender) /\ GatewayIs(gwLive, gwRender, gwTorn)
      /\ gwLive \in [config : GwVersions, plan : GwVersions, active : GwVersions]
      /\ old \in RenderRecords /\ old.version \in GwVersions /\ old.previous \in GwVersions
      /\ HoldsOf(gwLive, old)
  BY LiveTyped
<1>q. ~gwTorn /\ old.alone /\ old.step = "validate" => Agree(gwLive)
  <2> SUFFICES ASSUME ~gwTorn, old.alone, old.step = "validate" PROVE Agree(gwLive)
    OBVIOUS
  <2>1. \A o \in Renders : gwRender[o].step \in {"idle", "validate", "config"}
    BY <1>0 DEF GatewayIs, AloneIsAlone
  <2> QED BY <1>0, <2>1 DEF GatewayIs, UntornAgree
<1>r. ASSUME NEW re \in RenderRecords, gwRender' = [gwRender EXCEPT ![r] = re], old.step # "idle",
             re.step # "idle" => re.alone = old.alone,
             gwLive' \in [config : GwVersions, plan : GwVersions, active : GwVersions],
             ~gwTorn' => ~gwTorn \/ (old.alone /\ re.step = "idle"),
             old.alone => HoldsOf(gwLive', re),
             old.alone /\ ~gwTorn' /\ re.step \in {"idle", "validate", "config"} => Agree(gwLive')
      PROVE  GatewayInv'
  BY <1>0, <1>r, StepOfOne DEF GatewayInv
<1> HIDE DEF old
<1>1. CASE RenderGatewayConfig(r)
  <2> DEFINE others == {o \in Renders : gwRender[o].step # "idle"}
  <2>1. /\ gwRender[r].step = "idle" /\ UNCHANGED gwLive /\ gwTorn' = (gwTorn \/ others # {})
        /\ \E version \in Versions : gwRender' = [o \in Renders |->
              IF o = r THEN [step |-> "validate", version |-> version, previous |-> gwLive.active, alone |-> others = {}]
              ELSE [gwRender[o] EXCEPT !.alone = FALSE]]
    BY <1>1, GatewayAssumption, Zenon DEF RenderGatewayConfig
  <2>2. PICK version \in Versions : gwRender' = [o \in Renders |->
              IF o = r THEN [step |-> "validate", version |-> version, previous |-> gwLive.active, alone |-> others = {}]
              ELSE [gwRender[o] EXCEPT !.alone = FALSE]]
    BY <2>1
  <2>3. [step |-> "validate", version |-> version, previous |-> gwLive.active, alone |-> others = {}] \in RenderRecords
    BY <1>0 DEF RenderRecords, GwVersions
  <2>4. \A o \in Renders \ {r} : [gwRender[o] EXCEPT !.alone = FALSE] \in RenderRecords
                                 /\ gwRender'[o] = [gwRender[o] EXCEPT !.alone = FALSE]
    BY <1>0, <2>2 DEF GatewayTyped, RenderRecords
  <2>5. GatewayTyped(gwLive, gwRender)' BY <1>0, <2>1, <2>2, <2>3, <2>4 DEF GatewayTyped
  <2>6. gwRender'[r].step = "validate" /\ gwRender'[r].alone = (others = {}) BY <2>2
  <2>7. \A o \in Renders \ {r} : gwRender'[o].step = gwRender[o].step /\ gwRender'[o].alone = FALSE
    <3> SUFFICES ASSUME NEW o \in Renders \ {r}
                 PROVE  gwRender'[o].step = gwRender[o].step /\ gwRender'[o].alone = FALSE
      OBVIOUS
    <3>1. gwRender[o] \in RenderRecords BY <1>0 DEF GatewayTyped
    <3>2. gwRender'[o] = [gwRender[o] EXCEPT !.alone = FALSE] BY <2>4
    <3> QED BY <3>1, <3>2 DEF RenderRecords
  <2>8. AloneIsAlone(gwRender, gwTorn)'
    BY <2>1, <2>6, <2>7 DEF AloneIsAlone
  <2>9. \A x \in Renders : HoldsOf(gwLive, gwRender[x])'
    BY <2>1, <2>6, <2>7 DEF HoldsOf, Written, Restored, GwFiles
  <2>10. UntornAgree(gwLive, gwRender, gwTorn)'
    BY <1>0, <2>1, <2>6, <2>7 DEF UntornAgree, GatewayIs
  <2> QED BY <2>5, <2>8, <2>9, <2>10 DEF GatewayInv, GatewayIs
<1>2. CASE defaultValidate(r)
  <2>1. old.step = "validate" /\ UNCHANGED <<gwLive, gwTorn>> BY <1>2 DEF defaultValidate, old
  <2>2. CASE RenderStep(r, "config")
    <3>1. PICK re \in RenderRecords : gwRender' = [gwRender EXCEPT ![r] = re] /\ re.step = "config" /\ re.alone = old.alone
      BY <1>0, <2>2, StepFacts DEF old
    <3> QED BY <1>r, <1>q, <1>0, <2>1, <3>1 DEF HoldsOf, Written, Restored, GwFiles
  <2>3. CASE RenderOver(r)
    <3>1. PICK re \in RenderRecords : gwRender' = [gwRender EXCEPT ![r] = re] /\ re.step = "idle" /\ re.alone = FALSE
      BY <2>3, OverFacts
    <3> QED BY <1>r, <1>q, <1>0, <2>1, <3>1 DEF HoldsOf
  <2> QED BY <1>2, <2>2, <2>3 DEF defaultValidate
<1>3. ASSUME NEW f \in GwFiles, NEW n, WriteLive(r, f, f, n),
             <<f, n>> \in {<<"config", "plan">>, <<"plan", "active">>, <<"active", "applied">>}
      PROVE  GatewayInv'
  <2>1. old.step = f /\ UNCHANGED gwTorn /\ n \in RenderSteps BY <1>3 DEF WriteLive, old
  <2>2. CASE PutLive(f, gwRender[r].version) /\ RenderStep(r, n)
    <3>1. PICK re \in RenderRecords :
            /\ gwRender' = [gwRender EXCEPT ![r] = re] /\ re.step = n /\ re.alone = old.alone /\ re.version = old.version
      BY <1>0, <2>1, <2>2, StepFacts DEF old
    <3>2. /\ gwLive' \in [config : GwVersions, plan : GwVersions, active : GwVersions]
          /\ gwLive'[f] = old.version /\ \A g \in GwFiles \ {f} : gwLive'[g] = gwLive[g]
      BY <1>0, <2>2, PutFacts DEF old
    <3>3. old.alone => HoldsOf(gwLive', re)
      BY <1>0, <1>3, <2>1, <3>1, <3>2 DEF HoldsOf, Written, Restored, GwFiles
    <3> QED BY <1>r, <1>3, <2>1, <3>1, <3>2, <3>3 DEF GwFiles
  <2>3. CASE TryLive(f, gwRender[r].version) /\ RenderStep(r, "unconfig")
    <3>1. PICK re \in RenderRecords :
            /\ gwRender' = [gwRender EXCEPT ![r] = re] /\ re.step = "unconfig" /\ re.alone = old.alone
      BY <1>0, <2>3, StepFacts DEF old
    <3>2. gwLive' \in [config : GwVersions, plan : GwVersions, active : GwVersions]
      BY <1>0, <2>3, TryFacts DEF old
    <3> QED BY <1>r, <2>1, <3>1, <3>2 DEF HoldsOf, Written, Restored, GwFiles
  <2> QED BY <1>3, <2>2, <2>3 DEF WriteLive
<1>4. CASE RecordApplied(r)
  <2>1. old.step = "applied" /\ UNCHANGED gwLive BY <1>4 DEF RecordApplied, old
  <2>2. CASE RenderStep(r, "reload") /\ UNCHANGED gwTorn
    <3>1. PICK re \in RenderRecords :
            /\ gwRender' = [gwRender EXCEPT ![r] = re] /\ re.step = "reload" /\ re.alone = old.alone /\ re.version = old.version
      BY <1>0, <2>2, StepFacts DEF old
    <3>2. old.alone => HoldsOf(gwLive', re)
      BY <1>0, <2>1, <3>1 DEF HoldsOf, Written, Restored, GwFiles
    <3> QED BY <1>r, <1>0, <2>1, <2>2, <3>1, <3>2
  <2>3. CASE RenderOver(r) /\ gwTorn' = (gwTorn /\ ~gwRender[r].alone)
    <3>1. PICK re \in RenderRecords : gwRender' = [gwRender EXCEPT ![r] = re] /\ re.step = "idle" /\ re.alone = FALSE
      BY <2>3, OverFacts
    <3>2. old.alone => Agree(gwLive) BY <1>0, <2>1 DEF HoldsOf, Written, GwFiles, Agree
    <3> QED BY <1>r, <1>0, <2>1, <2>3, <3>1, <3>2 DEF HoldsOf, old
  <2> QED BY <1>4, <2>2, <2>3 DEF RecordApplied
<1>5. CASE execCaddyReload(r)
  <2>1. old.step = "reload" /\ UNCHANGED <<gwLive, gwTorn>> BY <1>5 DEF execCaddyReload, old
  <2>2. PICK n \in {"observe", "unconfig"} : RenderStep(r, n) BY <1>5 DEF execCaddyReload
  <2>3. PICK re \in RenderRecords :
          /\ gwRender' = [gwRender EXCEPT ![r] = re] /\ re.step = n /\ re.alone = old.alone /\ re.version = old.version
    BY <1>0, <2>2, StepFacts DEF old
  <2>4. old.alone => HoldsOf(gwLive', re)
    BY <1>0, <2>1, <2>2, <2>3 DEF HoldsOf, Written, Restored, GwFiles
  <2> QED BY <1>r, <1>0, <2>1, <2>2, <2>3, <2>4
<1>6. ASSUME NEW s, NEW f \in GwFiles, NEW n, Restore(r, s, f, n),
             <<s, f, n>> \in {<<"unconfig", "config", "unplan">>, <<"unplan", "plan", "unactive">>}
      PROVE  GatewayInv'
  <2>1. old.step = s /\ n \in RenderSteps BY <1>6 DEF Restore, old
  <2>2. CASE PutLive(f, gwRender[r].previous) /\ RenderStep(r, n) /\ UNCHANGED gwTorn
    <3>1. PICK re \in RenderRecords :
            /\ gwRender' = [gwRender EXCEPT ![r] = re] /\ re.step = n /\ re.alone = old.alone /\ re.previous = old.previous
      BY <1>0, <2>1, <2>2, StepFacts DEF old
    <3>2. /\ gwLive' \in [config : GwVersions, plan : GwVersions, active : GwVersions]
          /\ gwLive'[f] = old.previous /\ \A g \in GwFiles \ {f} : gwLive'[g] = gwLive[g]
      BY <1>0, <2>2, PutFacts DEF old
    <3>3. old.alone => HoldsOf(gwLive', re)
      BY <1>0, <1>6, <2>1, <3>1, <3>2 DEF HoldsOf, Written, Restored, GwFiles
    <3> QED BY <1>r, <1>6, <2>1, <2>2, <3>1, <3>2, <3>3
  <2>3. CASE TryLive(f, gwRender[r].previous) /\ RenderOver(r) /\ gwTorn' = TRUE
    <3>1. PICK re \in RenderRecords : gwRender' = [gwRender EXCEPT ![r] = re] /\ re.step = "idle" /\ re.alone = FALSE
      BY <2>3, OverFacts
    <3>2. gwLive' \in [config : GwVersions, plan : GwVersions, active : GwVersions]
      BY <1>0, <2>3, TryFacts DEF old
    <3> QED BY <1>r, <1>6, <2>1, <2>3, <3>1, <3>2 DEF HoldsOf
  <2> QED BY <1>6, <2>2, <2>3 DEF Restore
<1>7. CASE RestoreLast(r)
  <2>1. old.step = "unactive" /\ RenderOver(r) BY <1>7 DEF RestoreLast, old
  <2>2. PICK re \in RenderRecords : gwRender' = [gwRender EXCEPT ![r] = re] /\ re.step = "idle" /\ re.alone = FALSE
    BY <2>1, OverFacts
  <2>3. CASE PutLive("active", gwRender[r].previous) /\ gwTorn' = (gwTorn /\ ~gwRender[r].alone)
    <3>1. /\ gwLive' \in [config : GwVersions, plan : GwVersions, active : GwVersions]
          /\ gwLive'["active"] = old.previous /\ \A g \in GwFiles \ {"active"} : gwLive'[g] = gwLive[g]
      BY <1>0, <2>3, PutFacts DEF old, GwFiles
    <3>2. old.alone => Agree(gwLive')
      BY <1>0, <2>1, <3>1 DEF HoldsOf, Restored, GwFiles, Agree
    <3> QED BY <1>r, <2>1, <2>2, <2>3, <3>1, <3>2 DEF HoldsOf, old
  <2>4. CASE TryLive("active", gwRender[r].previous) /\ gwTorn' = TRUE
    <3>1. gwLive' \in [config : GwVersions, plan : GwVersions, active : GwVersions]
      BY <1>0, <2>4, TryFacts DEF old, GwFiles
    <3> QED BY <1>r, <2>1, <2>2, <2>4, <3>1 DEF HoldsOf
  <2> QED BY <1>7, <2>3, <2>4 DEF RestoreLast
<1>8. CASE observeGatewayTLS(r)
  <2>1. old.step = "observe" /\ UNCHANGED <<gwLive, gwTorn>> /\ gwRender' = [gwRender EXCEPT ![r].step = "report"]
    BY <1>8 DEF observeGatewayTLS, old
  <2>2. PICK re \in RenderRecords :
          /\ gwRender' = [gwRender EXCEPT ![r] = re] /\ re.step = "report" /\ re.alone = old.alone /\ re.version = old.version
    <3> DEFINE new == [old EXCEPT !.step = "report"]
    <3>1. /\ new \in RenderRecords /\ new.step = "report" /\ new.alone = old.alone /\ new.version = old.version
      BY <1>0 DEF RenderRecords
    <3>2. gwRender' = [gwRender EXCEPT ![r] = new] BY <2>1 DEF old
    <3> QED BY <3>1, <3>2
  <2>3. old.alone => HoldsOf(gwLive', re)
    BY <1>0, <2>1, <2>2 DEF HoldsOf, Written, Restored, GwFiles
  <2> QED BY <1>r, <1>0, <2>1, <2>2, <2>3
<1>9. CASE RenderEnds(r)
  <2>1. old.step = "report" /\ RenderOver(r) BY <1>9 DEF RenderEnds, old
  <2>2. PICK re \in RenderRecords : gwRender' = [gwRender EXCEPT ![r] = re] /\ re.step = "idle" /\ re.alone = FALSE
    BY <2>1, OverFacts
  <2>3. old.alone => /\ gwLive.config = old.version /\ gwLive.plan = old.version /\ gwLive.active = old.version
    BY <1>0, <2>1 DEF HoldsOf, Written, GwFiles
  <2>4. CASE PutLive("plan", gwRender[r].version) /\ gwTorn' = (gwTorn /\ ~gwRender[r].alone)
    <3>1. /\ gwLive' \in [config : GwVersions, plan : GwVersions, active : GwVersions]
          /\ gwLive'["plan"] = old.version /\ \A g \in GwFiles \ {"plan"} : gwLive'[g] = gwLive[g]
      BY <1>0, <2>4, PutFacts DEF old, GwFiles
    <3>2. old.alone => Agree(gwLive') BY <2>3, <3>1 DEF GwFiles, Agree
    <3> QED BY <1>r, <2>1, <2>2, <2>4, <3>1, <3>2 DEF HoldsOf, old
  <2>5. CASE TryLive("plan", gwRender[r].version) /\ gwTorn' = (gwTorn \/ gwLive' # gwLive)
    <3>1. gwLive' \in [config : GwVersions, plan : GwVersions, active : GwVersions]
      BY <1>0, <2>5, TryFacts DEF old, GwFiles
    <3>2. old.alone /\ ~gwTorn' => Agree(gwLive') BY <2>3, <2>5 DEF Agree
    <3> QED BY <1>r, <2>1, <2>2, <2>5, <3>1, <3>2 DEF HoldsOf
  <2> QED BY <1>9, <2>4, <2>5 DEF RenderEnds
<1> QED BY <1>1, <1>2, <1>3, <1>4, <1>5, <1>6, <1>7, <1>8, <1>9
        DEF RenderOf, defaultApply, defaultRollback, GwFiles

LEMMA GatewayNext_Inv == GatewayInv /\ [GatewayNext]_gatewayVars => GatewayInv'
<1> SUFFICES ASSUME GatewayInv, [GatewayNext]_gatewayVars PROVE GatewayInv'
  OBVIOUS
<1>1. CASE AgentStops
  <2> DEFINE cut == {FileOf(gwRender[r].step) : r \in Renders} \ {""}
  <2>1. /\ gwLive' \in {gwLive} \cup {[gwLive EXCEPT ![f] = "none"] : f \in cut}
        /\ gwTorn' = (gwTorn \/ cut # {}) /\ gwRender' = [r \in Renders |-> NoRender]
    BY <1>1 DEF AgentStops
  <2>2. NoRender \in RenderRecords BY DEF NoRender, RenderRecords, RenderSteps, GwVersions
  <2>3. gwLive \in [config : GwVersions, plan : GwVersions, active : GwVersions]
    BY DEF GatewayInv, GatewayIs, GatewayTyped
  <2>4. gwLive' \in [config : GwVersions, plan : GwVersions, active : GwVersions]
    BY <2>1, <2>3 DEF GwVersions
  <2>5. GatewayTyped(gwLive, gwRender)' BY <2>1, <2>2, <2>4 DEF GatewayTyped
  <2>6. \A r \in Renders : gwRender'[r].step = "idle" /\ gwRender'[r].alone = FALSE BY <2>1 DEF NoRender
  <2>7. ~gwTorn' => Agree(gwLive')
    <3> SUFFICES ASSUME ~gwTorn' PROVE Agree(gwLive')
      OBVIOUS
    <3>1. cut = {} /\ gwLive' = gwLive /\ ~gwTorn BY <2>1
    <3>2. CASE \A r \in Renders : gwRender[r].step \in {"idle", "validate", "config"}
      BY <3>1, <3>2 DEF GatewayInv, GatewayIs, UntornAgree
    <3>3. ASSUME NEW r \in Renders, gwRender[r].step \notin {"idle", "validate", "config"}
          PROVE  Agree(gwLive')
      <4>1. FileOf(gwRender[r].step) = "" BY <3>1
      <4>2. gwRender[r].step \in {"applied", "reload", "observe"}
        <5>1. gwRender[r].step \in RenderSteps BY LiveTyped DEF RenderRecords
        <5> QED BY <3>3, <4>1, <5>1 DEF FileOf, RenderSteps
      <4>3. gwRender[r].alone BY <3>1, <3>3 DEF GatewayInv, GatewayIs, AloneIsAlone
      <4> QED BY <3>1, <4>2, <4>3 DEF GatewayInv, GatewayIs, HoldsOf, Written, GwFiles, Agree
    <3> QED BY <3>2, <3>3
  <2> QED BY <2>5, <2>6, <2>7 DEF GatewayInv, GatewayIs, AloneIsAlone, HoldsOf, UntornAgree
<1>2. CASE UNCHANGED gatewayVars BY <1>2 DEF gatewayVars, GatewayInv
<1> QED BY <1>1, <1>2, RenderNext_Inv DEF GatewayNext

(* What an interrupted render, a failing rollback or overlapping renders   *)
(* leave of several versions among the live files of the gateway ends with *)
(* the next render that has them for itself, for any number of renders and *)
(* versions (RenderGatewayConfig, defaultApply, defaultRollback).          *)
THEOREM LiveFiles == GatewaySpec => []LiveFilesAgree
<1>1. GatewayInv => LiveFilesAgree
  BY DEF GatewayInv, GatewayIs, UntornAgree, Agree, LiveFilesAgree
<1> QED BY <1>1, GatewayInit_Inv, GatewayNext_Inv, PTL DEF GatewaySpec

-----------------------------------------------------------------------------
(* Autosleep.  The counters are numbers; the sum needs no more.            *)

HoldsTyped ==
    holds \in [total : Nat, refused : Nat, fresh : Nat, stale : Nat, expired : Nat, resumed : Nat]

HoldsInv == HoldsTyped /\ EveryHoldCountedOnce

LEMMA SleepNext_Inv == HoldsInv /\ [SleepNext]_sleepVars => HoldsInv'
<1> SUFFICES ASSUME HoldsInv, [SleepNext]_sleepVars PROVE HoldsInv'
  OBVIOUS
<1> USE DEF HoldsInv, HoldsTyped
<1>1. CASE TimePasses
  <2>1. CASE UNCHANGED holds BY <2>1 DEF EveryHoldCountedOnce
  <2>2. CASE holds.fresh > 0 /\ holds' = [holds EXCEPT !.fresh = @ - 1, !.stale = @ + 1]
    <3>1. PICK f \in Nat, s \in Nat : f = holds.fresh - 1 /\ s = holds.stale + 1 BY <2>2
    <3>2. holds' = [holds EXCEPT !.fresh = f, !.stale = s] BY <2>2, <3>1
    <3>3. HoldsTyped' BY <3>2
    <3> QED BY <3>1, <3>2, <3>3 DEF EveryHoldCountedOnce
  <2> QED BY <1>1, <2>1, <2>2 DEF TimePasses
<1>2. CASE HoldRequest
  <2>1. PICK t \in Nat, r \in Nat, f \in Nat :
            t = holds.total + 1 /\ r = holds.refused + 1 /\ f = holds.fresh + 1
    OBVIOUS
  <2>2. CASE holds' = [holds EXCEPT !.total = t, !.refused = r]
    <3>1. HoldsTyped' BY <2>2
    <3> QED BY <2>1, <2>2, <3>1 DEF EveryHoldCountedOnce
  <2>3. CASE holds' = [holds EXCEPT !.total = t, !.fresh = f]
    <3>1. HoldsTyped' BY <2>3
    <3> QED BY <2>1, <2>3, <3>1 DEF EveryHoldCountedOnce
  <2> QED BY <1>2, <2>1, <2>2, <2>3 DEF HoldRequest
<1>3. CASE CollectExpiredHolds
  <2>1. PICK e \in Nat : e = holds.expired + holds.stale OBVIOUS
  <2>2. holds' = [holds EXCEPT !.expired = e, !.stale = 0]
    BY <1>3, <2>1 DEF CollectExpiredHolds
  <2>3. HoldsTyped' BY <2>2
  <2> QED BY <2>1, <2>2, <2>3 DEF EveryHoldCountedOnce
<1>4. CASE ResumeRequests("sleeper") \/ ResumeRequests("waker")
  <2>1. PICK m \in Nat, e \in Nat : m = holds.resumed + holds.fresh /\ e = holds.expired + holds.stale
    OBVIOUS
  <2>2. holds' = [holds EXCEPT !.resumed = m, !.expired = e, !.fresh = 0, !.stale = 0]
    BY <1>4, <2>1 DEF ResumeRequests, Resumed
  <2>3. HoldsTyped' BY <2>2
  <2> QED BY <2>1, <2>2, <2>3 DEF EveryHoldCountedOnce
<1>5. CASE UNCHANGED holds BY <1>5 DEF EveryHoldCountedOnce
<1> QED
  BY <1>1, <1>2, <1>3, <1>4, <1>5
     DEF SleepNext, sleepVars, handleSleepService, SleepService, handleWakeService, MarkActive,
         ServiceActive, evaluateAndSleep, CollectExpiredSleepWindows

(* Every request offered to the gateway is accounted for once, for every   *)
(* limit on holds and cold starts and any number of commands.              *)
THEOREM HoldsCounted == SleepSpec => []EveryHoldCountedOnce
<1>1. SleepInit => HoldsInv
  BY DEF SleepInit, HoldsInv, HoldsTyped, EveryHoldCountedOnce
<1>2. HoldsInv => EveryHoldCountedOnce BY DEF HoldsInv
<1> QED BY <1>1, <1>2, SleepNext_Inv, PTL DEF SleepSpec

-----------------------------------------------------------------------------
(* NodeContainers.  A marker was only written for a database that exists,  *)
(* passwords are never given out twice, and a provisioning that is past    *)
(* the credential works for the stored one: on a fresh volume, and once    *)
(* it is about to write the marker, the database knows that password.      *)

PgTyped ==
    /\ pg \in [up : BOOLEAN, volume : BOOLEAN, role : Nat, sync : Nat, cred : Nat, credKey : Nat, key : Nat]
    /\ pgCall \in [step : {"idle", "credential", "run", "ready", "alter", "persist"}, cred : Nat, fresh : BOOLEAN]
    /\ used \in [runs : Nat, passwords : Nat, breaks : Nat]

PgSound ==
    /\ pg.sync <= used.passwords /\ pg.cred <= used.passwords
    /\ pg.sync # 0 => pg.volume
    /\ pgCall.step \in {"run", "ready", "alter", "persist"} => pgCall.cred = pg.cred
    /\ pgCall.step = "run" => pgCall.fresh = ~pg.volume
    /\ pgCall.step \in {"ready", "alter", "persist"} => pg.volume
    /\ pgCall.step = "ready" /\ pgCall.fresh => pg.role = pgCall.cred
    /\ pgCall.step = "persist" => pg.role = pgCall.cred

PgInv == PgTyped /\ PgSound /\ SyncMarkerTrue

LEMMA NodeInit_Inv == NodeInit => PgInv
BY DEF NodeInit, PgInit, NoCall, PgInv, PgTyped, PgSound, SyncMarkerTrue

LEMMA NodeNext_Inv == PgInv /\ [NodeNext]_nodeVars => PgInv'
<1> SUFFICES ASSUME PgInv, [NodeNext]_nodeVars PROVE PgInv'
  OBVIOUS
<1> USE ContainersAssumption DEF PgInv, PgTyped, PgSound, SyncMarkerTrue
<1>1. ASSUME NEW k \in Keys, NEW r \in Revs, StartProcess(k, r) PROVE PgInv'
  BY <1>1 DEF StartProcess, RunContainer, Count, Break
<1>2. ASSUME NEW k \in Keys, StopProcess(k) PROVE PgInv'
  BY <1>2 DEF StopProcess, Count, Break
<1>3. CASE ContainerDies BY <1>3 DEF ContainerDies, Count, Break
<1>4. CASE AgentRestart BY <1>4 DEF AgentRestart, Count, Break, NoCall
<1>5. CASE ProvisionInternalServices BY <1>5 DEF ProvisionInternalServices, PgStep
<1>6. CASE ensureInternalPostgresCredentialState
  <2>1. Password \in Nat BY DEF Password
  <2>2. CASE Password = pg.cred
    BY <1>6, <2>1, <2>2 DEF ensureInternalPostgresCredentialState
  <2>3. CASE Password # pg.cred
    <3>1. Password = used.passwords + 1 BY <2>3 DEF Password
    <3>2. used' = [used EXCEPT !.passwords = @ + 1]
      BY <1>6, <2>3 DEF ensureInternalPostgresCredentialState, Count
    <3>3. /\ pg' = [pg EXCEPT !.cred = Password, !.credKey = pg.key]
          /\ pgCall' = [step |-> "run", cred |-> Password, fresh |-> ~pg.volume]
      BY <1>6 DEF ensureInternalPostgresCredentialState
    <3>4. used.passwords + 1 \in Nat /\ pg.sync <= used.passwords + 1 /\ pg.sync # used.passwords + 1
      OBVIOUS
    <3>5. PgTyped' BY <3>1, <3>2, <3>3, <3>4
    <3>6. pg'.sync = pg.sync /\ pg'.volume = pg.volume /\ pg'.cred = used.passwords + 1
          /\ used'.passwords = used.passwords + 1
          /\ pgCall'.step = "run" /\ pgCall'.cred = used.passwords + 1 /\ pgCall'.fresh = ~pg.volume
      BY <3>1, <3>2, <3>3
    <3>7. PgSound' BY <3>4, <3>6
    <3>8. SyncMarkerTrue' BY <3>4, <3>6
    <3> QED BY <3>5, <3>7, <3>8
  <2> QED BY <2>2, <2>3
<1>7. CASE recreateInternalServiceContainer
  BY <1>7 DEF recreateInternalServiceContainer, PgStep
<1>8. CASE waitForInternalPostgres
  BY <1>8 DEF waitForInternalPostgres, PgStep
<1>9. CASE ensureInternalPostgresAuthentication
  BY <1>9 DEF ensureInternalPostgresAuthentication, PgStep
<1>10. CASE persistInternalPostgresPasswordSyncState
  BY <1>10 DEF persistInternalPostgresPasswordSyncState, NoCall
<1>11. CASE ProvisionFails
  <2>1. /\ used' = [used EXCEPT !.breaks = @ + 1] /\ pgCall' = NoCall
        /\ pg' = pg \/ pg' = [pg EXCEPT !.up = FALSE]
    BY <1>11 DEF ProvisionFails, Count, Break
  <2>2. PgTyped'
    <3>1. used.breaks + 1 \in Nat OBVIOUS
    <3>2. pg' \in [up : BOOLEAN, volume : BOOLEAN, role : Nat, sync : Nat, cred : Nat, credKey : Nat, key : Nat]
      BY <2>1
    <3> QED BY <2>1, <3>1, <3>2 DEF NoCall
  <2>3. /\ pg'.sync = pg.sync /\ pg'.cred = pg.cred /\ pg'.volume = pg.volume /\ pg'.role = pg.role
        /\ used'.passwords = used.passwords /\ pgCall'.step = "idle"
    BY <2>1 DEF NoCall
  <2> QED BY <2>2, <2>3
<1>12. CASE UNCHANGED nodeVars BY <1>12 DEF nodeVars
<1> QED
  BY <1>1, <1>2, <1>3, <1>4, <1>5, <1>6, <1>7, <1>8, <1>9, <1>10, <1>11, <1>12
     DEF NodeNext, PostgresNext

(* The marker beside the data tells the truth of the stored credential,    *)
(* whatever steps failed and whichever keys the agent had.                 *)
THEOREM MarkerTrue == NodeSpec => []SyncMarkerTrue
<1>1. PgInv => SyncMarkerTrue BY DEF PgInv
<1> QED BY <1>1, NodeInit_Inv, NodeNext_Inv, PTL DEF NodeSpec

-----------------------------------------------------------------------------
(* Sidecars.  A companion runs only where a live file is, so that the      *)
(* removal that ends a render stops every one of them; a render in         *)
(* progress has not gone through.                                          *)

SidecarTyped ==
    /\ scRender = [step |-> scRender.step, want |-> scRender.want]
    /\ scLive = [s \in SideServices |-> scLive[s]]
    /\ scProc = [s \in SideServices |-> [state |-> scProc[s].state, config |-> scProc[s].config]]

SidecarInv ==
    /\ SidecarTyped
    /\ scDone => scRender.step = "idle"
    /\ \A s \in SideServices : scProc[s].state = "running" => scLive[s] # NoConfig
    /\ SidecarRunsPlan

LEMMA SidecarInit_Inv == SidecarInit => SidecarInv
<1> SUFFICES ASSUME SidecarInit PROVE SidecarInv
  OBVIOUS
<1> USE DEF SidecarInit
<1>1. SidecarTyped BY DEF SidecarTyped
<1>2. \A s \in SideServices : scProc[s].state = "stopped" OBVIOUS
<1> QED BY <1>1, <1>2 DEF SidecarInv, SidecarRunsPlan

LEMMA SidecarStepFacts ==
    ASSUME SidecarTyped, NEW step, SidecarStep(step)
    PROVE  scRender' = [step |-> step, want |-> scRender.want]
BY DEF SidecarTyped, SidecarStep

(* A companion started with the live file of its service runs what is live. *)
LEMMA StartedFacts ==
    ASSUME SidecarInv, NEW s \in SideServices, scLive[s] # NoConfig, UNCHANGED <<scLive, scRender, scDone>>,
           scProc' = [scProc EXCEPT ![s] = [state |-> "running", config |-> scLive[s]]]
    PROVE  SidecarInv'
<1>1. \A t \in SideServices : scProc'[t] = IF t = s THEN [state |-> "running", config |-> scLive[s]] ELSE scProc[t]
  BY DEF SidecarInv, SidecarTyped
<1>2. SidecarTyped' BY <1>1 DEF SidecarInv, SidecarTyped
<1> QED BY <1>1, <1>2 DEF SidecarInv, SidecarRunsPlan

LEMMA SidecarNext_Inv == SidecarInv /\ [SidecarNext]_sidecarVars => SidecarInv'
<1> SUFFICES ASSUME SidecarInv, [SidecarNext]_sidecarVars PROVE SidecarInv'
  OBVIOUS
<1> USE DEF SidecarInv, SidecarRunsPlan
<1>1. CASE RenderSidecars
  <2>1. ~scDone' /\ UNCHANGED <<scLive, scProc>> BY <1>1 DEF RenderSidecars
  <2>2. scRender' = [step |-> scRender'.step, want |-> scRender'.want]
    BY <1>1 DEF RenderSidecars, SidecarTyped
  <2> QED BY <2>1, <2>2 DEF SidecarTyped
<1>2. CASE defaultCreate
  <2>1. scRender' = [step |-> "remove", want |-> scRender.want] BY <1>2, SidecarStepFacts DEF defaultCreate
  <2>2. ~scDone' /\ UNCHANGED scProc BY <1>2 DEF defaultCreate
  <2>3. scLive' = [s \in SideServices |-> IF s \in Enabled(scRender.want) THEN scRender.want[s] ELSE scLive[s]]
    BY <1>2 DEF defaultCreate
  <2>4. \A s \in SideServices : scLive'[s] = NoConfig => scLive[s] = NoConfig BY <2>3 DEF Enabled
  <2>5. SidecarTyped' BY <2>1, <2>2, <2>3 DEF SidecarTyped
  <2> QED BY <2>1, <2>2, <2>4, <2>5
<1>3. CASE defaultRemove
  <2> DEFINE S == {s \in SideServices : s \in Enabled(scRender.want) \/ scLive[s] # NoConfig}
  <2>1. scRender' = [step |-> "idle", want |-> scRender.want]
    BY <1>3, SidecarStepFacts DEF defaultRemove, RemoveStale
  <2>2. scLive' = [s \in SideServices |-> IF s \in Enabled(scRender.want) THEN scLive[s] ELSE NoConfig]
    BY <1>3 DEF defaultRemove, RemoveStale
  <2>3. StopCompanions(S) BY <1>3 DEF defaultRemove, RemoveStale
  <2>4. PICK stuck : scProc' = [s \in SideServices |->
              IF s \notin S \/ scProc[s].state = "stopped" THEN scProc[s]
              ELSE [scProc[s] EXCEPT !.state = IF s \in stuck THEN "stopping" ELSE "stopped"]]
    BY <2>3, Zenon DEF StopCompanions
  <2>5. \A s \in SideServices : scProc'[s].state # "running"
    BY <2>4 DEF SidecarTyped
  <2>6. SidecarTyped' BY <2>1, <2>2, <2>4 DEF SidecarTyped
  <2> QED BY <2>1, <2>5, <2>6
<1>4. CASE RenderFails
  <2>1. scRender' = [step |-> "idle", want |-> scRender.want] BY <1>4, SidecarStepFacts DEF RenderFails
  <2>2. ~scDone' /\ UNCHANGED <<scLive, scProc>> BY <1>4 DEF RenderFails
  <2> QED BY <2>1, <2>2 DEF SidecarTyped
<1>5. CASE AgentRestarts
  <2>1. scRender' = [step |-> "idle", want |-> scRender.want] BY <1>5, SidecarStepFacts DEF AgentRestarts
  <2>2. UNCHANGED scLive /\ \A s \in SideServices : scProc'[s].state = "stopped" BY <1>5 DEF AgentRestarts
  <2>3. SidecarTyped' BY <1>5, <2>1, <2>2 DEF AgentRestarts, SidecarTyped
  <2> QED BY <2>1, <2>2, <2>3
<1>6. ASSUME NEW s \in SideServices, StartCompanion(s) PROVE SidecarInv'
  BY <1>6, StartedFacts DEF StartCompanion
<1>7. ASSUME NEW s \in SideServices, RestartCompanion(s) PROVE SidecarInv'
  BY <1>7, StartedFacts DEF RestartCompanion
<1>8. CASE UNCHANGED sidecarVars BY <1>8 DEF sidecarVars, SidecarTyped
<1> QED BY <1>1, <1>2, <1>3, <1>4, <1>5, <1>6, <1>7, <1>8 DEF SidecarNext

(* After a render that went through, every companion whose entry in the    *)
(* process manager says it runs holds the configuration that is live for   *)
(* its service, for any number of services, where the renders of a binding *)
(* come one after the other (defaultRemove, canReuseRunningProcess).       *)
(* Containers the manager has no running entry for are not spoken of.      *)
THEOREM CompanionsRunThePlan == SidecarSpec => []SidecarRunsPlan
<1>1. SidecarInv => SidecarRunsPlan BY DEF SidecarInv
<1> QED BY <1>1, SidecarInit_Inv, SidecarNext_Inv, PTL DEF SidecarSpec

-----------------------------------------------------------------------------
(* Mesh.  A call writes back the copy it read, so what is claimed of the   *)
(* live files must hold of every copy; it survives there because the peers *)
(* that were up only become more.                                          *)

WasUp(r) == {r[1], r[2]} \ {"local"} \subseteq msWasUp
HonestPeers(s) == \A p \in DOMAIN s.peers : s.peers[p] = "active" => p \in msWasUp
HonestRoutes(s) == \A r \in DOMAIN s.routes : s.routes[r] = "verified" => WasUp(r)

Copies(call) ==
    /\ call = [kind |-> call.kind, step |-> call.step, read |-> call.read, cache |-> call.cache,
               peers |-> call.peers]
    /\ call.read = [exists |-> call.read.exists, peers |-> call.read.peers, routes |-> call.read.routes]
    /\ HonestPeers(call.read) /\ HonestRoutes(call.read) /\ HonestRoutes(call.cache)

MeshFiles ==
    /\ msState = [exists |-> msState.exists, peers |-> msState.peers, routes |-> msState.routes]
    /\ HonestPeers(msState) /\ HonestRoutes(msState)
    /\ HonestRoutes(msCache) /\ HonestRoutes(msReport)

MeshInv ==
    /\ MeshFiles
    /\ msCall = [c \in MeshCalls |-> msCall[c]]
    /\ \A c \in MeshCalls : Copies(msCall[c])

LEMMA NothingClaimed == HonestPeers(NoFile) /\ HonestRoutes(NoFile) /\ HonestRoutes(NoStatuses)
BY DEF HonestPeers, HonestRoutes, NoFile, NoStatuses

LEMMA MeshInit_Inv == MeshInit => MeshInv
<1>1. Copies(NoMeshCall) BY NothingClaimed DEF Copies, NoMeshCall, NoFile
<1> QED BY <1>1, NothingClaimed DEF MeshInit, MeshInv, MeshFiles, NoFile

(* Both ends of a route that is synced to verified have been up. *)
LEMMA SyncedHonest ==
    ASSUME NEW s, HonestPeers(s), NEW r, SyncedStatus(s, r) = "verified"
    PROVE  WasUp(r)
<1>1. PeerState(s, r[1]) = "active" /\ PeerState(s, r[2]) = "active" BY DEF SyncedStatus
<1>2. \A p : PeerState(s, p) = "active" => p = "local" \/ p \in msWasUp BY DEF PeerState, HonestPeers
<1> QED BY <1>1, <1>2 DEF WasUp

(* A call that starts with an honest copy. *)
LEMMA MeshStart_Inv ==
    ASSUME MeshInv, NEW c \in MeshCalls, NEW call, Copies(call), StartCall(c, call)
    PROVE  MeshInv'
BY DEF StartCall, MeshInv, MeshFiles, Copies, HonestPeers, HonestRoutes, WasUp

(* A call that goes on or ends without touching its copy. *)
LEMMA MoveTo_Keeps ==
    ASSUME MeshInv, NEW c \in MeshCalls, NEW l, MoveTo(c, l), UNCHANGED msWasUp
    PROVE  /\ msCall' = [d \in MeshCalls |-> msCall'[d]]
           /\ \A d \in MeshCalls : Copies(msCall[d])'
<1>1. Copies(NoMeshCall) BY NothingClaimed DEF Copies, NoMeshCall, NoFile
<1>2. Copies([msCall[c] EXCEPT !.step = l]) BY DEF MeshInv, Copies, HonestPeers, HonestRoutes
<1>3. msCall' = [msCall EXCEPT ![c] = IF l = "end" THEN NoMeshCall ELSE [msCall[c] EXCEPT !.step = l]]
  BY DEF MoveTo
<1>4. \A d \in MeshCalls : msCall'[d] \in {msCall[d], NoMeshCall, [msCall[c] EXCEPT !.step = l]} /\ Copies(msCall'[d])
  BY <1>1, <1>2, <1>3 DEF MeshInv
<1> QED BY <1>3, <1>4 DEF MeshInv, Copies, HonestPeers, HonestRoutes, WasUp

(* Marking peers in the copy of a call is honest if they have been up. *)
LEMMA Marked_Keeps ==
    ASSUME MeshInv, NEW c \in MeshCalls, NEW S, NEW state, msCall' = Marked(c, S, state),
           msWasUp \subseteq msWasUp', state = "active" => S \subseteq msWasUp'
    PROVE  /\ msCall' = [d \in MeshCalls |-> msCall'[d]]
           /\ \A d \in MeshCalls : Copies(msCall[d])'
<1> DEFINE old == msCall[c].read
           peers == [p \in DOMAIN old.peers |-> IF p \in S THEN state ELSE old.peers[p]]
           read == [exists |-> old.exists, peers |-> peers, routes |-> old.routes]
           new == [kind |-> msCall[c].kind, step |-> "state", read |-> read, cache |-> msCall[c].cache,
                   peers |-> msCall[c].peers]
<1>1. msCall'[c] = new
  <2>1. Copies(msCall[c]) BY DEF MeshInv
  <2>2. msCall'[c] = [msCall[c] EXCEPT !.step = "state", !.read = [old EXCEPT !.peers = peers]]
    BY DEF Marked, MeshInv, Copies
  <2>3. [old EXCEPT !.peers = peers] = read BY <2>1 DEF Copies
  <2> HIDE DEF peers, read
  <2>4. [msCall[c] EXCEPT !.step = "state", !.read = read] = new
    <3>1. PICK k, l, f, g, P : msCall[c] = [kind |-> k, step |-> l, read |-> f, cache |-> g, peers |-> P]
      BY <2>1 DEF Copies
    <3>2. PICK moved : moved = [msCall[c] EXCEPT !.step = "state"] OBVIOUS
    <3>3. [msCall[c] EXCEPT !.step = "state", !.read = read] = [moved EXCEPT !.read = read] BY <3>2, Zenon
    <3>4. moved = [kind |-> k, step |-> "state", read |-> f, cache |-> g, peers |-> P] BY <3>1, <3>2
    <3>5. [moved EXCEPT !.read = read] = [kind |-> k, step |-> "state", read |-> read, cache |-> g, peers |-> P]
      BY <3>4
    <3>6. k = msCall[c].kind /\ g = msCall[c].cache /\ P = msCall[c].peers BY <3>1
    <3>7. [msCall[c] EXCEPT !.step = "state", !.read = read]
            = [kind |-> k, step |-> "state", read |-> read, cache |-> g, peers |-> P]
      BY <3>3, <3>5, Zenon
    <3> HIDE DEF new
    <3> QED BY <3>6, <3>7, Zenon DEF new
  <2> QED BY <2>2, <2>3, <2>4
<1>2. /\ msCall' = [d \in MeshCalls |-> msCall'[d]]
      /\ \A d \in MeshCalls \ {c} : msCall'[d] = msCall[d]
  BY DEF Marked, MeshInv
<1>3. Copies(msCall[c]) BY DEF MeshInv
<1>4. \A p \in DOMAIN peers : peers[p] = "active" => p \in msWasUp'
  BY <1>3 DEF Copies, HonestPeers
<1>5. \A r \in DOMAIN old.routes : old.routes[r] = "verified" => WasUp(r)'
  BY <1>3 DEF Copies, HonestRoutes, WasUp
<1>6. \A r \in DOMAIN msCall[c].cache.routes : msCall[c].cache.routes[r] = "verified" => WasUp(r)'
  BY <1>3 DEF Copies, HonestRoutes, WasUp
<1> HIDE DEF peers
<1>7. Copies(msCall[c])'
  <2>1. /\ msCall'[c].read = read /\ msCall'[c].cache = msCall[c].cache
        /\ read.peers = peers /\ read.routes = old.routes
    BY <1>1
  <2>2. HonestPeers(msCall[c].read)' BY <1>4, <2>1 DEF HonestPeers
  <2>3. HonestRoutes(msCall[c].read)' BY <1>5, <2>1 DEF HonestRoutes
  <2>4. HonestRoutes(msCall[c].cache)' BY <1>6, <2>1 DEF HonestRoutes
  <2> QED BY <1>1, <2>1, <2>2, <2>3, <2>4 DEF Copies
<1>8. \A d \in MeshCalls \ {c} : Copies(msCall[d])'
  BY <1>2 DEF MeshInv, Copies, HonestPeers, HonestRoutes, WasUp
<1> QED BY <1>2, <1>7, <1>8

LEMMA MeshNext_Inv == MeshInv /\ [MeshNext]_meshVars => MeshInv'
<1> SUFFICES ASSUME MeshInv, [MeshNext]_meshVars PROVE MeshInv'
  OBVIOUS
<1>1. ASSUME NEW c \in MeshCalls, EnsurePeerCall(c) PROVE MeshInv'
  <2>1. PICK kind \in {"ensure", "leave"}, S \in {DOMAIN msState.peers} \cup {{p} : p \in DOMAIN msState.peers} :
            StartCall(c, [kind |-> kind, step |-> "peers", read |-> msState, cache |-> msCache, peers |-> S])
    BY <1>1 DEF EnsurePeerCall
  <2>2. Copies([kind |-> kind, step |-> "peers", read |-> msState, cache |-> msCache, peers |-> S])
    BY DEF MeshInv, MeshFiles, Copies
  <2> QED BY <2>1, <2>2, MeshStart_Inv
<1>2. ASSUME NEW c \in MeshCalls, SyncCall(c) PROVE MeshInv'
  <2> DEFINE read == SyncedRoutes(msState)
             cache == [exists |-> TRUE, routes |-> read.routes]
  <2>1. /\ read = [exists |-> msState.exists, peers |-> msState.peers, routes |-> read.routes]
        /\ read.routes = [r \in DOMAIN msState.routes |-> SyncedStatus(msState, r)]
    BY DEF SyncedRoutes, MeshInv, MeshFiles
  <2>2. HonestPeers(read) /\ HonestRoutes(read) /\ HonestRoutes(cache)
    BY <2>1, SyncedHonest DEF MeshInv, MeshFiles, HonestPeers, HonestRoutes
  <2>3. Copies([kind |-> "sync", step |-> "state", read |-> read, cache |-> cache, peers |-> {}])
    BY <2>1, <2>2 DEF Copies
  <2> QED BY <1>2, <2>3, MeshStart_Inv DEF SyncCall
<1>3. ASSUME NEW c \in MeshCalls, FoundationCall(c) PROVE MeshInv'
  <2>1. PICK placed \in SUBSET RemotePeers :
            StartCall(c, [kind |-> "foundation", step |-> "state", read |-> Foundation(placed),
                          cache |-> [exists |-> TRUE, routes |-> Foundation(placed).routes], peers |-> {}])
    BY <1>3 DEF FoundationCall
  <2>2. Copies([kind |-> "foundation", step |-> "state", read |-> Foundation(placed),
                cache |-> [exists |-> TRUE, routes |-> Foundation(placed).routes], peers |-> {}])
    BY DEF Foundation, Copies, HonestPeers, HonestRoutes
  <2> QED BY <2>1, <2>2, MeshStart_Inv
<1>4. ASSUME NEW c \in MeshCalls, ensureWireGuardPeers(c) PROVE MeshInv'
  <2>1. PICK up \in SUBSET msCall[c].peers :
            /\ msWasUp' = msWasUp \cup up
            /\ IF up = msCall[c].peers THEN msCall' = Marked(c, up, "active") ELSE MoveTo(c, "end")
    BY <1>4 DEF ensureWireGuardPeers
  <2>2. MeshFiles' BY <1>4, <2>1 DEF ensureWireGuardPeers, MeshInv, MeshFiles, HonestPeers, HonestRoutes, WasUp
  <2>3. \A d \in MeshCalls : Copies(msCall[d]) => (msCall'[d] = msCall[d] => Copies(msCall[d])')
    BY <2>1 DEF Copies, HonestPeers, HonestRoutes, WasUp
  <2>4. Copies(NoMeshCall)' BY NothingClaimed DEF Copies, NoMeshCall, NoFile, NoStatuses, HonestPeers, HonestRoutes
  <2>5. CASE msCall' = Marked(c, up, "active")
    BY <2>1, <2>2, <2>5, Marked_Keeps DEF MeshInv
  <2>6. CASE MoveTo(c, "end")
    <3>1. msCall' = [msCall EXCEPT ![c] = NoMeshCall] BY <2>6 DEF MoveTo
    <3> QED BY <2>2, <2>3, <2>4, <3>1 DEF MeshInv
  <2> QED BY <2>1, <2>5, <2>6
<1>5. ASSUME NEW c \in MeshCalls, removeWireGuardPeers(c) PROVE MeshInv'
  <2> DEFINE S == msCall[c].peers
  <2>1. /\ msCall' = Marked(c, S, "removed") /\ UNCHANGED <<msState, msCache, msReport, msWasUp>>
    BY <1>5 DEF removeWireGuardPeers
  <2>2. MeshFiles' BY <2>1 DEF MeshInv, MeshFiles, HonestPeers, HonestRoutes, WasUp
  <2> QED BY <2>1, <2>2, Marked_Keeps DEF MeshInv
<1>6. ASSUME NEW c \in MeshCalls, WriteState(c) \/ WriteCache(c) \/ WriteReport(c) PROVE MeshInv'
  <2>1. PICK l : MoveTo(c, l) BY <1>6 DEF WriteState, WriteCache, WriteReport
  <2>2. UNCHANGED msWasUp BY <1>6 DEF WriteState, WriteCache, WriteReport
  <2>3. Copies(msCall[c]) BY DEF MeshInv
  <2>4. MeshFiles'
    BY <1>6, <2>2, <2>3 DEF WriteState, WriteCache, WriteReport, MeshInv, MeshFiles, Copies,
       HonestPeers, HonestRoutes, WasUp
  <2> QED BY <2>1, <2>2, <2>4, MoveTo_Keeps DEF MeshInv
<1>7. CASE CallDies
  <2>1. Copies(NoMeshCall) BY NothingClaimed DEF Copies, NoMeshCall, NoFile
  <2>2. /\ msCall' = [d \in MeshCalls |-> msCall'[d]]
        /\ \A d \in MeshCalls : msCall'[d] \in {msCall[d], NoMeshCall}
    BY <1>7 DEF CallDies, MeshInv
  <2>3. \A d \in MeshCalls : Copies(msCall'[d]) BY <2>1, <2>2 DEF MeshInv
  <2>4. UNCHANGED <<msState, msCache, msReport, msWasUp>> BY <1>7 DEF CallDies
  <2> QED BY <2>2, <2>3, <2>4 DEF MeshInv, MeshFiles, Copies, HonestPeers, HonestRoutes, WasUp
<1>8. CASE UNCHANGED meshVars
  BY <1>8 DEF meshVars, MeshInv, MeshFiles, Copies, HonestPeers, HonestRoutes, WasUp
<1> QED BY <1>1, <1>2, <1>3, <1>4, <1>5, <1>6, <1>7, <1>8 DEF MeshNext

(* For any number of peers and overlapping, failing and dying calls, what  *)
(* resolves to a verified route goes over peers whose interface came up    *)
(* (ResolveDependency, ResolvePublicService).                              *)
THEOREM RoutesWereUp == MeshSpec => []VerifiedWasUp
<1>1. MeshInv => VerifiedWasUp
  <2> SUFFICES ASSUME MeshInv PROVE VerifiedWasUp
    OBVIOUS
  <2>1. \A r \in MeshRoutes : Resolved(r) = "verified" => WasUp(r)
    BY DEF MeshInv, MeshFiles, Resolved, HonestRoutes
  <2>2. \A p \in RemotePeers : ResolvedPublic(p) = "verified" => p \in msWasUp
    BY MeshAssumption DEF MeshInv, MeshFiles, ResolvedPublic, PeerState, HonestPeers
  <2> QED BY <2>1, <2>2 DEF VerifiedWasUp, WasUp
<1> QED BY <1>1, MeshInit_Inv, MeshNext_Inv, PTL DEF MeshSpec

-----------------------------------------------------------------------------
(* K3sNode.  Tails are numbered from 1, so that a key whose number is 0    *)
(* has no live tail when one is started.                                   *)

TailsTyped ==
    /\ kStops \in [TailKeys -> Nat] /\ kUsed \in [calls : Nat, faults : Nat, tails : Nat]
    /\ \A t \in kTails : t \in [id : Nat \ {0}, key : TailKeys, live : BOOLEAN]

TailsInv == TailsTyped /\ TailsCanBeStopped

LEMMA K3sInit_Inv == K3sInit => TailsInv
BY DEF K3sInit, TailsInv, TailsTyped, TailsCanBeStopped

(* Started or left alone, a service has no second tail. *)
LEMMA EnsureTail_Inv ==
    ASSUME TailsInv, NEW r \in K3sRevs, NEW s \in K3sServices, ensureLiveLogTails(r, s)
    PROVE  TailsInv'
<1> USE DEF TailsInv, TailsTyped
<1>1. CASE kStops[<<r, s>>] # 0
  BY <1>1 DEF ensureLiveLogTails, EnsureTail, TailsCanBeStopped
<1>2. CASE kStops[<<r, s>>] = 0
  <2>1. PICK n \in Nat \ {0} : n = kUsed.tails + 1 OBVIOUS
  <2>2. /\ kUsed' = [kUsed EXCEPT !.tails = n]
        /\ kStops' = [kStops EXCEPT ![<<r, s>>] = n]
        /\ kTails' = kTails \cup {[id |-> n, key |-> <<r, s>>, live |-> TRUE]}
    BY <1>2, <2>1 DEF ensureLiveLogTails, EnsureTail
  <2>3. <<r, s>> \in TailKeys BY DEF TailKeys
  <2>4. TailsTyped'
    <3>1. kUsed' \in [calls : Nat, faults : Nat, tails : Nat] BY <2>2
    <3>2. kStops' \in [TailKeys -> Nat] BY <2>2, <2>3
    <3>3. [id |-> n, key |-> <<r, s>>, live |-> TRUE] \in [id : Nat \ {0}, key : TailKeys, live : BOOLEAN]
      BY <2>3
    <3>4. \A t \in kTails' : t \in [id : Nat \ {0}, key : TailKeys, live : BOOLEAN]
      BY <2>2, <3>3
    <3> QED BY <3>1, <3>2, <3>4
  <2>5. \A t \in kTails : t.live => t.key # <<r, s>>
    BY <1>2 DEF TailsCanBeStopped
  <2>6. TailsCanBeStopped' BY <2>2, <2>3, <2>5 DEF TailsCanBeStopped
  <2> QED BY <2>4, <2>6
<1> QED BY <1>1, <1>2

LEMMA K3sNext_Inv == TailsInv /\ [K3sNext]_k3sVars => TailsInv'
<1> SUFFICES ASSUME TailsInv, [K3sNext]_k3sVars PROVE TailsInv'
  OBVIOUS
<1> USE K3sAssumption DEF TailsInv, TailsTyped
<1>1. CASE TailEnds BY <1>1 DEF TailEnds, TailsCanBeStopped
<1>2. ASSUME NEW r \in K3sRevs, GarbageCollectRuntime(r) PROVE TailsInv'
  <2>1. PICK n \in Nat : n = kUsed.calls + 1 OBVIOUS
  <2>2. /\ kUsed' = [kUsed EXCEPT !.calls = n]
        /\ kStops' = [k \in TailKeys |-> IF k[1] = r THEN 0 ELSE kStops[k]]
        /\ kTails' = {[t EXCEPT !.live = @ /\ t.id # kStops[t.key]] : t \in {u \in kTails : u.key[1] = r}}
                     \cup {u \in kTails : u.key[1] # r}
    BY <1>2, <2>1 DEF GarbageCollectRuntime
  <2>3. \A t \in kTails' :
            \/ t \in kTails /\ t.key[1] # r
            \/ \E u \in kTails : /\ u.key[1] = r
                                /\ t = [u EXCEPT !.live = u.live /\ u.id # kStops[u.key]]
    BY <2>2
  <2>4. \A t \in kTails' : t \in [id : Nat \ {0}, key : TailKeys, live : BOOLEAN]
    <3>1. ASSUME NEW t \in kTails', NEW u \in kTails,
                 t = [u EXCEPT !.live = u.live /\ u.id # kStops[u.key]]
          PROVE  t \in [id : Nat \ {0}, key : TailKeys, live : BOOLEAN]
      <4>1. PICK b \in BOOLEAN : b = (u.live /\ u.id # kStops[u.key]) BY Zenon
      <4>2. u \in [id : Nat \ {0}, key : TailKeys, live : BOOLEAN] OBVIOUS
      <4>3. t = [u EXCEPT !.live = b] BY <3>1, <4>1
      <4> QED BY <4>2, <4>3
    <3> QED BY <2>3, <3>1
  <2>5. \A t \in kTails' : t.key[1] = r => ~t.live
    BY <2>3 DEF TailsCanBeStopped
  <2>6. TailsTyped' BY <2>2, <2>4
  <2>7. TailsCanBeStopped'
    BY <2>2, <2>3, <2>4, <2>5 DEF TailsCanBeStopped
  <2> QED BY <2>6, <2>7
<1>3. ASSUME NEW r \in K3sRevs, NEW s \in K3sServices, ensureLiveLogTails(r, s) PROVE TailsInv'
  BY <1>3, EnsureTail_Inv
<1>4. CASE UNCHANGED <<kStops, kTails, kUsed>> BY <1>4 DEF TailsCanBeStopped
<1>5. ASSUME UNCHANGED <<kStops, kTails>>,
             kUsed' = [kUsed EXCEPT !.calls = @ + 1] \/ kUsed' = [kUsed EXCEPT !.faults = @ + 1]
      PROVE  TailsInv'
  <2>1. kUsed' \in [calls : Nat, faults : Nat, tails : Nat]
    <3>1. PICK n \in Nat, m \in Nat : n = kUsed.calls + 1 /\ m = kUsed.faults + 1 OBVIOUS
    <3> QED BY <1>5, <3>1
  <2> QED BY <1>5, <2>1 DEF TailsCanBeStopped
<1>6. ASSUME NEW r \in K3sRevs,
             CallBegins(r) \/ KubectlFails(r) \/ ApplyManifest(r)
      PROVE  TailsInv'
  BY <1>4, <1>5, <1>6 DEF CallBegins, KubectlFails, ApplyManifest, K3sFault
<1>7. ASSUME NEW r \in K3sRevs, NEW s \in K3sServices,
             RolloutStatusOf(r, s) \/ runK3sServiceHealthGateCheck(r, s)
      PROVE  TailsInv'
  BY <1>4, <1>7 DEF RolloutStatusOf, runK3sServiceHealthGateCheck
<1>8. ASSUME NEW s \in K3sServices, RestartDeployment(s) \/ PodsMove(s) PROVE TailsInv'
  BY <1>4, <1>5, <1>8 DEF RestartDeployment, PodsMove, K3sFault
<1> QED
  BY <1>1, <1>2, <1>3, <1>4, <1>6, <1>7, <1>8 DEF K3sNext, k3sVars

(* Every tail that runs can be stopped by a collection of its revision,    *)
(* for any number of revisions, services and overlapping reconciliations.  *)
THEOREM TailsReachable == K3sSpec => []TailsCanBeStopped
<1>1. TailsInv => TailsCanBeStopped BY DEF TailsInv
<1> QED BY <1>1, K3sInit_Inv, K3sNext_Inv, PTL DEF K3sSpec

-----------------------------------------------------------------------------
(* Telemetry.  A line is in the buffer, in one flush or sent; and what a   *)
(* rollup starts from has been counted, even when another rollup takes the *)
(* offset back.                                                            *)

LinesTyped ==
    /\ tLines \in 0..MaxLines /\ tBuffer \subseteq 1..tLines
    /\ tFlush \in [LogFlushers -> SUBSET (1..tLines)]
    /\ tSent \in [1..MaxLines -> {0, 1}]

LinesInv ==
    /\ LinesTyped
    /\ \A l \in 1..MaxLines :
          /\ l > tLines => tSent[l] = 0
          /\ l \in tBuffer => tSent[l] = 0
    /\ \A l \in 1..MaxLines, f \in LogFlushers : l \in tFlush[f] => tSent[l] = 0 /\ l \notin tBuffer
    /\ \A f, g \in LogFlushers : tFlush[f] \cap tFlush[g] # {} => f = g

RollSteps == {"idle", "open", "seek", "read", "report"}
Rolls == [step : RollSteps, file : 1..tAccess.file, from : Nat, upto : Nat, samples : Nat]

LogFiles ==
    /\ tAccess \in [file : Nat \ {0}, size : Nat] /\ tRolled \in Seq(Nat)
    /\ Len(tRolled) + 1 = tAccess.file

RollsTyped ==
    /\ LogFiles /\ tBlind \in BOOLEAN
    /\ tOffset \in [file : 1..tAccess.file, at : Nat]
    /\ tRoll \in [Rollups -> Rolls]
    /\ tSlot \in [n : Nat, over : BOOLEAN]

StartsCounted(roll) == \A q \in 1..roll.from : <<roll.file, q>> \in tCounted

RollsInv ==
    /\ RollsTyped
    /\ NoRequestSkipped
    /\ \A r \in Rollups : tRoll[r].step = "open" => tRoll[r].from = 0
    /\ \A r \in Rollups : ~tBlind => StartsCounted(tRoll[r])

LEMMA TelemetryInit_Inv == TelemetryInit => LinesInv /\ RollsInv
<1> SUFFICES ASSUME TelemetryInit PROVE LinesInv /\ RollsInv
  OBVIOUS
<1> USE DEF TelemetryInit
<1>1. LinesInv BY TelemetryAssumption DEF LinesInv, LinesTyped
<1>2. RollsTyped
  <2>1. LogFiles BY DEF LogFiles
  <2>2. tAccess.file = 1 OBVIOUS
  <2>3. NoRoll \in Rolls BY <2>2 DEF NoRoll, Rolls, RollSteps
  <2>4. tOffset \in [file : 1..tAccess.file, at : Nat] BY <2>2
  <2> QED BY <2>1, <2>3, <2>4 DEF RollsTyped
<1>3. \A r \in Rollups : tRoll[r].from = 0 BY DEF NoRoll
<1> QED BY <1>1, <1>2, <1>3 DEF RollsInv, NoRequestSkipped, StartsCounted

LEMMA LinesNext_Inv == LinesInv /\ LogsNext => LinesInv' /\ UNCHANGED metricVars
<1> SUFFICES ASSUME LinesInv, LogsNext PROVE LinesInv' /\ UNCHANGED metricVars
  OBVIOUS
<1> USE TelemetryAssumption DEF LinesInv, LinesTyped
<1>1. CASE CooldownEnds BY <1>1 DEF CooldownEnds
<1>2. ASSUME NEW b \in BOOLEAN, Ingest(b) PROVE LinesInv' /\ UNCHANGED metricVars
  <2>1. tLines < MaxLines /\ tLines' = tLines + 1 /\ UNCHANGED <<tFlush, tSent, metricVars>> BY <1>2 DEF Ingest
  <2>2. tBuffer' = tBuffer \/ tBuffer' = tBuffer \cup {tLines + 1} BY <1>2 DEF Ingest
  <2>3. tFlush' \in [LogFlushers -> SUBSET (1..tLines')]
    <3>1. 1..tLines \subseteq 1..tLines' BY <2>1
    <3> QED BY <2>1, <3>1
  <2>4. LinesTyped'
    <3>1. tLines' \in 0..MaxLines BY <2>1
    <3>2. 1..tLines \subseteq 1..tLines' /\ tLines + 1 \in 1..tLines' BY <2>1
    <3>3. tBuffer' \subseteq 1..tLines' BY <2>2, <3>2
    <3> QED BY <2>1, <2>3, <3>1, <3>3
  <2>5. tSent[tLines + 1] = 0 /\ \A f \in LogFlushers : tLines + 1 \notin tFlush[f] BY <2>1
  <2>6. \A l \in 1..MaxLines : (l > tLines' => tSent'[l] = 0) /\ (l \in tBuffer' => tSent'[l] = 0)
    BY <2>1, <2>2, <2>5
  <2>7. \A l \in 1..MaxLines, f \in LogFlushers : l \in tFlush'[f] => tSent'[l] = 0 /\ l \notin tBuffer'
    BY <2>1, <2>2, <2>5
  <2>8. \A f, g \in LogFlushers : tFlush'[f] \cap tFlush'[g] # {} => f = g BY <2>1
  <2> QED BY <2>1, <2>4, <2>6, <2>7, <2>8
<1>3. ASSUME NEW f \in LogFlushers, CollectExpiredBatches(f) PROVE LinesInv' /\ UNCHANGED metricVars
  <2> USE <1>3 DEF CollectExpiredBatches
  <2>1. tFlush' = [tFlush EXCEPT ![f] = tBuffer] /\ tBuffer' = {} /\ UNCHANGED <<tLines, tSent, metricVars>>
    OBVIOUS
  <2>2. \A g \in LogFlushers : tFlush'[g] = IF g = f THEN tBuffer ELSE tFlush[g] BY <2>1
  <2>3. LinesTyped' BY <2>1
  <2>4. \A l \in 1..MaxLines, g \in LogFlushers : l \in tFlush'[g] => tSent'[l] = 0 /\ l \notin tBuffer'
    BY <2>1, <2>2
  <2>5. \A g, h \in LogFlushers : tFlush'[g] \cap tFlush'[h] # {} => g = h
    <3> SUFFICES ASSUME NEW g \in LogFlushers, NEW h \in LogFlushers, NEW l \in 1..MaxLines,
                        l \in tFlush'[g], l \in tFlush'[h]
                 PROVE  g = h
      BY <2>3
    <3>1. tBuffer \subseteq 1..MaxLines OBVIOUS
    <3> QED BY <2>2, <3>1
  <2> QED BY <2>1, <2>3, <2>4, <2>5
<1>4. ASSUME NEW f \in LogFlushers, NEW b \in BOOLEAN, HandleReportLogBatch(f, b) PROVE LinesInv' /\ UNCHANGED metricVars
  <2>1. tFlush' = [tFlush EXCEPT ![f] = {}] /\ UNCHANGED <<tLines, tBuffer, metricVars>>
    BY <1>4 DEF HandleReportLogBatch
  <2>2. \A g \in LogFlushers : tFlush'[g] = IF g = f THEN {} ELSE tFlush[g] BY <2>1
  <2> DEFINE sent == [l \in 1..MaxLines |-> tSent[l] + IF l \in tFlush[f] THEN 1 ELSE 0]
  <2>a. tSent' = sent \/ tSent' = tSent BY <1>4 DEF HandleReportLogBatch
  <2>b. \A l \in 1..MaxLines : IF l \in tFlush[f] THEN tSent[l] = 0 /\ sent[l] = 1 ELSE sent[l] = tSent[l]
    OBVIOUS
  <2>3. \A l \in 1..MaxLines : tSent'[l] # tSent[l] => l \in tFlush[f]
    BY <2>a, <2>b
  <2>4. tSent' \in [1..MaxLines -> {0, 1}]
    <3>1. sent \in [1..MaxLines -> {0, 1}] BY <2>b
    <3> QED BY <2>a, <3>1
  <2>5. LinesTyped' BY <2>1, <2>4
  <2>6. \A l \in 1..MaxLines : (l > tLines' => tSent'[l] = 0) /\ (l \in tBuffer' => tSent'[l] = 0)
    BY <2>1, <2>3
  <2>7. \A l \in 1..MaxLines, g \in LogFlushers : l \in tFlush'[g] => tSent'[l] = 0 /\ l \notin tBuffer'
    <3> SUFFICES ASSUME NEW l \in 1..MaxLines, NEW g \in LogFlushers, l \in tFlush'[g]
                 PROVE  tSent'[l] = 0 /\ l \notin tBuffer'
      OBVIOUS
    <3>1. g # f /\ l \in tFlush[g] BY <2>2
    <3>2. l \notin tFlush[f] BY <3>1
    <3> QED BY <2>1, <2>3, <3>1, <3>2
  <2>8. \A g, h \in LogFlushers : tFlush'[g] \cap tFlush'[h] # {} => g = h BY <2>2
  <2> QED BY <2>1, <2>5, <2>6, <2>7, <2>8
<1> QED BY <1>1, <1>2, <1>3, <1>4 DEF LogsNext

(* What a rollup reads of a file ends at a place in it.                    *)
LEMMA ReadUpToNat == ASSUME RollsTyped, NEW r \in Rollups PROVE ReadUpTo(tRoll[r]) \in Nat
<1>1. tRoll[r] \in Rolls BY DEF RollsTyped
<1>2. tRoll[r].file \in 1..tAccess.file /\ tRoll[r].from \in Nat BY <1>1 DEF Rolls
<1>3. SizeOf(tRoll[r].file) \in Nat BY <1>2 DEF SizeOf, RollsTyped, LogFiles
<1> QED BY <1>2, <1>3 DEF ReadUpTo

LEMMA RollsNext_Inv == RollsInv /\ MetricsNext => RollsInv' /\ UNCHANGED logVars
<1> SUFFICES ASSUME RollsInv, MetricsNext PROVE RollsInv' /\ UNCHANGED logVars
  OBVIOUS
<1> USE TelemetryAssumption DEF RollSteps
<1>0. RollsTyped /\ NoRequestSkipped /\ \A r \in Rollups : tRoll[r] \in Rolls
  BY DEF RollsInv, RollsTyped
<1>f. tAccess.file \in Nat BY <1>0 DEF RollsTyped, LogFiles
<1>1. CASE WindowEnds
  BY <1>0, <1>1 DEF WindowEnds, RollsInv, RollsTyped, Rolls, LogFiles, NoRequestSkipped, StartsCounted, accessVars
<1>2. ASSUME tAccess' \in [file : {tAccess.file, tAccess.file + 1}, size : Nat],
             tRolled' \in Seq(Nat), Len(tRolled') + 1 = tAccess'.file,
             UNCHANGED <<tOffset, tRoll, tCounted, tBlind, tSlot>>
      PROVE  RollsInv'
  <2>1. tAccess'.file \in Nat \ {0} /\ 1..tAccess.file \subseteq 1..tAccess'.file
    BY <1>0, <1>2 DEF RollsTyped, LogFiles
  <2>2. LogFiles' BY <1>2, <2>1 DEF LogFiles
  <2>3. tOffset' \in [file : 1..tAccess'.file, at : Nat] BY <1>0, <1>2, <2>1 DEF RollsTyped
  <2>4. tRoll' \in [Rollups -> Rolls']
    <3>1. Rolls \subseteq Rolls' BY <2>1 DEF Rolls
    <3> QED BY <1>0, <1>2, <3>1 DEF RollsTyped
  <2> QED BY <1>0, <1>2, <2>2, <2>3, <2>4 DEF RollsInv, RollsTyped, NoRequestSkipped, StartsCounted
<1>3. CASE RequestServed
  <2>1. /\ tAccess' = [tAccess EXCEPT !.size = @ + 1] /\ UNCHANGED tRolled
        /\ UNCHANGED <<logVars, tOffset, tRoll, tCounted, tBlind, tSlot>>
    BY <1>3 DEF RequestServed
  <2>2. tAccess' \in [file : {tAccess.file, tAccess.file + 1}, size : Nat] /\ tAccess'.file = tAccess.file
    BY <1>0, <2>1 DEF RollsTyped, LogFiles
  <2> QED BY <1>0, <1>2, <2>1, <2>2 DEF RollsTyped, LogFiles
<1>4. CASE LogRolls
  <2>1. /\ tAccess' = [file |-> tAccess.file + 1, size |-> 0] /\ tRolled' = Append(tRolled, tAccess.size)
        /\ UNCHANGED <<logVars, tOffset, tRoll, tCounted, tBlind, tSlot>>
    BY <1>4 DEF LogRolls
  <2>2. tRolled' \in Seq(Nat) /\ Len(tRolled') = Len(tRolled) + 1
    BY <1>0, <2>1 DEF RollsTyped, LogFiles
  <2> QED BY <1>0, <1>2, <1>f, <2>1, <2>2 DEF RollsTyped, LogFiles
<1>5. ASSUME NEW now \in 0..1, FeedToAggregator(now) PROVE RollsInv' /\ UNCHANGED logVars
  <2>1. tSlot' \in [n : Nat, over : BOOLEAN] BY <1>0, <1>5 DEF FeedToAggregator, Recorded, RollsTyped
  <2>2. UNCHANGED <<accessVars, tRoll, logVars>> BY <1>5 DEF FeedToAggregator
  <2> QED BY <1>0, <2>1, <2>2 DEF RollsInv, RollsTyped, Rolls, LogFiles, NoRequestSkipped, StartsCounted, accessVars
<1>6. ASSUME NEW r \in Rollups, NEW new \in Rolls, tRoll' = [tRoll EXCEPT ![r] = new],
             tSlot' \in [n : Nat, over : BOOLEAN],
             new.step = "open" => new.from = 0,
             ~tBlind' => ~tBlind /\ StartsCounted(new),
             tBlind' \in BOOLEAN, UNCHANGED <<tAccess, tRolled, tOffset, tCounted>>
      PROVE  RollsInv'
  <2>1. \A s \in Rollups : tRoll'[s] = IF s = r THEN new ELSE tRoll[s] BY <1>0, <1>6 DEF RollsTyped
  <2>2. RollsTyped' BY <1>0, <1>6 DEF RollsTyped, LogFiles, Rolls
  <2>3. NoRequestSkipped' BY <1>0, <1>6 DEF NoRequestSkipped
  <2>4. ASSUME NEW s \in Rollups, ~tBlind' PROVE StartsCounted(tRoll[s])'
    <3>1. \A roll : StartsCounted(roll)' <=> \A q \in 1..roll'.from : <<roll'.file, q>> \in tCounted
      BY <1>6 DEF StartsCounted
    <3> QED BY <1>6, <2>1, <2>4 DEF RollsInv, StartsCounted
  <2>5. \A s \in Rollups : tRoll'[s].step = "open" => tRoll'[s].from = 0 BY <1>6, <2>1 DEF RollsInv
  <2> QED BY <2>2, <2>3, <2>4, <2>5 DEF RollsInv
<1>s. tSlot \in [n : Nat, over : BOOLEAN] /\ tBlind \in BOOLEAN BY <1>0 DEF RollsTyped
<1>7. NoRoll \in Rolls /\ StartsCounted(NoRoll) /\ NoRoll.from = 0
  BY <1>0, <1>f DEF NoRoll, Rolls, StartsCounted, RollsTyped, LogFiles
<1>8. ASSUME NEW r \in Rollups, NEW b \in BOOLEAN, TakeWindows(r, b) PROVE RollsInv' /\ UNCHANGED logVars
  <2> DEFINE taken == IF b \/ tSlot.over THEN tSlot.n ELSE 0
             new == [NoRoll EXCEPT !.step = "open", !.samples = taken]
  <2>1. new \in Rolls /\ new.from = 0 BY <1>7, <1>s DEF NoRoll, Rolls
  <2>2. tRoll' = [tRoll EXCEPT ![r] = new] BY <1>8, Zenon DEF TakeWindows
  <2>3. tSlot' \in [n : Nat, over : BOOLEAN] BY <1>8, <1>s DEF TakeWindows
  <2>4. UNCHANGED <<accessVars, logVars>> BY <1>8 DEF TakeWindows
  <2> HIDE DEF new
  <2>5. StartsCounted(new) BY <2>1 DEF StartsCounted
  <2> QED BY <1>6, <1>s, <2>1, <2>2, <2>3, <2>4, <2>5 DEF accessVars
<1>9. ASSUME NEW r \in Rollups, OpenAccessLog(r) PROVE RollsInv' /\ UNCHANGED logVars
  <2> DEFINE new == [tRoll[r] EXCEPT !.step = "seek", !.file = tAccess.file, !.upto = tAccess.size]
  <2>1. tRoll[r] \in Rolls /\ tRoll[r].from = 0 BY <1>0, <1>9 DEF OpenAccessLog, RollsInv
  <2>a. tAccess.file \in 1..tAccess.file /\ tAccess.size \in Nat BY <1>0, <1>f DEF RollsTyped, LogFiles
  <2>2. new \in Rolls /\ new.step = "seek" BY <2>1, <2>a DEF Rolls
  <2>3. tRoll' = [tRoll EXCEPT ![r] = new] /\ UNCHANGED <<accessVars, tSlot, logVars>>
    BY <1>9 DEF OpenAccessLog
  <2>4. StartsCounted(new) BY <2>1 DEF StartsCounted
  <2> HIDE DEF new
  <2> QED BY <1>6, <1>s, <2>2, <2>3, <2>4 DEF accessVars
<1>10. ASSUME NEW r \in Rollups, SeekOffset(r) PROVE RollsInv' /\ UNCHANGED logVars
  <2> DEFINE roll == tRoll[r]
             at == IF roll.upto < tOffset.at THEN 0 ELSE tOffset.at
             new == [roll EXCEPT !.step = "read", !.from = at, !.upto = 0]
  <2>1. roll.upto \in Nat /\ tOffset.at \in Nat /\ roll \in Rolls BY <1>0 DEF Rolls, RollsTyped
  <2>2. new \in Rolls /\ new.from = at /\ new.file = roll.file /\ new.step = "read" BY <2>1 DEF Rolls
  <2>3. /\ tRoll' = [tRoll EXCEPT ![r] = new]
        /\ tBlind' = (tBlind \/ (tOffset.file # roll.file /\ tOffset.at <= roll.upto /\ tOffset.at > 0))
        /\ UNCHANGED <<logVars, tAccess, tRolled, tOffset, tCounted, tSlot>>
    BY <1>10 DEF SeekOffset, SeekTo
  <2>4. ASSUME ~tBlind' PROVE StartsCounted(new)
    <3>a. ~tBlind /\ ~(tOffset.file # roll.file /\ tOffset.at <= roll.upto /\ tOffset.at > 0) BY <2>3, <2>4
    <3> HIDE DEF new, roll
    <3>1. ~tBlind /\ (at > 0 => at = tOffset.at /\ tOffset.file = roll.file) BY <2>1, <3>a
    <3>2. \A q \in 1..at : <<roll.file, q>> \in tCounted
      <4>1. at \in Nat BY <2>1
      <4>2. CASE at = 0 BY <4>2
      <4>3. CASE at > 0 BY <1>0, <3>1, <4>3 DEF NoRequestSkipped
      <4> QED BY <4>1, <4>2, <4>3
    <3> QED BY <2>2, <3>2 DEF StartsCounted
  <2> HIDE DEF new
  <2> QED BY <1>6, <1>s, <2>2, <2>3, <2>4
<1>11. ASSUME NEW r \in Rollups, NEW b \in BOOLEAN, ReadAccessLog(r, b) PROVE RollsInv' /\ UNCHANGED logVars
  <2>1. CASE b
    <3>1. tRoll' = [tRoll EXCEPT ![r] = NoRoll] /\ UNCHANGED <<accessVars, tSlot, logVars>>
      BY <1>11, <2>1 DEF ReadAccessLog
    <3> QED BY <1>6, <1>7, <1>s, <3>1 DEF accessVars
  <2>2. CASE ~b
    <3> DEFINE new == [tRoll[r] EXCEPT !.step = "report", !.upto = ReadUpTo(tRoll[r])]
    <3>1. new \in Rolls /\ new.from = tRoll[r].from /\ new.file = tRoll[r].file /\ new.step = "report"
      BY <1>0, ReadUpToNat DEF Rolls
    <3>2. tRoll' = [tRoll EXCEPT ![r] = new] /\ UNCHANGED <<accessVars, tSlot, logVars>>
      BY <1>11, <2>2 DEF ReadAccessLog
    <3> HIDE DEF new
    <3>3. ~tBlind => StartsCounted(new) BY <3>1 DEF RollsInv, StartsCounted
    <3> QED BY <1>6, <1>s, <3>1, <3>2, <3>3 DEF accessVars
  <2> QED BY <2>1, <2>2
<1>12. ASSUME NEW r \in Rollups, HandleReportMetricRollup(r) PROVE RollsInv' /\ UNCHANGED logVars
  <2> DEFINE roll == tRoll[r]
             counted == {roll.file} \X ((roll.from + 1)..roll.upto)
  <2>1. /\ roll.file \in 1..tAccess.file /\ roll.from \in Nat /\ roll.upto \in Nat
        /\ ~tBlind => StartsCounted(roll)
    BY <1>0 DEF Rolls, RollsInv
  <2>2. /\ tOffset' = [file |-> roll.file, at |-> roll.upto] /\ tCounted' = tCounted \cup counted
        /\ tRoll' = [tRoll EXCEPT ![r] = NoRoll] /\ UNCHANGED <<tAccess, tRolled, tBlind, tSlot, logVars>>
    BY <1>12 DEF HandleReportMetricRollup
  <2>3. \A s \in Rollups : tRoll'[s] = IF s = r THEN NoRoll ELSE tRoll[s] BY <1>0, <2>2 DEF RollsTyped
  <2>4. RollsTyped' BY <1>0, <1>7, <2>1, <2>2 DEF RollsTyped, LogFiles, Rolls
  <2>5. ASSUME ~tBlind, NEW q \in 1..roll.upto PROVE <<roll.file, q>> \in tCounted \cup counted
    <3> HIDE DEF roll
    <3>1. CASE q <= roll.from
      <4>1. q \in 1..roll.from BY <2>1, <3>1
      <4> QED BY <2>1, <2>5, <4>1 DEF StartsCounted
    <3>2. CASE q > roll.from
      <4>1. q \in (roll.from + 1)..roll.upto BY <2>1, <3>2
      <4> QED BY <4>1
    <3> QED BY <2>1, <3>1, <3>2
  <2>6. NoRequestSkipped' BY <2>2, <2>5 DEF NoRequestSkipped
  <2>7. ASSUME NEW s \in Rollups, ~tBlind' PROVE StartsCounted(tRoll[s])'
    BY <1>7, <2>2, <2>3, <2>7 DEF RollsInv, StartsCounted
  <2>8. \A s \in Rollups : tRoll'[s].step = "open" => tRoll'[s].from = 0 BY <1>7, <2>3 DEF RollsInv
  <2> QED BY <2>2, <2>4, <2>6, <2>7, <2>8 DEF RollsInv
<1> QED BY <1>1, <1>2, <1>3, <1>4, <1>5, <1>8, <1>9, <1>10, <1>11, <1>12 DEF MetricsNext, WindowEnds

LEMMA TelemetryNext_Inv == LinesInv /\ RollsInv /\ [TelemetryNext]_telemetryVars => LinesInv' /\ RollsInv'
<1> SUFFICES ASSUME LinesInv, RollsInv, [TelemetryNext]_telemetryVars PROVE LinesInv' /\ RollsInv'
  OBVIOUS
<1>1. UNCHANGED metricVars => RollsInv' 
  BY DEF metricVars, accessVars, RollsInv, RollsTyped, Rolls, LogFiles, NoRequestSkipped, StartsCounted
<1>2. UNCHANGED logVars => LinesInv' BY DEF logVars, LinesInv, LinesTyped
<1>3. UNCHANGED telemetryVars => UNCHANGED metricVars /\ UNCHANGED logVars BY DEF telemetryVars, metricVars, accessVars, logVars
<1> QED BY <1>1, <1>2, <1>3, LinesNext_Inv, RollsNext_Inv DEF TelemetryNext

(* At most one flush holds a line, and none that is sent or buffered. *)
LEMMA OnePlaceEach == LinesInv => EntrySentOnce
<1> SUFFICES ASSUME LinesInv, NEW l \in 1..tLines
             PROVE  tSent[l] + (IF l \in tBuffer THEN 1 ELSE 0) + Cardinality({f \in LogFlushers : l \in tFlush[f]}) <= 1
  BY DEF EntrySentOnce
<1> DEFINE holders == {f \in LogFlushers : l \in tFlush[f]}
<1> USE DEF LinesInv, LinesTyped
<1>1. l \in 1..MaxLines /\ tSent[l] \in {0, 1} BY TelemetryAssumption
<1>2. CASE holders = {}
  <2>1. Cardinality(holders) = 0 BY <1>2, FS_EmptySet
  <2> QED BY <1>1, <2>1
<1>3. CASE holders # {}
  <2>1. PICK f \in LogFlushers : l \in tFlush[f] BY <1>3
  <2>2. holders = {f} BY <2>1
  <2>3. Cardinality(holders) = 1 BY <2>2, FS_Singleton
  <2>4. tSent[l] = 0 /\ l \notin tBuffer BY <1>1, <2>1
  <2> QED BY <2>3, <2>4
<1> QED BY <1>2, <1>3

(* No line is sent twice; and until a rollup takes a new file of the log   *)
(* that has grown past the offset for the old one, no request the          *)
(* aggregator has passed in a file is skipped, for any number of           *)
(* overlapping flushes and rollups, files of the log and limits            *)
(* (CollectExpiredBatches, countNewAccessLogEntries).                      *)
THEOREM SentOnceCountedAll == TelemetrySpec => []NothingTwiceNorSkipped
<1>1. LinesInv /\ RollsInv => NothingTwiceNorSkipped BY OnePlaceEach DEF RollsInv, NothingTwiceNorSkipped
<1> QED BY <1>1, TelemetryInit_Inv, TelemetryNext_Inv, PTL DEF TelemetrySpec

-----------------------------------------------------------------------------
(* The log followers are numbered without gaps, so that a new one   *)
(* is none of those that run.                                              *)

FollowersTyped ==
    /\ registered \in [LogKeys -> Nat]
    /\ IsFiniteSet(DOMAIN followers) /\ DOMAIN followers = 1 .. Cardinality(DOMAIN followers)
    /\ followers \in [DOMAIN followers -> [key : LogKeys, cancelled : BOOLEAN, running : BOOLEAN]]

FollowersInv == FollowersTyped /\ NoStrayFollower

LEMMA FollowersInit_Inv == FollowersInit => FollowersInv
<1> SUFFICES ASSUME FollowersInit PROVE FollowersInv
  OBVIOUS
<1>1. DOMAIN followers = {} BY DEF FollowersInit
<1>2. IsFiniteSet({}) /\ Cardinality({}) = 0 BY FS_EmptySet
<1> QED BY <1>1, <1>2 DEF FollowersInit, FollowersInv, FollowersTyped, NoStrayFollower

(* Cancelling keeps who follows what. *)
LEMMA CancelledFacts ==
    ASSUME FollowersTyped, NEW id \in Nat
    PROVE  /\ Cancelled(followers, id) \in [DOMAIN followers -> [key : LogKeys, cancelled : BOOLEAN, running : BOOLEAN]]
           /\ \A i \in DOMAIN followers :
                /\ Cancelled(followers, id)[i].key = followers[i].key
                /\ Cancelled(followers, id)[i].running = followers[i].running
                /\ ~Cancelled(followers, id)[i].cancelled => i # id /\ ~followers[i].cancelled
BY DEF FollowersTyped, Cancelled

LEMMA FollowersNext_Inv == FollowersInv /\ [FollowersNext]_followerVars => FollowersInv'
<1> SUFFICES ASSUME FollowersInv, [FollowersNext]_followerVars PROVE FollowersInv'
  OBVIOUS
<1> USE DEF FollowersInv, FollowersTyped
<1>1. ASSUME NEW k \in LogKeys, startFollower(k) PROVE FollowersInv'
  <2> DEFINE n == Cardinality(DOMAIN followers)
             new == [key |-> k, cancelled |-> FALSE, running |-> TRUE]
  <2>1. n \in Nat /\ DOMAIN followers = 1 .. n BY FS_CardinalityType
  <2>2. /\ followers' = [i \in 1 .. n + 1 |->
               IF i = n + 1 THEN new ELSE Cancelled(followers, registered[k])[i]]
        /\ registered' = [registered EXCEPT ![k] = n + 1]
    BY <1>1 DEF startFollower
  <2>3. DOMAIN followers' = 1 .. n + 1 BY <2>2
  <2>4. IsFiniteSet(1 .. n + 1) /\ Cardinality(1 .. n + 1) = n + 1
    <3>1. 1 \in Int /\ n + 1 \in Int /\ ~(1 > n + 1) /\ (n + 1) - 1 + 1 = n + 1 BY <2>1
    <3> HIDE DEF n
    <3> QED BY <3>1, FS_Interval
  <2>5. \A i \in 1 .. n + 1 : i # n + 1 => i \in DOMAIN followers BY <2>1
  <2>6. FollowersTyped' BY <2>1, <2>2, <2>3, <2>4, <2>5, CancelledFacts
  <2>7. NoStrayFollower'
    BY <2>1, <2>2, <2>3, <2>5, CancelledFacts DEF NoStrayFollower
  <2> QED BY <2>6, <2>7
<1>2. ASSUME NEW k \in LogKeys, stopLogFollower(k) PROVE FollowersInv'
  <2>1. /\ followers' = Cancelled(followers, registered[k])
        /\ registered' = [registered EXCEPT ![k] = 0]
    BY <1>2 DEF stopLogFollower
  <2>2. DOMAIN followers' = DOMAIN followers BY <2>1 DEF Cancelled
  <2> QED BY <2>1, <2>2, CancelledFacts DEF NoStrayFollower
<1>3. ASSUME NEW id \in DOMAIN followers, followEnds(id) PROVE FollowersInv'
  <2> DEFINE k == followers[id].key
  <2>1. /\ followers' = [followers EXCEPT ![id].running = FALSE]
        /\ registered' = [registered EXCEPT ![k] = IF @ = id THEN 0 ELSE @]
    BY <1>3 DEF followEnds
  <2>2. DOMAIN followers' = DOMAIN followers BY <2>1
  <2>3. \A i \in DOMAIN followers :
            /\ followers'[i].key = followers[i].key
            /\ followers'[i].cancelled = followers[i].cancelled
            /\ followers'[i].running = (followers[i].running /\ i # id)
    BY <2>1
  <2>4. FollowersTyped'
    <3>1. k \in LogKeys /\ registered'[k] \in Nat BY <2>1
    <3> QED BY <2>1, <2>2, <3>1
  <2>5. NoStrayFollower'
    <3> SUFFICES ASSUME NEW i \in DOMAIN followers, i # id,
                        followers[i].running, ~followers[i].cancelled
                 PROVE  registered'[followers[i].key] = i
      BY <2>2, <2>3 DEF NoStrayFollower
    <3>1. registered[followers[i].key] = i BY DEF NoStrayFollower
    <3> QED BY <2>1, <3>1
  <2> QED BY <2>4, <2>5
<1>4. CASE UNCHANGED followerVars
  BY <1>4 DEF followerVars, NoStrayFollower
<1> QED BY <1>1, <1>2, <1>3, <1>4 DEF FollowersNext

(* Whoever follows a log untold to stop can be stopped, for any number of  *)
(* logs and followers (startDockerLogFollower, clearLogFollower).          *)
THEOREM FollowersReachable == FollowersSpec => []NoStrayFollower
<1>1. FollowersInv => NoStrayFollower BY DEF FollowersInv
<1> QED BY <1>1, FollowersInit_Inv, FollowersNext_Inv, PTL DEF FollowersSpec

-----------------------------------------------------------------------------
(* The health gate of a release.  A service passes only for what it        *)
(* answered, and where the agent's gate passes one, the backend's does.     *)

Phases == {"idle", "grace", "look", "probe", "soften", "decide"}
InTurn == {"look", "probe", "soften"}
Gate == [phase : Phases, service : Nat, port : Nat, attempt : Nat, good : Nat, bad : Nat]
GateRow == [name : STRING, how : {"internal", "skipped", "probed", "softened", "failed"},
            passed : BOOLEAN, answers : Seq(BOOLEAN), steady : SUBSET Ports, port : Nat,
            wanted : GatedService, cancelled : BOOLEAN]

Wanted(s) == IF s.successes > 0 THEN s.successes ELSE 1
Allowed(s) == IF s.failures > 0 THEN s.failures ELSE 3

(* What the counters say of the answers so far: as many at the end were    *)
(* good, and bad when all were; neither count has reached its threshold,   *)
(* so that among the first answers one was good.                           *)
Counts(g, s, answers) ==
    /\ g.attempt = Len(answers) /\ g.good <= Len(answers)
    /\ \A i \in DOMAIN answers : i > Len(answers) - g.good => answers[i]
    /\ (\A i \in DOMAIN answers : ~answers[i]) => g.bad = Len(answers)
    /\ g.good < Wanted(s) /\ g.bad < Allowed(s)
    /\ Len(answers) < Wanted(s) + Allowed(s)
    /\ Len(answers) >= Allowed(s) => \E i \in 1..Allowed(s) : answers[i]

(* A port that has served since the turn began has answered well each time *)
(* and was not given up, unless the agent is being stopped.                *)
SteadyProbed ==
    Probed \in steady /\ ~cancelled /\ Now.protocol \in {"http", "tcp"}
        => gate.bad = 0 /\ gate.good = gate.attempt
GivenUp(i) == gate.phase = "soften" \/ i < gate.port
SteadyKept ==
    ~cancelled /\ Now.protocol \in {"http", "tcp"} =>
        \A i \in healthCheckPortCandidates(Now) : GivenUp(i) => portsToAdd(Now)[i] \notin steady

RowTrue(r) ==
    /\ r.how = "probed" => Enough(r) /\ probeService(r.wanted, r.answers)
    /\ r.how \in {"skipped", "softened"} => gated.autogen /\ r.name = "app"
    /\ ~r.passed /\ ~r.cancelled /\ r.wanted.protocol # "udp"
           => {r.wanted.runtime, r.wanted.declared} \cap r.steady = {}

GateTypes ==
    /\ gated \in GatedReleases /\ gate \in Gate /\ seen \in Seq(BOOLEAN)
    /\ listening \in [Ports -> {"down", "errors", "serves"}] /\ cancelled \in BOOLEAN
    /\ steady \subseteq Serving
    /\ report \in Seq(GateRow) /\ \A i \in DOMAIN report : RowTrue(report[i])
    /\ verdict \in {"none", "promotable", "stop_rollout", "rollback_release"}

GatePlace ==
    /\ gate.phase = "grace" => report = <<>>
    /\ gate.phase \in InTurn => gate.service = Len(report) + 1 /\ gate.service <= Len(gated.services)
    /\ gate.phase = "look" => gate = Turn(gate.service) /\ seen = <<>>
    /\ gate.phase = "probe" => Counts(gate, Now, seen) /\ SteadyProbed
    /\ gate.phase \in {"probe", "soften"} =>
          gate.port \in healthCheckPortCandidates(Now) /\ SteadyKept
    /\ gate.phase = "decide" => Len(report) = Len(gated.services)
    /\ gate.phase # "idle" => verdict = "none"
    /\ verdict = "promotable" =>
          Len(report) = Len(gated.services) /\ \A i \in DOMAIN report : report[i].passed

GateInv == GateTypes /\ GatePlace

LEMMA CandidatePlaces ==
    ASSUME NEW s \in GatedService
    PROVE  /\ portsToAdd(s) \in Seq(Nat)
           /\ healthCheckPortCandidates(s) \subseteq DOMAIN portsToAdd(s)
           /\ healthCheckPortCandidates(s) \in SUBSET Nat
           /\ 1 \in healthCheckPortCandidates(s)
           /\ \A p \in {s.runtime, s.declared} : p > 0 =>
                 \E i \in healthCheckPortCandidates(s) : portsToAdd(s)[i] = p
<1>1. \A k \in DOMAIN DefaultPorts : DefaultPorts[k] \in Nat /\ DefaultPorts[k] > 0 BY DEF DefaultPorts
<1>2. PICK e \in Nat : e = effectiveRuntimePort(s) /\ e > 0 /\ (s.runtime > 0 => e = s.runtime)
  BY <1>1 DEF effectiveRuntimePort, GatedService
<1>3. declaredHealthcheckPort(s) = s.declared /\ s.declared \in Nat /\ s.runtime \in Nat
  BY DEF declaredHealthcheckPort, GatedService
<1>4. PICK ports : ports = portsToAdd(s) OBVIOUS
<1>5. ports = <<e, s.declared, 3000, 5000>> \/ ports = <<e, s.declared>>
  BY <1>2, <1>3, <1>4 DEF portsToAdd
<1>6. ports \in Seq(Nat) /\ 1 \in DOMAIN ports /\ 2 \in DOMAIN ports /\ ports[1] = e /\ ports[2] = s.declared
  <2>1. PICK d \in Nat : d = s.declared BY <1>3
  <2>2. CASE ports = <<e, d, 3000, 5000>> BY ONLY e \in Nat, d \in Nat, <2>1, <2>2
  <2>3. CASE ports = <<e, d>> BY ONLY e \in Nat, d \in Nat, <2>1, <2>3
  <2> QED BY <1>5, <2>1, <2>2, <2>3
<1>7. healthCheckPortCandidates(s) =
        {i \in DOMAIN ports : ports[i] > 0 /\ \A j \in 1..(i - 1) : ports[j] # ports[i]}
  BY <1>4 DEF healthCheckPortCandidates
<1>8. 1 \in healthCheckPortCandidates(s) BY <1>2, <1>6, <1>7
<1>9. s.declared > 0 /\ s.declared # e => 2 \in healthCheckPortCandidates(s) BY <1>2, <1>6, <1>7
<1> QED BY <1>2, <1>3, <1>4, <1>6, <1>7, <1>8, <1>9

LEMMA IntervalSize ==
    ASSUME NEW a \in Int, NEW b \in Int, ~(a > b + 1)
    PROVE  IsFiniteSet(a..b) /\ Cardinality(a..b) = b - a + 1
<1>1. IsFiniteSet(a..b) /\ Cardinality(a..b) = IF a > b THEN 0 ELSE b - a + 1 BY FS_Interval
<1>2. a > b => b - a + 1 = 0 OBVIOUS
<1> QED BY <1>1, <1>2

(* The two evaluators agree: answers that end well, one by one for as long *)
(* as was asked, and in time, are enough for the one that adds up.         *)
LEMMA BothPass ==
    ASSUME NEW s \in GatedService, NEW answers \in Seq(BOOLEAN), Len(answers) > 0,
           Wanted(s) <= Len(answers), Len(answers) <= Wanted(s) + Allowed(s),
           \A i \in DOMAIN answers : i > Len(answers) - Wanted(s) => answers[i],
           Len(answers) = Wanted(s) + Allowed(s) => \E i \in 1..Allowed(s) : answers[i]
    PROVE  probeService(s, answers)
<1> DEFINE Good(i) == Cardinality({j \in 1..i : answers[j]})
           n == Len(answers)
           w == Wanted(s)
           a == Allowed(s)
<1>1. w \in Nat /\ w > 0 /\ a \in Nat /\ a > 0 /\ n \in Nat /\ w <= n /\ n <= w + a
  BY DEF Wanted, Allowed, GatedService
<1>2. buildProbeConfig(s).successes = w /\ buildProbeConfig(s).failures = a
  BY DEF Wanted, Allowed, buildProbeConfig
<1>3. ASSUME NEW i \in Nat, NEW T \in SUBSET (1..i)
      PROVE  IsFiniteSet(T) /\ Cardinality(T) \in Nat /\ Cardinality(T) <= i
  <2>0. 1 \in Int /\ i \in Int /\ ~(1 > i + 1) /\ i - 1 + 1 = i OBVIOUS
  <2>1. IsFiniteSet(1..i) /\ Cardinality(1..i) = i BY ONLY <2>0, IntervalSize
  <2> QED BY <2>1, FS_Subset, FS_CardinalityType
<1>4. ASSUME NEW i \in 0..n, NEW T \in SUBSET (1..i), \A j \in T : answers[j]
      PROVE  Good(i) \in Nat /\ Cardinality(T) <= Good(i)
  <2>1. {j \in 1..i : answers[j]} \in SUBSET (1..i) /\ T \subseteq {j \in 1..i : answers[j]} BY <1>4
  <2>2. i \in Nat BY <1>1
  <2> QED BY <2>1, <2>2, <1>3, FS_Subset
\* of the answers up to j, as many are bad at most as up to a later one
<1>5. ASSUME NEW i \in 1..n, NEW j \in 1..i PROVE j - Good(j) <= i - Good(i)
  <2> DEFINE G(k) == {m \in 1..k : answers[m]}
  <2>1. G(i) = G(j) \cup {m \in (j + 1)..i : answers[m]} BY <1>1
  <2>2a. (j + 1) \in Int /\ i \in Int /\ ~((j + 1) > i + 1) /\ i - (j + 1) + 1 = i - j BY <1>1
  <2>2. IsFiniteSet((j + 1)..i) /\ Cardinality((j + 1)..i) = i - j BY ONLY <2>2a, IntervalSize
  <2>3. PICK M : M = {m \in (j + 1)..i : answers[m]} OBVIOUS
  <2>4. IsFiniteSet(M) /\ Cardinality(M) \in Nat /\ Cardinality(M) <= i - j
    BY <2>2, <2>3, FS_Subset, FS_CardinalityType
  <2>5. IsFiniteSet(G(j)) /\ Cardinality(G(j)) \in Nat /\ j \in Nat BY <1>1, <1>3
  <2>6. Cardinality(G(i)) <= Cardinality(G(j)) + Cardinality(M)
    <3>1. PICK P, Q : P = G(j) /\ Q = G(i) OBVIOUS
    <3>2. Q = P \cup M BY <2>1, <2>3, <3>1
    <3>3. IsFiniteSet(P \cap M) /\ Cardinality(P \cap M) \in Nat BY <2>4, <3>1, <2>5, FS_Intersection, FS_CardinalityType
    <3>4. Cardinality(Q) = Cardinality(P) + Cardinality(M) - Cardinality(P \cap M) BY <2>4, <2>5, <3>1, <3>2, FS_Union
    <3> QED BY <2>4, <2>5, <3>1, <3>3, <3>4
  <2>7. Good(i) \in Nat BY <1>1, <1>3
  <2>8. Good(i) = Cardinality(G(i)) /\ Good(j) = Cardinality(G(j)) OBVIOUS
  <2> HIDE DEF G, Good
  <2> QED BY <1>1, <2>4, <2>5, <2>6, <2>7, <2>8
<1>6a. (n - w + 1) \in Int /\ n \in Int /\ ~((n - w + 1) > n + 1) /\ n - (n - w + 1) + 1 = w BY <1>1
<1>6. IsFiniteSet((n - w + 1)..n) /\ Cardinality((n - w + 1)..n) = w BY ONLY <1>6a, IntervalSize
<1>7. PICK last : last = (n - w + 1)..n OBVIOUS
<1>8. last \in SUBSET (1..n) /\ \A j \in last : answers[j] BY <1>1, <1>7
<1>9. Good(n) \in Nat /\ w <= Good(n)
  <2>1. n \in 0..n BY <1>1
  <2> HIDE DEF Good
  <2> QED BY <2>1, <1>4, <1>6, <1>7, <1>8
<1>10. ASSUME NEW i \in 1..n, i < w + a, Good(i) >= w, i - Good(i) < a
       PROVE  probeService(s, answers)
  <2>1. \A j \in 1..i : j - Good(j) < a
    <3>1. TAKE j \in 1..i
    <3>2. Good(j) \in Nat /\ Good(i) \in Nat BY <1>1, <1>3
    <3>3. j - Good(j) <= i - Good(i) BY <1>5
    <3> HIDE DEF Good
    <3> QED BY <1>1, <1>10, <3>2, <3>3
  <2>2. i \in 1..Len(answers) OBVIOUS
  <2>3. \E k \in 1..Len(answers) : k < w + a /\ Good(k) >= w /\ \A j \in 1..k : j - Good(j) < a
    <3> HIDE DEF Good
    <3> QED BY <2>1, <2>2, <1>10
  <2> QED BY <2>3, <1>2 DEF probeService
<1>11. CASE n < w + a
  <2>1. n \in 1..n /\ n - Good(n) < a
    <3> HIDE DEF Good
    <3> QED BY <1>1, <1>9, <1>11
  <2> HIDE DEF Good
  <2> QED BY ONLY <1>1, <1>9, <1>10, <1>11, <2>1
<1>12. CASE n = w + a
  <2>1. PICK k \in 1..a : answers[k] BY <1>12
  <2>2. k \in 1..(n - 1) /\ k \notin last /\ n - 1 \in 1..n BY <1>1, <1>7, <1>12
  <2>3. PICK most : most = ((n - w + 1)..(n - 1)) \cup {k} OBVIOUS
  <2>4. Cardinality(most) = w
    <3>1a. (n - w + 1) \in Int /\ (n - 1) \in Int /\ ~((n - w + 1) > (n - 1) + 1) /\ (n - 1) - (n - w + 1) + 1 = w - 1 BY <1>1
    <3>1. IsFiniteSet((n - w + 1)..(n - 1)) /\ Cardinality((n - w + 1)..(n - 1)) = w - 1 BY ONLY <3>1a, IntervalSize
    <3>2. k \notin (n - w + 1)..(n - 1) BY <1>1, <2>1, <1>12
    <3>3. Cardinality(most) = (w - 1) + 1 BY <2>3, <3>1, <3>2, FS_AddElement
    <3> QED BY <3>3, <1>1
  <2>5. most \in SUBSET (1..(n - 1)) /\ \A j \in most : answers[j] BY <1>1, <1>7, <1>8, <2>1, <2>2, <2>3
  <2>6. Good(n - 1) \in Nat /\ w <= Good(n - 1)
    <3>1. n - 1 \in 0..n BY <1>1
    <3> HIDE DEF Good
    <3> QED BY <3>1, <1>4, <2>4, <2>5
  <2>7. (n - 1) - Good(n - 1) < a
    <3> HIDE DEF Good
    <3> QED BY <1>1, <1>12, <2>6
  <2> HIDE DEF Good
  <2> QED BY ONLY <1>1, <1>10, <1>12, <2>2, <2>6, <2>7
<1> QED BY <1>1, <1>11, <1>12

LEMMA Turns ==
    ASSUME NEW i \in Nat
    PROVE  /\ Turn(i) \in Gate /\ Turn(i).service = i /\ Turn(i).port = 0
           /\ Turn(i).attempt = 0 /\ Turn(i).good = 0 /\ Turn(i).bad = 0
           /\ Turn(i).phase = IF i > Len(gated.services) THEN "decide" ELSE "look"
           /\ Idle \in Gate /\ Idle.phase = "idle"
BY DEF Turn, Idle, Gate, Phases

LEMMA GatedNow ==
    ASSUME GateInv, gate.phase \in InTurn
    PROVE  /\ Now \in GatedService /\ gated.services \in Seq(GatedService) /\ Len(report) \in Nat
           /\ gate.service = Len(report) + 1 /\ gate.service <= Len(gated.services)
<1>1. gated.services \in Seq(GatedService) BY GateAssumption DEF GateInv, GateTypes
<1>2. gate.service \in 1..Len(gated.services) /\ Len(report) \in Nat BY <1>1 DEF GateInv, GateTypes, GatePlace, Gate
<1> QED BY <1>1, <1>2 DEF GateInv, GatePlace, Now

LEMMA GateInvInit == GateInit => GateInv
<1> SUFFICES ASSUME GateInit PROVE GateInv OBVIOUS
<1>1. Idle \in Gate /\ Idle.phase = "idle" BY Turns
<1>2. GateTypes
  <2>1. <<>> \in Seq(GateRow) /\ <<>> \in Seq(BOOLEAN) /\ DOMAIN <<>> = {} OBVIOUS
  <2>2. report = <<>> /\ seen = <<>> BY DEF GateInit
  <2>3. \A i \in DOMAIN report : RowTrue(report[i]) BY <2>1, <2>2
  <2> QED BY <1>1, <2>1, <2>2, <2>3 DEF GateInit, GateTypes, Serving
<1>3. GatePlace BY <1>1 DEF GateInit, GatePlace, InTurn
<1> QED BY <1>2, <1>3 DEF GateInv

(* The end of a service's turn. *)
LEMMA TurnEnds ==
    ASSUME GateInv, gate.phase \in InTurn, NEW r \in GateRow, RowTrue(r), Reported(r),
           UNCHANGED <<gated, listening, cancelled, verdict>>
    PROVE  GateInv'
<1>1. /\ Len(report) \in Nat /\ gate.service = Len(report) + 1
      /\ gated.services \in Seq(GatedService) /\ gate.service <= Len(gated.services)
  BY GatedNow
<1>2. report' = Append(report, r) /\ report' \in Seq(GateRow) /\ Len(report') = Len(report) + 1
  BY <1>1 DEF Reported, GateInv, GateTypes
<1>3. (\A i \in DOMAIN report : RowTrue(report[i]))'
  <2> SUFFICES ASSUME NEW i \in DOMAIN report' PROVE RowTrue(report[i])' OBVIOUS
  <2>1. report'[i] = r \/ (i \in DOMAIN report /\ report'[i] = report[i]) BY <1>2 DEF GateInv, GateTypes
  <2>2. RowTrue(report'[i]) BY <2>1 DEF GateInv, GateTypes
  <2> QED BY <2>2 DEF RowTrue
<1>4. PICK n \in Nat : n = gate.service + 1 /\ gate' = Turn(n) BY <1>1 DEF Reported
<1>5. /\ gate' \in Gate /\ gate'.service = n
      /\ gate'.phase = IF n > Len(gated.services) THEN "decide" ELSE "look"
      /\ Turn(n)' = Turn(n)
  BY <1>4, Turns DEF Turn
<1>6. steady' = Serving' /\ seen' = <<>> BY DEF Reported, Serving
<1>7. GateTypes' BY <1>2, <1>3, <1>5, <1>6 DEF GateInv, GateTypes
<1>8. verdict' = "none" BY DEF GateInv, GatePlace, InTurn
<1>9. gate'.phase = "decide" => Len(report') = Len(gated.services)
  <2>1. Len(gated.services) \in Nat BY <1>1
  <2> QED BY ONLY <1>1, <1>2, <1>4, <1>5, <2>1
<1>10. gate'.phase = "look" => n <= Len(gated.services) /\ n = Len(report') + 1
  <2>1. Len(gated.services) \in Nat BY <1>1
  <2> QED BY ONLY <1>1, <1>2, <1>4, <1>5, <2>1
<1>11. GatePlace' BY <1>4, <1>5, <1>6, <1>8, <1>9, <1>10 DEF GatePlace, InTurn
<1> QED BY <1>7, <1>11 DEF GateInv

LEMMA Answered == probeServiceOnce(Now, Probed) \in BOOLEAN
BY DEF probeServiceOnce

LEMMA ResultTyped ==
    ASSUME GateInv, gate.phase \in InTurn, NEW how \in {"internal", "skipped", "probed", "softened", "failed"},
           NEW passed \in BOOLEAN,
           gate.port = 0 \/ gate.port \in healthCheckPortCandidates(Now)
    PROVE  Result(how, passed) \in GateRow
<1>1. Now \in GatedService BY GatedNow
<1>2. steady \in SUBSET Ports /\ seen \in Seq(BOOLEAN) /\ cancelled \in BOOLEAN
  BY DEF GateInv, GateTypes, Serving
<1>3. (IF gate.port = 0 THEN 0 ELSE Probed) \in Nat BY <1>1, CandidatePlaces DEF Probed
<1>4. Now.name \in STRING BY <1>1 DEF GatedService
<1> QED BY <1>1, <1>2, <1>3, <1>4 DEF Result, GateRow

LEMMA Thresholds ==
    ASSUME NEW s \in GatedService
    PROVE  Wanted(s) \in Nat /\ Wanted(s) > 0 /\ Allowed(s) \in Nat /\ Allowed(s) > 0
BY DEF Wanted, Allowed, GatedService

LEMMA GateStarts == ASSUME GateInv, RunHealthGate PROVE GateInv'
<1>1. gate' \in Gate /\ gate'.phase = "grace" /\ report' = <<>> /\ verdict' = "none"
  BY DEF RunHealthGate, Gate, Phases, Idle
<1>2. report' \in Seq(GateRow) /\ DOMAIN report' = {} BY <1>1
<1>3. (\A i \in DOMAIN report : RowTrue(report[i]))' BY <1>2
<1>4. GateTypes' BY <1>1, <1>2, <1>3 DEF RunHealthGate, GateInv, GateTypes, Serving
<1>5. GatePlace' BY <1>1 DEF GatePlace, InTurn
<1> QED BY <1>4, <1>5 DEF GateInv

LEMMA GraceKeeps == ASSUME GateInv, GraceEnds PROVE GateInv'
<1>1. gate' = Idle \/ gate' = Turn(1) BY DEF GraceEnds
<1>2. gate' \in Gate BY <1>1, Turns
<1>3. report' = <<>> /\ verdict' = "none" /\ gated' = gated /\ seen' = <<>>
  BY DEF GraceEnds, GateInv, GatePlace
<1>4. (\A i \in DOMAIN report : RowTrue(report[i]))' BY <1>3
<1>5. steady' = Serving' BY DEF GraceEnds, Serving
<1>6. GateTypes' BY <1>2, <1>3, <1>4, <1>5 DEF GraceEnds, GateInv, GateTypes
<1>7. CASE gate' = Idle
  <2>1. gate'.phase = "idle" BY <1>7 DEF Idle
  <2>2. GatePlace' BY <1>3, <2>1 DEF GatePlace, InTurn
  <2> QED BY <1>6, <2>2 DEF GateInv
<1>8. CASE gate' = Turn(1)
  <2>1. gate'.service = 1 /\ gate'.phase = IF 1 > Len(gated.services) THEN "decide" ELSE "look"
    BY <1>8, Turns
  <2>2. Len(gated.services) \in Nat BY GateAssumption DEF GateInv, GateTypes
  <2>3. Len(report') = 0 BY <1>3
  <2>4. Turn(1)' = Turn(1) BY <1>3 DEF Turn
  <2>5. gate'.phase = "decide" => Len(report') = Len(gated.services) BY ONLY <2>1, <2>2, <2>3
  <2>6. gate'.phase = "look" => gate'.service = Len(report') + 1 /\ gate'.service <= Len(gated.services)
    BY ONLY <2>1, <2>2, <2>3
  <2>7. (gate = Turn(gate.service))' BY <1>3, <1>8, <2>1 DEF Turn
  <2>8. gate'.phase \in {"look", "decide"} BY <2>1
  <2>9. GatePlace' BY <1>3, <2>5, <2>6, <2>7, <2>8 DEF GatePlace, InTurn
  <2> QED BY <1>6, <2>9 DEF GateInv
<1> QED BY <1>1, <1>6, <1>7, <1>8 DEF GateInv

LEMMA SkipKeeps == ASSUME GateInv, SkipService PROVE GateInv'
<1>0. gate.phase \in InTurn /\ gate.port = 0 /\ seen = <<>>
  <2>1. gate = Turn(gate.service) /\ gate.service \in Nat /\ seen = <<>>
    BY DEF SkipService, GateInv, GatePlace, GateTypes, Gate
  <2> QED BY <2>1, Turns DEF SkipService, InTurn
<1>1. UNCHANGED <<gated, listening, cancelled, verdict>> BY DEF SkipService
<1>2. CASE Reported(Result("internal", TRUE))
  <2>1. Result("internal", TRUE) \in GateRow BY <1>0, ResultTyped
  <2>2. RowTrue(Result("internal", TRUE)) BY DEF RowTrue, Result
  <2> QED BY <1>0, <1>1, <1>2, <2>1, <2>2, TurnEnds
<1>3. CASE shouldSkipServiceHealthCheck /\ Reported(Result("skipped", TRUE))
  <2>1. Result("skipped", TRUE) \in GateRow BY <1>0, ResultTyped
  <2>2. RowTrue(Result("skipped", TRUE))
    BY <1>3 DEF RowTrue, Result, shouldSkipServiceHealthCheck, isOneClickAutogenRevision
  <2> QED BY <1>0, <1>1, <1>3, <2>1, <2>2, TurnEnds
<1> QED BY <1>2, <1>3 DEF SkipService

LEMMA ProbesStart == ASSUME GateInv, runServiceHealthCheck PROVE GateInv'
<1>1. gate = Turn(gate.service) /\ gate.service \in Nat /\ seen = <<>> /\ gate \in Gate
  BY DEF runServiceHealthCheck, GateInv, GatePlace, GateTypes, Gate
<1>2. gate.attempt = 0 /\ gate.good = 0 /\ gate.bad = 0 BY <1>1, Turns
<1>3. Now \in GatedService BY GatedNow DEF runServiceHealthCheck, InTurn
<1>4. /\ gate' \in Gate /\ gate'.phase = "probe" /\ gate'.port = 1 /\ gate'.service = gate.service
      /\ gate'.attempt = 0 /\ gate'.good = 0 /\ gate'.bad = 0
  BY <1>1, <1>2 DEF runServiceHealthCheck, Gate, Phases
<1>5. UNCHANGED <<gated, listening, candidate, cancelled, seen, steady, report, verdict>>
  BY DEF runServiceHealthCheck
<1>6. Now' = Now BY <1>4, <1>5 DEF Now
<1>7. GateTypes' BY <1>4, <1>5 DEF GateInv, GateTypes, Serving, RowTrue
<1>8. Counts(gate', Now, <<>>) BY <1>3, <1>4, Thresholds DEF Counts
<1>9. gate'.port \in healthCheckPortCandidates(Now) BY <1>3, <1>4, CandidatePlaces
<1>10. SteadyProbed' BY <1>4 DEF SteadyProbed
<1>11. \A i \in healthCheckPortCandidates(Now) : ~GivenUp(i)'
  BY <1>3, <1>4, CandidatePlaces DEF GivenUp, healthCheckPortCandidates
<1>12. SteadyKept' BY <1>6, <1>11 DEF SteadyKept
<1>13. gate.phase = "look" BY DEF runServiceHealthCheck
<1>14. gate'.service = Len(report') + 1 /\ gate'.service <= Len(gated'.services) /\ verdict' = "none"
  BY <1>4, <1>5, <1>13 DEF GateInv, GatePlace, InTurn
<1>15. GatePlace' BY <1>1, <1>4, <1>5, <1>6, <1>8, <1>9, <1>10, <1>12, <1>14 DEF GatePlace, InTurn
<1> QED BY <1>7, <1>15 DEF GateInv

LEMMA SoftenKeeps == ASSUME GateInv, softenFailedAppHealthCheck PROVE GateInv'
<1>1. gate.phase = "soften" /\ gate.phase \in InTurn BY DEF softenFailedAppHealthCheck, InTurn
<1>2. UNCHANGED <<gated, listening, cancelled, verdict>> BY DEF softenFailedAppHealthCheck
<1> DEFINE soft == Now.name = "app" /\ isOneClickAutogenRevision /\ Now.protocol = "http"
                   /\ Dials(effectiveRuntimePort(Now))
           r == Result(IF soft THEN "softened" ELSE "failed", soft)
<1>3. Reported(r) BY DEF softenFailedAppHealthCheck
<1>4. soft \in BOOLEAN OBVIOUS
<1>5. CASE soft
  <2>1. r = Result("softened", TRUE) BY <1>5
  <2>2. Result("softened", TRUE) \in GateRow
    <3>1. gate.port = 0 \/ gate.port \in healthCheckPortCandidates(Now) BY <1>1 DEF GateInv, GatePlace
    <3> QED BY <1>1, <3>1, ResultTyped
  <2>3. RowTrue(Result("softened", TRUE)) BY <1>5 DEF RowTrue, Result, isOneClickAutogenRevision
  <2> QED BY <1>1, <1>2, <1>3, <2>1, <2>2, <2>3, TurnEnds
<1>6. CASE ~soft
  <2>1. r = Result("failed", FALSE) BY <1>6
  <2>2. Result("failed", FALSE) \in GateRow
    <3>1. gate.port = 0 \/ gate.port \in healthCheckPortCandidates(Now) BY <1>1 DEF GateInv, GatePlace
    <3> QED BY <1>1, <3>1, ResultTyped
  <2>3. Now \in GatedService /\ Now.protocol \in {"http", "tcp", "udp"} BY <1>1, GatedNow DEF GatedService
  <2>4. ASSUME ~cancelled, Now.protocol # "udp", NEW p \in {Now.runtime, Now.declared}, p \in steady
        PROVE  FALSE
    <3>0. steady \subseteq Ports BY DEF GateInv, GateTypes, Serving
    <3>1. p \in Ports BY <2>4, <3>0
    <3>1a. p \in Nat /\ p # 0 BY <3>1, GateAssumption
    <3>1b. p > 0 BY <3>1a
    <3>2. PICK i \in healthCheckPortCandidates(Now) : portsToAdd(Now)[i] = p BY <2>3, <3>1b, CandidatePlaces
    <3>3. portsToAdd(Now)[i] \notin steady
      BY <1>1, <2>3, <2>4 DEF GateInv, GatePlace, SteadyKept, GivenUp
    <3> QED BY <2>4, <3>2, <3>3
  <2>5. RowTrue(Result("failed", FALSE)) BY <2>4 DEF RowTrue, Result
  <2> QED BY <1>1, <1>2, <1>3, <2>1, <2>2, <2>5, TurnEnds
<1> QED BY <1>5, <1>6

LEMMA DecideKeeps == ASSUME GateInv, Decide PROVE GateInv'
<1>1. gate' = Idle /\ gate' \in Gate /\ gate'.phase = "idle" BY Turns DEF Decide
<1>2. UNCHANGED <<gated, listening, cancelled, seen, steady, report>> /\ verdict = "none"
      /\ Len(report) = Len(gated.services)
  BY DEF Decide, GateInv, GatePlace
<1>3. verdict' \in {"none", "promotable", "stop_rollout", "rollback_release"}
  BY <1>2 DEF Decide
<1>4. verdict' = "promotable" => \A i \in DOMAIN report : report[i].passed
  BY <1>2 DEF Decide, Failing
<1>5. GateTypes' BY <1>1, <1>2, <1>3 DEF GateInv, GateTypes, Serving, RowTrue
<1>6. GatePlace' BY <1>1, <1>2, <1>4 DEF GatePlace, InTurn
<1> QED BY <1>5, <1>6 DEF GateInv

LEMMA ServicesMove == ASSUME GateInv, ServiceChanges PROVE GateInv'
<1>1. PICK p \in Ports, as \in {"down", "errors", "serves"} :
        listening' = [listening EXCEPT ![p] = as] /\ steady' = steady \ {p}
  BY DEF ServiceChanges
<1>2. UNCHANGED <<gated, candidate, cancelled, gate, seen, report, verdict>> BY DEF ServiceChanges
<1>3. listening' \in [Ports -> {"down", "errors", "serves"}] /\ steady' \subseteq Serving'
  BY <1>1 DEF GateInv, GateTypes, Serving
<1>4. GateTypes' BY <1>2, <1>3 DEF GateInv, GateTypes, RowTrue
<1>5. Now' = Now /\ Probed' = Probed BY <1>2 DEF Now, Probed
<1>6. SteadyProbed => SteadyProbed' BY <1>1, <1>2, <1>5 DEF SteadyProbed
<1>7. SteadyKept => SteadyKept' BY <1>1, <1>2, <1>5 DEF SteadyKept, GivenUp
<1>8. Turn(gate.service)' = Turn(gate.service) BY <1>2 DEF Turn
<1>9. GatePlace' BY <1>2, <1>5, <1>6, <1>7, <1>8 DEF GateInv, GatePlace
<1> QED BY <1>4, <1>9 DEF GateInv

LEMMA ContextKeeps == ASSUME GateInv, ContextEnds PROVE GateInv'
<1>1. UNCHANGED <<gated, listening, candidate, gate, seen, steady, report, verdict>> /\ cancelled' = TRUE
  BY DEF ContextEnds
<1>2. GateTypes' BY <1>1 DEF GateInv, GateTypes, RowTrue, Serving
<1>3. Now' = Now /\ Turn(gate.service)' = Turn(gate.service) BY <1>1 DEF Now, Turn
<1>4. SteadyProbed' /\ SteadyKept' BY <1>1 DEF SteadyProbed, SteadyKept
<1>5. GatePlace' BY <1>1, <1>3, <1>4 DEF GateInv, GatePlace
<1> QED BY <1>2, <1>5 DEF GateInv

(* One answer of a port that is not settled by it. *)
LEMMA CountsOn ==
    ASSUME NEW s \in GatedService, NEW answers \in Seq(BOOLEAN), NEW g \in Gate, NEW ok \in BOOLEAN,
           Counts(g, s, answers), NEW h \in Gate, h.attempt = g.attempt + 1,
           h.good = (IF ok THEN g.good + 1 ELSE 0), h.bad = (IF ok THEN 0 ELSE g.bad + 1),
           h.good < Wanted(s), h.bad < Allowed(s), h.attempt < Wanted(s) + Allowed(s)
    PROVE  Counts(h, s, Append(answers, ok))
<1> DEFINE more == Append(answers, ok)
           n == Len(answers)
<1>1. /\ more \in Seq(BOOLEAN) /\ Len(more) = n + 1 /\ n \in Nat /\ more[n + 1] = ok
      /\ \A i \in DOMAIN answers : i \in DOMAIN more /\ more[i] = answers[i]
      /\ \A i \in DOMAIN more : i = n + 1 \/ i \in DOMAIN answers
  OBVIOUS
<1>2. g.attempt = n /\ g.good <= n /\ g.good \in Nat /\ g.bad \in Nat /\ h.good \in Nat
      /\ Wanted(s) \in Nat /\ Allowed(s) \in Nat /\ Allowed(s) > 0
  BY Thresholds DEF Counts, Gate
<1> HIDE DEF more
<1>3. h.attempt = Len(more) /\ h.good <= Len(more) BY <1>1, <1>2
<1>4. ASSUME NEW i \in DOMAIN more, i > Len(more) - h.good PROVE more[i]
  <2>1. CASE ~ok BY <1>1, <1>2, <1>4, <2>1
  <2>2. CASE ok
    <3>1. i \in Nat /\ h.good = g.good + 1 /\ i > n - g.good BY <1>1, <1>2, <1>4, <2>2
    <3>2. CASE i = n + 1 BY <1>1, <2>2, <3>2
    <3>3. CASE i \in DOMAIN answers
      <4>1. answers[i] BY <3>1, <3>3 DEF Counts
      <4> QED BY <1>1, <3>3, <4>1
    <3> QED BY <1>1, <3>2, <3>3
  <2> QED BY <2>1, <2>2
<1>5. ASSUME \A i \in DOMAIN more : ~more[i] PROVE h.bad = Len(more)
  <2>1. ~ok BY <1>1, <1>5
  <2>2. \A i \in DOMAIN answers : ~answers[i] BY <1>1, <1>5
  <2> QED BY <1>1, <1>2, <2>1, <2>2 DEF Counts
<1>6. ASSUME Len(more) >= Allowed(s) PROVE \E i \in 1..Allowed(s) : more[i]
  <2>1. CASE n >= Allowed(s)
    <3>1. PICK i \in 1..Allowed(s) : answers[i] BY <2>1 DEF Counts
    <3> QED BY <1>1, <1>2, <2>1, <3>1
  <2>2. CASE Allowed(s) = n + 1
    <3>1. PICK i \in DOMAIN more : more[i] BY <1>1, <1>2, <1>5, <2>2
    <3>2. i \in 1..Allowed(s) BY <1>1, <2>2
    <3> QED BY <3>1, <3>2
  <2> QED BY <1>1, <1>2, <1>6, <2>1, <2>2
<1>7. Len(more) < Wanted(s) + Allowed(s) BY <1>1, <1>2
<1>8. Counts(h, s, more) BY <1>3, <1>4, <1>5, <1>6, <1>7 DEF Counts
<1> QED BY <1>8 DEF more

(* The answer that settles it. *)
LEMMA SettledEnough ==
    ASSUME NEW s \in GatedService, NEW answers \in Seq(BOOLEAN), NEW g \in Gate, NEW ok \in BOOLEAN, ok,
           Counts(g, s, answers), g.good + 1 >= Wanted(s)
    PROVE  /\ Append(answers, ok) \in Seq(BOOLEAN)
           /\ Wanted(s) <= Len(Append(answers, ok))
           /\ \A i \in DOMAIN Append(answers, ok) :
                 i > Len(Append(answers, ok)) - Wanted(s) => Append(answers, ok)[i]
           /\ probeService(s, Append(answers, ok))
<1> DEFINE more == Append(answers, ok)
           n == Len(answers)
<1>3. /\ more \in Seq(BOOLEAN) /\ Len(more) = n + 1 /\ more[n + 1] /\ n \in Nat
      /\ \A i \in DOMAIN answers : i \in DOMAIN more /\ more[i] = answers[i]
      /\ \A i \in DOMAIN more : i = n + 1 \/ i \in DOMAIN answers
  <2>1. /\ more \in Seq(BOOLEAN) /\ Len(more) = n + 1 /\ n \in Nat /\ more[n + 1] = ok
        /\ \A i \in DOMAIN answers : i \in DOMAIN more /\ more[i] = answers[i]
        /\ \A i \in DOMAIN more : i = n + 1 \/ i \in DOMAIN answers
    BY ONLY answers \in Seq(BOOLEAN), ok \in BOOLEAN
  <2> HIDE DEF more
  <2> QED BY <2>1
<1> HIDE DEF more
<1>4. g.attempt = n /\ g.good <= n /\ g.good \in Nat /\ g.good + 1 = Wanted(s)
      /\ Wanted(s) \in Nat /\ Wanted(s) > 0 /\ Allowed(s) \in Nat /\ Allowed(s) > 0
      /\ n < Wanted(s) + Allowed(s)
  <2>1. g.attempt = n /\ g.good <= n /\ g.good < Wanted(s) /\ n < Wanted(s) + Allowed(s)
    BY DEF Counts
  <2>2. g.good \in Nat BY DEF Gate
  <2> QED BY <2>1, <2>2, Thresholds
<1>5. Wanted(s) <= Len(more) /\ Len(more) <= Wanted(s) + Allowed(s) /\ Len(more) > 0 BY <1>3, <1>4
<1>6. ASSUME NEW i \in DOMAIN more, i > Len(more) - Wanted(s) PROVE more[i]
  <2>1. CASE i = n + 1 BY <1>3, <2>1
  <2>2. CASE i \in DOMAIN answers
    <3>1. i > n - g.good BY <1>3, <1>4, <1>6, <2>2
    <3>2. answers[i] BY <2>2, <3>1 DEF Counts
    <3> QED BY <1>3, <2>2, <3>2
  <2> QED BY <1>3, <2>1, <2>2
<1>7. ASSUME Len(more) = Wanted(s) + Allowed(s) PROVE \E i \in 1..Allowed(s) : more[i]
  <2>1. n >= Allowed(s) BY <1>3, <1>4, <1>7
  <2>2. PICK i \in 1..Allowed(s) : answers[i] BY <2>1 DEF Counts
  <2> QED BY <1>3, <1>4, <2>1, <2>2
<1>8. probeService(s, more) BY <1>3, <1>5, <1>6, <1>7, BothPass
<1> QED BY <1>3, <1>5, <1>6, <1>8 DEF more

LEMMA PortKeeps == ASSUME GateInv, runServiceHealthCheckOnPort PROVE GateInv'
<1> DEFINE answer == probeServiceOnce(Now, Probed)
           at == healthCheckPortCandidates(Now)
<1>1. gate.phase = "probe" /\ gate.phase \in InTurn BY DEF runServiceHealthCheckOnPort, InTurn
<1>2. UNCHANGED <<gated, listening, candidate, cancelled, verdict>> BY DEF runServiceHealthCheckOnPort
<1>3. /\ gate \in Gate /\ seen \in Seq(BOOLEAN) /\ gate.port \in at
      /\ Counts(gate, Now, seen) /\ SteadyProbed /\ SteadyKept
  BY <1>1 DEF GateInv, GateTypes, GatePlace
<1>4. /\ Now \in GatedService /\ Len(report) \in Nat /\ verdict = "none"
      /\ gate.service = Len(report) + 1 /\ gate.service <= Len(gated.services)
  BY <1>1, GatedNow DEF GateInv, GatePlace
<1>5. PICK ok \in BOOLEAN : ok = answer BY Answered
<1>6. PICK h : h = Counted(ok) OBVIOUS
<1>7. /\ h \in Gate /\ h.phase = "probe" /\ h.service = gate.service /\ h.port = gate.port
      /\ h.attempt = gate.attempt + 1
      /\ h.good = (IF ok THEN gate.good + 1 ELSE 0) /\ h.bad = (IF ok THEN 0 ELSE gate.bad + 1)
  <2>1. gate \in Gate /\ gate.phase = "probe" BY <1>1, <1>3
  <2>2. CASE ok
    <3>0. PICK a \in Nat, m \in Nat, k \in Nat : a = gate.attempt + 1 /\ m = gate.good + 1 /\ k = 0
      BY <2>1 DEF Gate
    <3>1. h = [gate EXCEPT !.attempt = a, !.good = m, !.bad = k]
      BY <1>6, <2>2, <3>0 DEF Counted
    <3>2. /\ h \in Gate /\ h.phase = "probe" /\ h.service = gate.service /\ h.port = gate.port
          /\ h.attempt = a /\ h.good = m /\ h.bad = k
      BY <2>1, <3>1 DEF Gate
    <3> QED BY <2>2, <3>0, <3>2
  <2>3. CASE ~ok
    <3>0. PICK a \in Nat, m \in Nat, k \in Nat : a = gate.attempt + 1 /\ m = 0 /\ k = gate.bad + 1
      BY <2>1 DEF Gate
    <3>1. h = [gate EXCEPT !.attempt = a, !.good = m, !.bad = k]
      BY <1>6, <2>3, <3>0 DEF Counted
    <3>2. /\ h \in Gate /\ h.phase = "probe" /\ h.service = gate.service /\ h.port = gate.port
          /\ h.attempt = a /\ h.good = m /\ h.bad = k
      BY <2>1, <3>1 DEF Gate
    <3> QED BY <2>3, <3>0, <3>2
  <2> QED BY <2>2, <2>3
<1>8. SuccessThreshold = Wanted(Now) /\ FailureThreshold = Allowed(Now)
      /\ maxAttempts = Wanted(Now) + Allowed(Now)
  BY DEF SuccessThreshold, FailureThreshold, maxAttempts, Wanted, Allowed
<1> DEFINE settled == ok /\ h.good >= Wanted(Now)
           over == h.bad >= Allowed(Now) \/ h.attempt >= Wanted(Now) + Allowed(Now) \/ cancelled
<1>9. IF settled
      THEN Reported([Result("probed", TRUE) EXCEPT !.answers = Append(seen, ok)])
      ELSE /\ gate' = IF over THEN NextPort ELSE h
           /\ seen' = IF over THEN <<>> ELSE Append(seen, ok)
           /\ UNCHANGED <<report, steady>>
  BY <1>5, <1>6, <1>8 DEF runServiceHealthCheckOnPort
<1>10. CASE settled
  <2> DEFINE r == [Result("probed", TRUE) EXCEPT !.answers = Append(seen, ok)]
  <2>1. Result("probed", TRUE) \in GateRow BY <1>1, <1>3, ResultTyped
  <2>2. gate.good + 1 >= Wanted(Now) BY <1>7, <1>10
  <2>3. /\ Append(seen, ok) \in Seq(BOOLEAN) /\ Wanted(Now) <= Len(Append(seen, ok))
        /\ \A i \in DOMAIN Append(seen, ok) :
              i > Len(Append(seen, ok)) - Wanted(Now) => Append(seen, ok)[i]
        /\ probeService(Now, Append(seen, ok))
    BY <1>3, <1>4, <1>10, <2>2, SettledEnough
  <2>4. PICK more \in Seq(BOOLEAN) : more = Append(seen, ok) BY <2>3
  <2>5. r \in GateRow BY <2>1, <2>4 DEF GateRow
  <2>6. r.how = "probed" /\ r.passed = TRUE /\ r.wanted = Now /\ r.answers = more
    BY <2>4 DEF Result
  <2>7. Enough(r)
    <3>1. Wanted(Now) \in Nat /\ Wanted(Now) > 0 BY <1>4, Thresholds
    <3>2. Len(more) \in Nat /\ DOMAIN more = 1..Len(more) BY <2>4
    <3>3. ASSUME NEW i \in (Len(more) - Wanted(Now) + 1)..Len(more) PROVE more[i]
      <4>1. i \in DOMAIN more /\ i > Len(more) - Wanted(Now) BY <2>3, <2>4, <3>1, <3>2
      <4> QED BY <2>3, <2>4, <4>1
    <3> QED BY <2>3, <2>4, <2>6, <3>3 DEF Enough, Wanted
  <2>8. RowTrue(r)
    <3>1. probeService(r.wanted, r.answers) BY <2>3, <2>4, <2>6
    <3> HIDE DEF r
    <3> QED BY <2>6, <2>7, <3>1 DEF RowTrue
  <2>9. Reported(r) BY <1>9, <1>10
  <2> HIDE DEF r
  <2> QED BY <1>1, <1>2, <2>5, <2>8, <2>9, TurnEnds
<1>11. CASE ~settled /\ over
  <2>1. gate' = NextPort /\ seen' = <<>> /\ UNCHANGED <<report, steady>> BY <1>9, <1>11
  <2> DEFINE later == {i \in at : i > gate.port}
             next == CHOOSE i \in later : \A j \in later : i <= j
  <2>2. at \in SUBSET Nat BY <1>4, CandidatePlaces
  <2>3. gate' = IF later = {} THEN [gate EXCEPT !.phase = "soften"]
                ELSE [gate EXCEPT !.port = next, !.attempt = 0, !.good = 0, !.bad = 0]
    BY <2>1 DEF NextPort
  <2>4. later # {} => next \in later /\ \A j \in later : next <= j
    <3>1. later \in SUBSET Nat BY <2>2
    <3> HIDE DEF later
    <3>2. SUFFICES ASSUME later # {} PROVE next \in later /\ \A j \in later : next <= j OBVIOUS
    <3>3. \E n \in later : \A m \in later : n <= m BY <3>1, <3>2, LeastNat
    <3> QED BY <3>3
  <2> HIDE DEF next
  <2>5. /\ gate' \in Gate /\ gate'.service = gate.service /\ gate'.port \in at
        /\ later = {} => gate'.phase = "soften"
        /\ later # {} => gate'.phase = "probe" /\ gate'.port = next
              /\ gate'.attempt = 0 /\ gate'.good = 0 /\ gate'.bad = 0
    <3>1. later \subseteq at OBVIOUS
    <3>2. CASE later = {}
      BY <1>3, <2>3, <3>2 DEF Gate, Phases
    <3>3. CASE later # {}
      <4>1. next \in Nat /\ next \in at BY <2>2, <2>4, <3>1, <3>3
      <4> HIDE DEF at, later
      <4> QED BY <1>1, <1>3, <2>3, <3>3, <4>1 DEF Gate, Phases
    <3> QED BY <3>2, <3>3
  <2>6. Now' = Now BY <1>2, <2>5 DEF Now
  <2>7. GateTypes'
    <3>1. <<>> \in Seq(BOOLEAN) OBVIOUS
    <3>2. \A r : RowTrue(r)' = RowTrue(r) BY <1>2 DEF RowTrue
    <3> QED BY <1>2, <2>1, <2>5, <3>1, <3>2 DEF GateInv, GateTypes, Serving
  <2>8. gate'.phase = "probe" => Counts(gate', Now, seen') /\ SteadyProbed'
    BY <1>4, <2>1, <2>5, <2>6, Thresholds DEF Counts, SteadyProbed
\* a port that served all the time would not have been given up
  <2>9. ASSUME ~cancelled, Now.protocol \in {"http", "tcp"} PROVE Probed \notin steady
    <3>1. SUFFICES ASSUME Probed \in steady PROVE FALSE OBVIOUS
    <3>2. gate.bad = 0 /\ gate.good = gate.attempt BY <1>3, <2>9, <3>1 DEF SteadyProbed
    <3>3. ok
      <4>1. Probed \in Ports /\ listening[Probed] = "serves" BY <3>1 DEF GateInv, GateTypes, Serving
      <4> QED BY <1>5, <2>9, <4>1 DEF probeServiceOnce, Dials
    <3>4. Wanted(Now) \in Nat /\ Allowed(Now) \in Nat /\ Allowed(Now) > 0
          /\ gate.good \in Nat /\ gate.good < Wanted(Now)
      BY <1>3, <1>4, Thresholds DEF Counts, Gate
    <3> QED BY <1>7, <1>11, <2>9, <3>2, <3>3, <3>4
  <2>10. SteadyKept'
    <3>1. SUFFICES ASSUME ~cancelled, Now.protocol \in {"http", "tcp"},
                          NEW i \in at, GivenUp(i)'
                   PROVE  portsToAdd(Now)[i] \notin steady
      BY <1>2, <2>1, <2>6 DEF SteadyKept
    <3>2. i \in Nat /\ gate.port \in Nat BY <1>3, <2>2
    <3>3. ~(i > gate.port)
      <4>1. SUFFICES ASSUME i > gate.port PROVE FALSE OBVIOUS
      <4>2. i \in later BY <4>1
      <4>3. gate'.phase = "probe" /\ gate'.port = next /\ next \in later /\ next <= i BY <2>4, <2>5, <4>2
      <4>4. i < next BY <3>1, <4>3 DEF GivenUp
      <4>5. next \in Nat BY <2>2, <4>3
      <4> QED BY ONLY <3>2, <4>3, <4>4, <4>5
    <3>4. CASE i = gate.port BY <2>9, <3>1, <3>4 DEF Probed
    <3>5. CASE i < gate.port BY <1>3, <3>1, <3>5 DEF SteadyKept, GivenUp
    <3> QED BY ONLY <3>2, <3>3, <3>4, <3>5
  <2>11. gate'.phase \in {"probe", "soften"} BY <2>5
  <2>12. GatePlace'
    BY <1>2, <1>4, <2>1, <2>5, <2>6, <2>8, <2>10, <2>11 DEF GatePlace, InTurn
  <2> QED BY <2>7, <2>12 DEF GateInv
<1>12. CASE ~settled /\ ~over
  <2>1. gate' = h /\ seen' = Append(seen, ok) /\ UNCHANGED <<report, steady>> BY <1>9, <1>12
  <2>2. Wanted(Now) \in Nat /\ Wanted(Now) > 0 /\ Allowed(Now) \in Nat BY <1>4, Thresholds
  <2>3. h.good \in Nat /\ h.bad \in Nat /\ h.attempt \in Nat BY <1>7 DEF Gate
  <2>4. h.good < Wanted(Now) /\ h.bad < Allowed(Now) /\ h.attempt < Wanted(Now) + Allowed(Now)
    BY <1>7, <1>12, <2>2, <2>3
  <2>5. Counts(h, Now, Append(seen, ok)) BY <1>3, <1>4, <1>7, <2>4, CountsOn
  <2>6. Append(seen, ok) \in Seq(BOOLEAN) BY <1>3
  <2>7. Now' = Now /\ Probed' = Probed BY <1>2, <1>7, <2>1 DEF Now, Probed
  <2>8. GateTypes'
    <3>1. \A r : RowTrue(r)' = RowTrue(r) BY <1>2 DEF RowTrue
    <3> QED BY <1>2, <1>7, <2>1, <2>6, <3>1 DEF GateInv, GateTypes, Serving
  <2>9. SteadyProbed'
    <3>1. SUFFICES ASSUME Probed \in steady, ~cancelled, Now.protocol \in {"http", "tcp"}
                   PROVE  h.bad = 0 /\ h.good = h.attempt
      BY <1>2, <2>1, <2>7 DEF SteadyProbed
    <3>2. gate.good = gate.attempt BY <1>3, <3>1 DEF SteadyProbed
    <3>3. ok
      <4>1. Probed \in Ports /\ listening[Probed] = "serves" BY <3>1 DEF GateInv, GateTypes, Serving
      <4> QED BY <1>5, <3>1, <4>1 DEF probeServiceOnce, Dials
    <3> QED BY <1>7, <3>2, <3>3
  <2>10. SteadyKept' BY <1>1, <1>2, <1>3, <1>7, <2>1, <2>7 DEF SteadyKept, GivenUp
  <2>11. GatePlace'
    BY <1>2, <1>3, <1>4, <1>7, <2>1, <2>5, <2>7, <2>9, <2>10 DEF GatePlace, InTurn
  <2> QED BY <2>8, <2>11 DEF GateInv
<1> HIDE DEF settled, over
<1> QED BY <1>10, <1>11, <1>12

LEMMA GateInvNext == GateInv /\ [GateNext]_gateVars => GateInv'
<1>1. SUFFICES ASSUME GateInv, [GateNext]_gateVars PROVE GateInv' OBVIOUS
<1>2. CASE UNCHANGED gateVars
  BY <1>1, <1>2 DEF gateVars, GateInv, GateTypes, GatePlace, Serving, RowTrue, Now, Turn, SteadyProbed,
     SteadyKept, GivenUp, Probed
<1>3. CASE GateNext
  BY <1>1, <1>3, GateStarts, GraceKeeps, SkipKeeps, ProbesStart, PortKeeps, SoftenKeeps, DecideKeeps,
     ServicesMove, ContextKeeps DEF GateNext
<1> QED BY <1>1, <1>2, <1>3

LEMMA GateInvVerdicts == GateInv => GateVerdicts
<1>1. SUFFICES ASSUME GateInv PROVE GateVerdicts OBVIOUS
<1>2. \A i \in DOMAIN report : RowTrue(report[i]) BY <1>1 DEF GateInv, GateTypes
<1>3. GateIsTruthful BY <1>1, <1>2 DEF GateIsTruthful, RowTrue, GateInv, GatePlace
<1>4. GatesAgree BY <1>2 DEF GatesAgree, RowTrue
<1> QED BY <1>3, <1>4 DEF GateVerdicts

(* A service passes a gate only on enough good answers in a row or by the  *)
(* rule that waves it through, one that served throughout its turn is not  *)
(* failed, and the backend's evaluator passes what the agent passes        *)
(* (health_gate.go, RunHealthGate; health_gate_evaluator.go, probeService).*)
THEOREM GateEarned == GateSpec => []GateVerdicts
<1>1. GateInit => GateInv BY GateInvInit
<1>2. GateInv /\ [GateNext]_gateVars => GateInv' BY GateInvNext
<1>3. GateInv => GateVerdicts BY GateInvVerdicts
<1> QED BY <1>1, <1>2, <1>3, PTL DEF GateSpec

==============================================================================
