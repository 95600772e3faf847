----------------------------- MODULE HealthGate -----------------------------
(***************************************************************************)
(* The health gate of a standalone candidate: after a grace period the     *)
(* agent probes the services one after the other, each at one port after   *)
(* the other, and moves the candidate by what they answered                *)
(* (agent/internal/runtime/health_gate.go).  The backend's own evaluator   *)
(* (service/health_gate_evaluator.go) judges the same service by counting  *)
(* answers in another way.                                                 *)
(*                                                                         *)
(* The services come up, go down and answer errors while they are probed;  *)
(* the agent may be stopped at any moment.                                 *)
(***************************************************************************)
EXTENDS Integers, Sequences, FiniteSets

CONSTANTS GatedReleases,  \* [services : Seq(service), autogen : BOOLEAN, stable : BOOLEAN]
          Ports,          \* the ports that are looked at
          MaxChanges,     \* how often what listens on a port changes
          MaxGates        \* how often the gate is run on the candidate

DefaultPorts == [postgres |-> 5432, mysql |-> 3306, mongodb |-> 27017, redis |-> 6379,
                 rabbitmq |-> 5672, kafka |-> 9092, eureka |-> 8761, app |-> 8080]

GatedService == [name : STRING, kind : DOMAIN DefaultPorts,
                 protocol : {"http", "tcp", "udp"},  \* "udp" is any the agent cannot probe
                 runtime : Nat, declared : Nat, successes : Nat, failures : Nat]

ASSUME GateAssumption ==
    /\ GatedReleases \subseteq [services : Seq(GatedService), autogen : BOOLEAN, stable : BOOLEAN]
    /\ Ports \subseteq Nat \ {0}

VARIABLES gated,      \* the release
          listening,  \* port -> "down" | "errors" (accepts, answers errors) | "serves"
          candidate,  \* [state, incident]: its state and the key of its last incident
          cancelled,  \* the context of the command is done
          gate,       \* where the gate is: [phase, service, port, attempt, good, bad]
          seen,       \* history: the answers of the port that is being probed
          steady,     \* history: the ports that served since the service's turn began
          report,     \* the services' results so far
          verdict,    \* "none" | "promotable" | "stop_rollout" | "rollback_release"
          runs, changes

gateVars == <<gated, listening, candidate, cancelled, gate, seen, steady, report, verdict, runs, changes>>

-----------------------------------------------------------------------------
(* Ports: 0 is not set. *)

isInternalServiceName(s) == s.name = "internal"

declaredHealthcheckPort(s) == s.declared

effectiveRuntimePort(s) ==
    IF s.runtime > 0 THEN s.runtime
    ELSE IF s.declared > 0 THEN s.declared ELSE DefaultPorts[s.kind]

portsToAdd(s) ==
    IF s.name = "app" /\ s.protocol = "http"
    THEN <<effectiveRuntimePort(s), declaredHealthcheckPort(s), 3000, 5000>>
    ELSE <<effectiveRuntimePort(s), declaredHealthcheckPort(s)>>

(* The places of the ports that are probed, in this order: a port that is  *)
(* not set or was added before is left out.                                *)
healthCheckPortCandidates(s) ==
    {i \in DOMAIN portsToAdd(s) :
        portsToAdd(s)[i] > 0 /\ \A j \in 1..(i - 1) : portsToAdd(s)[j] # portsToAdd(s)[i]}

isOneClickAutogenRevision == gated.autogen

Dials(port) == listening[port] # "down"

(* Any other protocol fails; a done context fails the request. *)
probeServiceOnce(s, port) ==
    /\ ~cancelled
    /\ \/ s.protocol = "http" /\ listening[port] = "serves"
       \/ s.protocol = "tcp" /\ Dials(port)

-----------------------------------------------------------------------------
(* The backend's evaluator: as many attempts as can decide, and successes  *)
(* and failures are added up whatever their order.                         *)

buildProbeConfig(s) ==
    [successes |-> IF s.successes > 0 THEN s.successes ELSE 1,
     failures  |-> IF s.failures > 0 THEN s.failures ELSE 3,
     port      |-> IF s.declared > 0 THEN s.declared ELSE 8080]

probeService(s, answers) ==
    LET cfg == buildProbeConfig(s)
        Good(i) == Cardinality({j \in 1..i : answers[j]})
    IN  \E i \in 1..Len(answers) :
            /\ i < cfg.successes + cfg.failures
            /\ Good(i) >= cfg.successes
            /\ \A j \in 1..i : j - Good(j) < cfg.failures

-----------------------------------------------------------------------------
(* The gate. *)

Idle == [phase |-> "idle", service |-> 0, port |-> 0, attempt |-> 0, good |-> 0, bad |-> 0]
Now == gated.services[gate.service]
Probed == portsToAdd(Now)[gate.port]

Turn(i) == [Idle EXCEPT !.phase = IF i > Len(gated.services) THEN "decide" ELSE "look", !.service = i]
Serving == {p \in Ports : listening[p] = "serves"}

Result(how, passed) ==
    [name |-> Now.name, how |-> how, passed |-> passed, answers |-> seen, steady |-> steady,
     port |-> IF gate.port = 0 THEN 0 ELSE Probed, wanted |-> Now, cancelled |-> cancelled]

Reported(result) ==
    /\ report' = Append(report, result)
    /\ gate' = Turn(gate.service + 1)
    /\ seen' = <<>> /\ steady' = Serving

(* The grace period: it ends, or the context does.  A candidate the        *)
(* workspace has no record of is an error at once.                         *)
RunHealthGate ==
    /\ gate.phase = "idle" /\ runs < MaxGates /\ ~cancelled
    /\ gate' = [Idle EXCEPT !.phase = "grace"]
    /\ report' = <<>> /\ verdict' = "none" /\ runs' = runs + 1
    /\ UNCHANGED <<gated, listening, candidate, cancelled, seen, steady, changes>>

GraceEnds ==
    /\ gate.phase = "grace"
    /\ gate' = IF cancelled THEN Idle ELSE Turn(1)
    /\ seen' = <<>> /\ steady' = Serving
    /\ UNCHANGED <<gated, listening, candidate, cancelled, report, verdict, runs, changes>>

(* The app of a one-click release that nobody listens for is not waited    *)
(* for.                                                                    *)
shouldSkipServiceHealthCheck ==
    /\ Now.name = "app" /\ isOneClickAutogenRevision
    /\ ~Dials(effectiveRuntimePort(Now))

SkipService ==
    /\ gate.phase = "look"
    /\ \/ isInternalServiceName(Now) /\ Reported(Result("internal", TRUE))
       \/ shouldSkipServiceHealthCheck /\ Reported(Result("skipped", TRUE))
    /\ UNCHANGED <<gated, listening, candidate, cancelled, verdict, runs, changes>>

runServiceHealthCheck ==
    /\ gate.phase = "look" /\ ~isInternalServiceName(Now) /\ ~shouldSkipServiceHealthCheck
    /\ gate' = [gate EXCEPT !.phase = "probe", !.port = 1]
    /\ UNCHANGED <<gated, listening, candidate, cancelled, seen, steady, report, verdict, runs, changes>>

SuccessThreshold == IF Now.successes > 0 THEN Now.successes ELSE 1
FailureThreshold == IF Now.failures > 0 THEN Now.failures ELSE 3

maxAttempts == SuccessThreshold + FailureThreshold

(* Slip: a failure does not end the run of successes. *)
CountedForever(ok) ==
    [gate EXCEPT !.attempt = @ + 1, !.good = IF ok THEN @ + 1 ELSE @, !.bad = IF ok THEN 0 ELSE @ + 1]

Counted(ok) ==
    [gate EXCEPT !.attempt = @ + 1, !.good = IF ok THEN @ + 1 ELSE 0, !.bad = IF ok THEN 0 ELSE @ + 1]

NextPort ==
    LET later == {i \in healthCheckPortCandidates(Now) : i > gate.port}
    IN  IF later = {} THEN [gate EXCEPT !.phase = "soften"]
        ELSE [gate EXCEPT !.port = CHOOSE i \in later : \A j \in later : i <= j,
                          !.attempt = 0, !.good = 0, !.bad = 0]

(* One attempt at one port: enough answers in a row settle the port, the   *)
(* last attempt and a context that is done before the next one fail it.    *)
runServiceHealthCheckOnPort ==
    /\ gate.phase = "probe"
    /\ LET ok == probeServiceOnce(Now, Probed)
           counted == Counted(ok)
       IN  IF ok /\ counted.good >= SuccessThreshold
           THEN Reported([Result("probed", TRUE) EXCEPT !.answers = Append(seen, ok)])
           ELSE LET over == counted.bad >= FailureThreshold \/ counted.attempt >= maxAttempts \/ cancelled
                IN  /\ gate' = IF over THEN NextPort ELSE counted
                    /\ seen' = IF over THEN <<>> ELSE Append(seen, ok)
                    /\ UNCHANGED <<report, steady>>
    /\ UNCHANGED <<gated, listening, candidate, cancelled, verdict, runs, changes>>

(* The app of a one-click release may answer errors as long as it listens. *)
softenFailedAppHealthCheck ==
    /\ gate.phase = "soften"
    /\ LET soft == /\ Now.name = "app" /\ isOneClickAutogenRevision /\ Now.protocol = "http"
                   /\ Dials(effectiveRuntimePort(Now))
       IN  Reported(Result(IF soft THEN "softened" ELSE "failed", soft))
    /\ UNCHANGED <<gated, listening, candidate, cancelled, verdict, runs, changes>>

Failing == {i \in DOMAIN report : ~report[i].passed}

(* The key of an incident: what is done about it and which services fail. *)
healthIncidentKey(action) == <<action, {report[i].name : i \in Failing}>>

Decide ==
    /\ gate.phase = "decide"
    /\ gate' = Idle
    /\ IF Failing = {}
       THEN IF candidate.state = "failed" THEN UNCHANGED <<candidate, verdict>>
            ELSE candidate' = [candidate EXCEPT !.state = "promotable"] /\ verdict' = "promotable"
       ELSE LET action == IF gated.stable THEN "rollback_release" ELSE "stop_rollout"
            IN  /\ candidate' = [state |-> "failed", incident |-> healthIncidentKey(action)]
                /\ verdict' = action
    /\ UNCHANGED <<gated, listening, cancelled, seen, steady, report, runs, changes>>

-----------------------------------------------------------------------------
(* The services, and the end of the agent's context. *)

ServiceChanges ==
    /\ changes < MaxChanges /\ gate.phase \notin {"idle", "decide"}
    /\ \E p \in Ports, as \in {"down", "errors", "serves"} :
         /\ listening[p] # as
         /\ listening' = [listening EXCEPT ![p] = as]
         /\ steady' = steady \ {p}
    /\ changes' = changes + 1
    /\ UNCHANGED <<gated, candidate, cancelled, gate, seen, report, verdict, runs>>

ContextEnds ==
    /\ ~cancelled /\ gate.phase \in {"grace", "look", "probe"} /\ changes < MaxChanges
    /\ cancelled' = TRUE /\ changes' = changes + 1
    /\ UNCHANGED <<gated, listening, candidate, gate, seen, steady, report, verdict, runs>>

GateInit ==
    /\ gated \in GatedReleases
    /\ listening \in [Ports -> {"down", "errors", "serves"}]
    /\ candidate = [state |-> "starting", incident |-> <<>>]
    /\ cancelled = FALSE /\ gate = Idle /\ seen = <<>> /\ steady = {}
    /\ report = <<>> /\ verdict = "none" /\ runs = 0 /\ changes = 0

GateNext ==
    \/ RunHealthGate \/ GraceEnds \/ SkipService \/ runServiceHealthCheck
    \/ runServiceHealthCheckOnPort \/ softenFailedAppHealthCheck \/ Decide
    \/ ServiceChanges \/ ContextEnds

GateSpec == GateInit /\ [][GateNext]_gateVars

-----------------------------------------------------------------------------
(* A service passes only for what it answered: the last answers of one     *)
(* port, as many as asked for, were all good, or it is of the kind that is *)
(* waved through.  And a service that served without a break from its turn *)
(* on, at a port it declares or was given, is passed unless the agent is   *)
(* being stopped, so that the candidate does not fail for it.              *)
Enough(r) ==
    LET n == Len(r.answers)
        k == IF r.wanted.successes > 0 THEN r.wanted.successes ELSE 1
    IN  n >= k /\ \A i \in (n - k + 1)..n : r.answers[i]
GateIsTruthful ==
    /\ \A i \in DOMAIN report : LET r == report[i] IN
         /\ r.how = "probed" => Enough(r)
         /\ r.how \in {"skipped", "softened"} => gated.autogen /\ r.name = "app"
         /\ ~r.passed /\ ~r.cancelled /\ r.wanted.protocol # "udp"
                => {r.wanted.runtime, r.wanted.declared} \cap r.steady = {}
    /\ verdict = "promotable" =>
         Len(report) = Len(gated.services) /\ \A i \in DOMAIN report : report[i].passed

(* The two health gates of the repository agree on what is healthy: a      *)
(* service the agent passes on some answers is passed by the backend's     *)
(* evaluator on the same answers, although the one counts successes in a   *)
(* row and the other adds them up and stops earlier.                       *)
GatesAgree ==
    \A i \in DOMAIN report :
        report[i].how = "probed" => probeService(report[i].wanted, report[i].answers)

(* The verdict on a candidate is earned, and by the rules both gates have. *)
GateVerdicts == GateIsTruthful /\ GatesAgree

=============================================================================
