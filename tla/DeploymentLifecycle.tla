------------------------- MODULE DeploymentLifecycle -------------------------
(***************************************************************************)
(* What the rollout of a project's deployments promises when the rollouts  *)
(* come one after the other and commands are not lost: a deployment waits, *)
(* is worked on by one rollout, and ends live, failed or rolled back, in   *)
(* one piece; traffic moves only on behalf of the one that is worked on,   *)
(* to it or to one that is live; it goes live only while it is served, and *)
(* is rolled back only to one that is live.  RolloutExecution implements   *)
(* this with some twenty database accesses and commands per rollout.       *)
(***************************************************************************)
CONSTANTS Deployments, Nobody

VARIABLES phase,   \* deployment -> where it is in its life
          serving  \* the deployment the traffic goes to

lifeVars == <<phase, serving>>

Live == {d \in Deployments : phase[d] = "live"}
Becomes(d, p) == phase' = [phase EXCEPT ![d] = p]

LifeInit ==
    /\ phase = [d \in Deployments |-> "absent"]
    /\ serving = Nobody

Created(d) == phase[d] = "absent" /\ Becomes(d, "waiting") /\ UNCHANGED serving

TakenUp(d) ==
    /\ phase[d] = "waiting" /\ \A e \in Deployments : phase[e] # "working"
    /\ Becomes(d, "working") /\ UNCHANGED serving

TrafficMoves(d) ==
    /\ phase[d] = "working" /\ serving' \in Live \cup {d}
    /\ UNCHANGED phase

GoesLive(d) == phase[d] = "working" /\ serving = d /\ Becomes(d, "live") /\ UNCHANGED serving

Fails(d) == phase[d] = "working" /\ Becomes(d, "failed") /\ UNCHANGED serving

IsRolledBack(d) ==
    /\ phase[d] = "working" /\ serving \in Live
    /\ Becomes(d, "back") /\ UNCHANGED serving

LifeNext == \E d \in Deployments :
    Created(d) \/ TakenUp(d) \/ TrafficMoves(d) \/ GoesLive(d) \/ Fails(d) \/ IsRolledBack(d)

LifeSpec == LifeInit /\ [][LifeNext]_lifeVars
=============================================================================
