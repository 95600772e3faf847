------------------------- MODULE MCRolloutExecution -------------------------
(* Instances of RolloutExecution: which deployment each StartDeployment     *)
(* call is about.                                                           *)
EXTENDS RolloutExecution, TLC

CONSTANTS s1, s2, s3

(* One call for each of up to three deployments. *)
OneCallEach == [s \in Starters |-> CASE s = s1 -> 1 [] s = s2 -> 2 [] s = s3 -> 3]

(* All calls are for the same deployment. *)
SameDeployment == [s \in Starters |-> 1]

(* Calls for the same deployment, and recoveries, are interchangeable. *)
Symmetry == Permutations(Starters) \cup Permutations(Recoverers)

=============================================================================
