----------------------------- MODULE MCSession -----------------------------
(* The sessions and enrolment of an agent, and the operators' event hub: a    *)
(* behaviour exercises one part; the others stay where they start.            *)
EXTENDS AgentSession, Enrollment, OperatorHub

VARIABLE part
mcVars == <<part, sessionVars, enrollVars, hubVars>>

MCInit == part \in {"session", "enrollment", "hub"} /\ SessionInit /\ EnrollInit /\ HubInit

Session   == part = "session" /\ SessionNext /\ UNCHANGED <<enrollVars, hubVars>>
Enrolling == part = "enrollment" /\ EnrollNext /\ UNCHANGED <<sessionVars, hubVars>>
Operators == part = "hub" /\ HubNext /\ UNCHANGED <<sessionVars, enrollVars>>

MCNext == (Session \/ Enrolling \/ Operators) /\ UNCHANGED part
MCSpec == MCInit /\ [][MCNext]_mcVars /\ SessionFairness
=============================================================================
