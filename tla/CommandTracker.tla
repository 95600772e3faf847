--------------------------- MODULE CommandTracker ---------------------------
(***************************************************************************)
(* The backend's table of commands sent to agents                          *)
(* (backend/internal/service/command_tracker.go), the controller handlers  *)
(* that feed agent answers into it                                         *)
(* (backend/internal/api/v1/controller/agent_control_controller.go) and    *)
(* the goroutine that dispatched a command and waits for its result.       *)
(*                                                                         *)
(* A request id is fresh for every dispatch (utils.NewPrefixedID), so each *)
(* request has at most one waiter and is registered at most once; the      *)
(* waiter of request r is therefore identified with r.  Every step that    *)
(* takes the tracker's mutex is one action, and WaitForResult is cut where *)
(* it releases it: between the select, the cancellation and the final Get. *)
(***************************************************************************)
CONSTANT Requests  \* request ids

VARIABLES
    tracked,  \* requests with an entry in t.commands and t.ready
    state,    \* state[r]: TrackedCommand.State of the entry
    closed,   \* closed[r]: the channel made for r has been closed
    pc,       \* pc[r]: where the goroutine that dispatched r is
    result,   \* result[r]: what WaitForResult returned to it
    verdicts, \* history: the final answers handled so far for r
    overtaken \* history: requests with a progress answer handled after a
              \* final one

vars == <<tracked, state, closed, pc, result, verdicts, overtaken>>
answers == <<verdicts, overtaken>>

Verdict == {"done", "failed"}

CommandState == {"pending", "running", "cancelled"} \cup Verdict

PCs == {"new", "dispatched", "select", "ready", "cancel", "expired"} \cup
       {"answered", "timed_out", "untracked"}

(* Every variable stays in its range. *)
TypeOK ==
    /\ tracked \subseteq Requests
    /\ state \in [Requests -> CommandState]
    /\ closed \in [Requests -> BOOLEAN]
    /\ pc \in [Requests -> PCs]
    /\ result \in [Requests -> CommandState \cup {"none", "error"}]
    /\ verdicts \in [Requests -> SUBSET Verdict]
    /\ overtaken \subseteq Requests

Init ==
    /\ tracked = {}
    /\ state = [r \in Requests |-> "pending"]
    /\ closed = [r \in Requests |-> FALSE]
    /\ pc = [r \in Requests |-> "new"]
    /\ result = [r \in Requests |-> "none"]
    /\ verdicts = [r \in Requests |-> {}]
    /\ overtaken = {}

-----------------------------------------------------------------------------
(* DispatchCommand enters the command in the table before it sends it. *)
Register(r) ==
    /\ pc[r] = "new"
    /\ tracked' = tracked \cup {r}
    /\ state' = [state EXCEPT ![r] = "pending"]
    /\ pc' = [pc EXCEPT ![r] = "dispatched"]
    /\ UNCHANGED <<closed, result, answers>>

(* Slip: the final-state test forgets failed. *)
UpdateStateDoneOnly(r, s) ==
    /\ state' = IF r \in tracked THEN [state EXCEPT ![r] = s] ELSE state
    /\ closed' = [closed EXCEPT ![r] = @ \/ (r \in tracked /\ s = "done")]

(* UpdateState on an entry: the state is overwritten whatever it was, and  *)
(* the channel is closed, once, by a final state.  An unknown request is   *)
(* an error that changes nothing.                                          *)
UpdateState(r, s) ==
    /\ state' = IF r \in tracked THEN [state EXCEPT ![r] = s] ELSE state
    /\ closed' = [closed EXCEPT ![r] = @ \/ (r \in tracked /\ s \in Verdict)]

(* An answer of the agent reaches its handler.  An agent that reconnected  *)
(* answers over two connections, so answers may overtake one another.      *)
Answer(r, s) ==
    /\ r \in tracked
    /\ UpdateState(r, s)
    /\ verdicts' = [verdicts EXCEPT ![r] = @ \cup ({s} \cap Verdict)]
    /\ overtaken' = IF s \notin Verdict /\ verdicts[r] # {}
                    THEN overtaken \cup {r} ELSE overtaken
    /\ UNCHANGED <<tracked, pc, result>>

(* Status done is final; accepted, or anything else, means running. *)
handleCommandAck(r) == \E s \in {"done", "running"} : Answer(r, s)

handleCommandNack(r) == Answer(r, "failed")

handleCommandError(r) == Answer(r, "failed")

(* A command_response carries a state of its own; an empty one means done. *)
handleCommandResponse(r) == \E s \in CommandState : Answer(r, s)

-----------------------------------------------------------------------------
Return(r, how, s) ==
    /\ pc' = [pc EXCEPT ![r] = how]
    /\ result' = [result EXCEPT ![r] = s]
    /\ UNCHANGED <<tracked, state, closed, answers>>

Goto(r, l) ==
    /\ pc' = [pc EXCEPT ![r] = l]
    /\ UNCHANGED <<tracked, state, closed, result, answers>>

(* WaitForResult: an untracked request is an error at once. *)
WaitForResult(r) ==
    /\ pc[r] = "dispatched"
    /\ IF r \in tracked THEN Goto(r, "select") ELSE Return(r, "untracked", "error")

WaitReady(r) ==
    /\ pc[r] = "select"
    /\ closed[r]
    /\ Goto(r, "ready")

(* Slip: the wait is given a context without a deadline. *)
WaitExpiredNever(r) ==
    /\ pc[r] = "select"
    /\ closed[r]
    /\ Goto(r, "cancel")

(* The caller's context expires; select may take this branch even when the *)
(* channel is closed already.                                              *)
WaitExpired(r) ==
    /\ pc[r] = "select"
    /\ Goto(r, "cancel")

WaitCancel(r) ==
    /\ pc[r] = "cancel"
    /\ UpdateState(r, "cancelled")
    /\ pc' = [pc EXCEPT ![r] = "expired"]
    /\ UNCHANGED <<tracked, result, answers>>

(* Both branches of the select end in Get, which reads the entry afresh and *)
(* returns it without an error whatever its state.                          *)
Get(r) ==
    LET s == IF r \in tracked THEN state[r] ELSE "error"
    IN  \/ pc[r] = "ready" /\ Return(r, "answered", s)
        \/ pc[r] = "expired" /\ Return(r, "timed_out", s)

Cleanup(r) ==
    /\ r \in tracked
    /\ tracked' = tracked \ {r}
    /\ UNCHANGED <<state, closed, pc, result, answers>>

Wait(r) == WaitForResult(r) \/ WaitReady(r) \/ WaitExpired(r) \/ WaitCancel(r) \/ Get(r)

Next ==
    \E r \in Requests :
        \/ Register(r)
        \/ handleCommandAck(r)
        \/ handleCommandNack(r)
        \/ handleCommandError(r)
        \/ handleCommandResponse(r)
        \/ Wait(r)
        \/ Cleanup(r)

(* A waiting goroutine is scheduled, and its context carries a timeout. *)
Fairness == \A r \in Requests : WF_vars(Wait(r))

Spec == Init /\ [][Next]_vars /\ Fairness

-----------------------------------------------------------------------------
(* Properties *)

(* The waiter is woken exactly by final answers: the channel of a request  *)
(* is closed if and only if a done or failed answer was handled for it.    *)
ReadyMeansAnswered ==
    \A r \in Requests : closed[r] <=> verdicts[r] # {}

(* WaitForResult invents no verdict: done or failed is returned only if    *)
(* the agent's answer said so, also when a timeout overwrote the entry or  *)
(* a late answer overwrote the cancellation.                               *)
VerdictBacked ==
    \A r \in Requests : result[r] \in Verdict => result[r] \in verdicts[r]

(* Unless a progress answer overtook the verdict, a waiter woken by the    *)
(* channel returns the verdict that woke it (or one that replaced it),     *)
(* never a pending, running or cancelled command.                          *)
PromptVerdict ==
    \A r \in Requests :
        pc[r] = "answered" /\ r \notin overtaken => result[r] \in Verdict \cup {"error"}

(* What a caller of WaitForResult may rely on: the channel is closed by a  *)
(* final answer, the verdict is the agent's, and it is returned at once.   *)
VerdictsSound == ReadyMeansAnswered /\ VerdictBacked /\ PromptVerdict

(* WaitForResult returns, whether or not the agent ever answers. *)
WaitReturns ==
    \A r \in Requests :
        pc[r] = "select" ~> pc[r] \in {"answered", "timed_out"}

=============================================================================
