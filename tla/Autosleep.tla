----------------------------- MODULE Autosleep ------------------------------
(***************************************************************************)
(* Scale to zero on the agent: autosleep_manager.go, gateway_hold_manager  *)
(* .go, scale_to_zero_guard.go and the sleep and wake commands of          *)
(* runtime/service.go, for one service.  Every method of the managers runs *)
(* under its lock and is one step; the handlers and the background loop    *)
(* make several calls.  Times are kept as whether they have passed.        *)
(***************************************************************************)
EXTENDS Naturals

CONSTANTS MaxHeldRequests,   \* GatewayHoldConfig.MaxHeldRequests
          MaxColdStarts,     \* ScaleToZeroGuard.maxColdStarts
          MaxHolds,          \* bound on requests
          MaxSleeps          \* bound on sleep and wake commands and evaluations

ASSUME AutosleepAssumption ==
    /\ MaxHeldRequests \in Nat /\ MaxColdStarts \in Nat /\ MaxHolds \in Nat /\ MaxSleeps \in Nat

VARIABLES
    sleep,      \* the service's state: [status, idle, overdue]
    guard,      \* [attempts, cold, woken, late]: wakes tried, cold starts, lastWakeAt
    holds,      \* [total, refused, fresh, stale, expired, resumed] requests
    sleepPc,    \* sleeper (the command), waker (the command), loop: their next step
    sleepCalls

sleepVars == <<sleep, guard, holds, sleepPc, sleepCalls>>

NoState == [status |-> "none", idle |-> FALSE, overdue |-> FALSE]
Asleep(s) == [s EXCEPT !.status = "sleeping", !.overdue = FALSE]

\* MarkActive: a service that sleeps stays asleep.
Activated(s) == [s EXCEPT !.idle = FALSE, !.status = IF @ \in {"waking", "none"} THEN "active" ELSE @]

SleepInit ==
    /\ sleep = NoState
    /\ guard = [attempts |-> 0, cold |-> 0, woken |-> FALSE, late |-> FALSE]
    /\ holds = [total |-> 0, refused |-> 0, fresh |-> 0, stale |-> 0, expired |-> 0, resumed |-> 0]
    /\ sleepPc = [sleeper |-> "idle", waker |-> "idle", loop |-> "idle"]
    /\ sleepCalls = 0

GoSleep(who, step) == sleepPc' = [sleepPc EXCEPT ![who] = step]

CanSleep == sleep.status \notin {"none", "sleeping"} /\ sleep.idle

\* Time passes for the service's idle window, its sleep window, the last wake, the
\* requests on hold.
TimePasses ==
    \/ /\ sleep' \in {[sleep EXCEPT !.idle = sleep.status # "none"], [sleep EXCEPT !.overdue = sleep.status = "sleeping"]}
       /\ UNCHANGED <<guard, holds, sleepPc, sleepCalls>>
    \/ /\ guard' = [guard EXCEPT !.late = guard.woken]
       /\ UNCHANGED <<sleep, holds, sleepPc, sleepCalls>>
    \/ /\ holds.fresh > 0 /\ holds' = [holds EXCEPT !.fresh = @ - 1, !.stale = @ + 1]
       /\ UNCHANGED <<sleep, guard, sleepPc, sleepCalls>>

\* HoldRequest counts every request, a refused one too.
HoldRequest ==
    /\ holds.total < MaxHolds
    /\ holds' = IF holds.fresh + holds.stale >= MaxHeldRequests
                THEN [holds EXCEPT !.total = @ + 1, !.refused = @ + 1]
                ELSE [holds EXCEPT !.total = @ + 1, !.fresh = @ + 1]
    /\ UNCHANGED <<sleep, guard, sleepPc, sleepCalls>>

\* Slip: the requests that expired before the service woke are resumed but not counted.
ResumedOnly == [holds EXCEPT !.resumed = @ + holds.fresh, !.fresh = 0, !.stale = 0]

\* ResumeRequests: those that are too late have expired.
Resumed == [holds EXCEPT !.resumed = @ + holds.fresh, !.expired = @ + holds.stale,
                         !.fresh = 0, !.stale = 0]

CollectExpiredHolds ==
    /\ holds.stale > 0
    /\ holds' = [holds EXCEPT !.expired = @ + holds.stale, !.stale = 0]
    /\ UNCHANGED <<sleep, guard, sleepPc, sleepCalls>>

\* handleSleepService: the guard refuses a disabled policy and the distributed mode
\* before anything else; an eligible service goes on.
handleSleepService ==
    /\ sleepPc.sleeper = "idle" /\ sleepCalls < MaxSleeps /\ sleepCalls' = sleepCalls + 1
    /\ CanSleep /\ GoSleep("sleeper", "sleep")
    /\ UNCHANGED <<sleep, guard, holds>>

\* SleepService: the service may have been put to sleep meanwhile.
SleepService ==
    /\ sleepPc.sleeper = "sleep"
    /\ IF sleep.status = "sleeping"
       THEN GoSleep("sleeper", "idle") /\ UNCHANGED sleep
       ELSE GoSleep("sleeper", "resume") /\ sleep' = Asleep(sleep)
    /\ UNCHANGED <<guard, holds, sleepCalls>>

\* ResumeRequests at the end of either command.
ResumeRequests(who) ==
    /\ sleepPc[who] = "resume" /\ GoSleep(who, "idle")
    /\ holds' = Resumed
    /\ UNCHANGED <<sleep, guard, sleepCalls>>

\* handleWakeService: a wake long ago counts as one that timed out.
handleWakeService ==
    /\ sleepPc.waker = "idle" /\ sleepCalls < MaxSleeps /\ sleepCalls' = sleepCalls + 1
    /\ ~(guard.woken /\ guard.late) /\ guard.cold <= MaxColdStarts
    /\ sleep.status = "sleeping" /\ ~sleep.overdue
    /\ sleep' = [sleep EXCEPT !.status = "waking", !.idle = FALSE]
    /\ guard' = [guard EXCEPT !.attempts = @ + 1, !.woken = TRUE, !.late = FALSE]
    /\ GoSleep("waker", "active")
    /\ UNCHANGED holds

MarkActive ==
    /\ sleepPc.waker = "active" /\ GoSleep("waker", "resume")
    /\ sleep' = Activated(sleep)
    /\ guard' = [guard EXCEPT !.cold = @ + 1, !.attempts = 0]
    /\ UNCHANGED <<holds, sleepCalls>>

\* Traffic for a service the manager hears of for the first time, or again.
ServiceActive ==
    /\ sleep' = Activated(sleep)
    /\ UNCHANGED <<guard, holds, sleepPc, sleepCalls>>

\* evaluateAndSleep: the check and the change are two critical sections.
evaluateAndSleep ==
    \/ /\ sleepPc.loop = "idle" /\ sleepCalls < MaxSleeps /\ sleepCalls' = sleepCalls + 1
       /\ GoSleep("loop", IF CanSleep THEN "sleep" ELSE "collect")
       /\ UNCHANGED <<sleep, guard, holds>>
    \/ /\ sleepPc.loop = "sleep" /\ GoSleep("loop", "collect")
       /\ sleep' = IF sleep.status \in {"none", "sleeping"} THEN sleep ELSE Asleep(sleep)
       /\ UNCHANGED <<guard, holds, sleepCalls>>

\* CollectExpiredSleepWindows forgets a service that slept for too long.
CollectExpiredSleepWindows ==
    /\ sleepPc.loop = "collect" /\ GoSleep("loop", "idle")
    /\ sleep' = IF sleep.status = "sleeping" /\ sleep.overdue THEN NoState ELSE sleep
    /\ UNCHANGED <<guard, holds, sleepCalls>>

SleepNext ==
    \/ TimePasses \/ HoldRequest \/ CollectExpiredHolds \/ handleSleepService \/ SleepService
    \/ ResumeRequests("sleeper") \/ ResumeRequests("waker") \/ handleWakeService \/ MarkActive
    \/ ServiceActive \/ evaluateAndSleep \/ CollectExpiredSleepWindows

SleepSpec == SleepInit /\ [][SleepNext]_sleepVars

\* Every request that was offered is refused, still held, expired or resumed, and is
\* counted once, whichever of the commands and of the two background loops got to it
\* (HoldRequest, ResumeRequests, CollectExpiredHolds, Stats).
EveryHoldCountedOnce ==
    holds.total = holds.refused + holds.fresh + holds.stale + holds.expired + holds.resumed
=============================================================================
