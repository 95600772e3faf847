SPECIFICATION Spec
CONSTANT
    Requests = {r1, r2}
INVARIANT
    VerdictsSound
PROPERTY
    WaitReturns
CHECK_DEADLOCK FALSE
