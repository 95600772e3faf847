SPECIFICATION MCSpec
CONSTANTS
    Conns = {c1, c2}
    SendBufferSize = 2
    Commands = {k1, k2}
    Malformed = {k2}
    MaxEvents = 2
    Calls = {h1, h2}
    MaxInstalls = 2
    MaxCalls = 2
    MaxMishaps = 2
    Clients = {o1, o2}
    SendCapacity = 2
    MaxMessages = 4
INVARIANTS ReconnectSound EnrolledAgentIsServed ClosedOnce
PROPERTY ReachableAgain
CHECK_DEADLOCK FALSE
