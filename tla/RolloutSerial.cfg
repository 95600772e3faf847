SPECIFICATION Spec
CONSTANTS
    s1 = s1
    s2 = s2
    s3 = s3
    Revisions = {1, 2, 3}
    None = 0
    Starters = {s1, s2, s3}
    Target <- OneCallEach
    Recoverers = {}
    Operators = {}
    Overlap = FALSE
    LinkMayFail = FALSE
    AgentMayFail = TRUE
    MaxLate = 1
    MaxCrashes = 0
INVARIANT
    RestsSettled
PROPERTIES
    ImplementsLifecycle
    PromotedIsServed
    StartReturns
CHECK_DEADLOCK FALSE
