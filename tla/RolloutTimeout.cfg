SPECIFICATION Spec
CONSTANTS
    s1 = s1
    s2 = s2
    s3 = s3
    Revisions = {1}
    None = 0
    Starters = {s1}
    Target <- OneCallEach
    Recoverers = {}
    Operators = {}
    Overlap = TRUE
    LinkMayFail = TRUE
    AgentMayFail = FALSE
    MaxLate = 1
    MaxCrashes = 0
PROPERTY
    PromotedIsServed
CHECK_DEADLOCK FALSE
