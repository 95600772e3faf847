SPECIFICATION Spec
SYMMETRY Symmetry
CONSTANTS
    s1 = s1
    s2 = s2
    s3 = s3
    Revisions = {1}
    None = 0
    Starters = {}
    Target <- SameDeployment
    Recoverers = {k1, k2}
    Operators = {o1}
    Overlap = TRUE
    LinkMayFail = TRUE
    AgentMayFail = FALSE
    MaxLate = 1
    MaxCrashes = 1
INVARIANTS
    RecoveryExclusive
    PromotionOrder
CHECK_DEADLOCK FALSE
