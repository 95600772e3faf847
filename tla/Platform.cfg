SPECIFICATION MCSpec
CONSTANTS
    BootCalls = {b1}
    BootTargets = {"c1", "i1"}
    ServiceSets = {{}, {"db"}, {"web", "db"}}
    MaxBindings = 2
    MaxHistory = 2
    MaxChanges = 3
    InvCalls = {k1, k2}
    Offered <- OfferedItems
    MaxSaves = 2
    ServiceLists <- ConfiguredLists
    ServiceChoices <- AskedFor
    Policies <- StoredPolicies
    YAMLPolicies <- TwoRoots
    MaxRevisions = 2
    MaxEdits = 1
    Projects = {p1, p2}
    DomainCalls = {d1, d2}
    Hosts = {h1, h2, h3}
    Addresses = {a1, a2}
    MaxDomainCalls = 3
    ControlPlane = cp
    Workers = {w1, w2}
    JoinCalls = {j1, j2}
    MaxNodeSteps = 4
    LocalPorts = {1}
    TunnelCalls = {t1, t2}
    MaxSessions = 3
    MaxTime = 3
INVARIANTS
    PageIsTrue
    PlansApply
    RenamedIsPublished
    HostsAsRecorded
PROPERTY
    ServicesKept
CHECK_DEADLOCK FALSE
