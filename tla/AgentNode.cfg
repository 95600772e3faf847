SPECIFICATION MCSpec
CONSTANTS
    Renders = {n1, n2}
    Versions = {v1, v2}
    GatewayInputs <- MCGatewayInputs
    MaxRenders = 3
    MaxFaults = 2
    LogKeys = {g1, g2}
    MaxFollowers = 4
    MaxHeldRequests = 2
    MaxColdStarts = 1
    MaxHolds = 3
    MaxSleeps = 4
    AppServices = {a1, a2}
    Revs = {r1}
    LongIds = TRUE
    MaxRuns = 2
    MaxPasswords = 2
    MaxBreaks = 2
    SideServices = {w1, w2}
    MaxPlans = 3
    MaxTroubles = 2
    RemotePeers = {p1, p2}
    MeshCalls = {x1, x2}
    MaxMeshCalls = 4
    MaxMeshFaults = 1
    K3sRevs = {k1, k2}
    K3sServices = {d1}
    MaxK3sCalls = 4
    MaxK3sFaults = 1
    LogFlushers = {f1, f2}
    Rollups = {q1, q2}
    MaxLines = 3
    BufferLimit = 2
    SampleLimit = 1
    MaxRequests = 2
    MaxFiles = 2
    MaxReads = 3
INVARIANTS LiveFilesAgree NoStrayFollower EveryHoldCountedOnce SyncMarkerTrue SidecarRunsPlan
    VerifiedWasUp TailsCanBeStopped NothingTwiceNorSkipped
CHECK_DEADLOCK FALSE
