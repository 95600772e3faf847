SPECIFICATION MCSpec
CONSTANTS
    IngestCalls = {1, 2}
    Texts = {"panic", "crash"}
    LogIds = {1, 2, 3}
    Quiet = 2
    Lengths = {1, 2}
    Step = 2
    Window = 4
    MaxTicks = 3
    MaxBatches = 3
    MaxRollups = 3
    Inventories <- BuildInventories
    Commits = {"c1", "c2"}
    Digests = {"d1", "d2"}
    Missing = {"x"}
    EnvInventories <- ConfiguredEnvs
    Contents <- SavedTexts
    Modes = {"distributed-k3s", "standalone"}
    Minted <- MintedPasswords
    Persons <- KnownPersons
    Emails = {"a", "b"}
    LoginCalls = {l1, l2}
    TokenCalls = {q1, q2}
    MaxAccounts = 2
    MaxCredentials = 2
    MaxStarts = 1
    MaxEmailChanges = 1
    GatedReleases <- Gated
    Ports = {1, 2, 3000, 5000}
    MaxChanges = 3
    MaxGates = 2
    Targets = {"t1", "t2"}
    PublicIPs = {"ip1", "ip2"}
    Revised <- PublishedLists
    MaxPlanned = 2
    MaxEvents = 3
    Revisions = {r1, r2}
    None = None
    PrepareCalls = {p1, p2}
    Workloads <- PreparedServices
    PortSpan = 3
    FirstPort = 20000
    MaxSteps = 5
INVARIANT
    SavedEnvReachesServices
CHECK_DEADLOCK FALSE
