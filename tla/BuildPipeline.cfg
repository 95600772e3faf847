SPECIFICATION MCSpec
CONSTANTS
    Projects = {p1, p2}
    Owners = {u1}
    OwnerOf <- MCOwner
    Branches = {main, dev}
    MaxConcurrency = 2
    Previewed = {p1}
    Handlers = {h1, h2}
    MaxPushes = 2
    MaxJobs = 2
    MaxEvents = 1
    Targets <- MCTargets
    Images <- MCImages
    Roles = {"public", "worker", "internal", "one_click"}
    SyncCalls = {y1, y2}
    PRs = {1}
    Creations = {n1, n2}
    MaxPreviews = 3
INVARIANTS
    DeliveriesBuilt
    EventsRouted
    PortsSettled
PROPERTY
    QueuedIsClaimed
CHECK_DEADLOCK FALSE
