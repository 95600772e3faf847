SPECIFICATION MigratedSpec
CONSTANTS
    IngestCalls = {1}
    Texts = {"panic", "crash"}
    LogIds = {1}
    Quiet = 2
    Lengths = {1, 2}
    Step = 2
    Window = 4
    MaxTicks = 3
    MaxBatches = 2
    MaxRollups = 0
PROPERTY
    ErrorsAreIndexed
CHECK_DEADLOCK FALSE
