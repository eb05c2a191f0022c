SPECIFICATION Spec
CONSTANTS
    N = 3
    Attempts = 2
    BatchMin = 1
    BatchMax = 2
    CkptEvery = 2
    Capacity = 1
    Concurrency = 1
    None = None
    MaxReplies = 1
    MaxFaults = 1
    MaxDrops = 1
    MaxStops = 1
INVARIANTS
    CheckpointCovers
    ProbedOnce
    DropsRemembered
PROPERTIES
    ProgressKept
    SummaryHonest
