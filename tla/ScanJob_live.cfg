SPECIFICATION FairSpec
CONSTANTS
    N = 2
    Attempts = 1
    BatchMin = 1
    BatchMax = 2
    CkptEvery = 2
    Capacity = 1
    Concurrency = 1
    None = None
    MaxReplies = 2
    MaxFaults = 1
    MaxDrops = 0
    MaxStops = 1
INVARIANTS
    BannerInOnePlace
    EventBeforeDone
PROPERTIES
    StopTerminates
    OpenInspected
    RoundsComplete
