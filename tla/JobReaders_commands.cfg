SPECIFICATION SpecReaders
CONSTANTS
    N = 2
    Attempts = 2
    BatchMin = 1
    BatchMax = 2
    CkptEvery = 2
    Capacity = 1
    Concurrency = 1
    None = None
    MaxReplies = 1
    MaxFaults = 0
    MaxDrops = 1
    MaxStops = 1
    MaxReads = 1
INVARIANTS
    ExportTruthful
    StatusTruthful
PROPERTIES
    QuietExportExact
    
