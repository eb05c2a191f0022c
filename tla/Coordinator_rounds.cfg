SPECIFICATION FairSpec
CONSTANTS
    w1 = w1
    w2 = w2
    Worker = {w1, w2}
    N = 3
    TaskSize = 2
    Attempts = 2
    perm <- MCPerm
    simulated_result <- MCResult
    Transient = {w2}
    None = None
    MaxFaults = 1
    MaxStalls = 1
PROPERTIES
    LeaseRespected
    BoardSpec
    ScanCompletes
