SPECIFICATION Spec
CONSTANTS
    Targets <- MCTargets
    Strangers <- MCStrangers
    LocalPort = {7, 8}
    source_port = 0
    port_hash <- MCPortHash
    cookie_hash <- MCCookieHash
    U32 = 12
    Micros = 12
    Link = "ethernet"
    FirstNibble = 0
    Attempts = 2
    MaxRuns = 2
    MaxTime = 2
    StrayNumber = {0}
    MaxReplies = 2
INVARIANTS
    BestAnswerKept
    ConflictsMeanDisagreement

    
CHECK_DEADLOCK FALSE
