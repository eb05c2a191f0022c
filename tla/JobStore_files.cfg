SPECIFICATION Spec
CONSTANTS
    old = old
    new = new
    Job = {old, new}
    Legacy = {old}
    Target = {t1}
    None = None
    MaxFaults = 1
    MaxPrunes = 1
    MaxOpens = 2
CONSTRAINT
    OneJobAtATime
INVARIANTS
    FilesWhole
    BackfillSound
PROPERTIES
    PruneTakesJobs
CHECK_DEADLOCK FALSE
