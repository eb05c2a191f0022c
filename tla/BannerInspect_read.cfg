SPECIFICATION Spec
CONSTANTS
    Streams <- MCStreams
    Words = 3
    Attempts = 2
    MaxBytes = 12
    ChunkSize = 14
    KexMin = 1
    isize_MAX = 8
    Filler = 120
    None = None
CHECK_DEADLOCK FALSE
INVARIANTS
    EvidenceSound
    ResultSound
    ChunkingIrrelevant
    OneActiveProbe
PROPERTIES
    InspectionEnds
