SPECIFICATION Spec
CONSTANTS
    N = 6
    Attempts = 2
    CkptEvery = 2
    simulated_state <- SixTargets
    Banner = TRUE
    None = None
    MaxFaults = 3
INVARIANTS
    
    StatesReproducible
    AtMostOneEvent
PROPERTIES
    ResumeIdempotent
    ImplementsSweep
