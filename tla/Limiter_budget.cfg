SPECIFICATION Spec
CONSTANTS
    t1 = t1
    Task = {t1}
    Burst = 2
    Costs = {1, 3}
    Poll = 2
    MaxSleep = 2
    BatchMax = 2
    None = None
    MaxTime = 5
INVARIANTS
    ReservedWithinBudget
    SentWithinBudget
