\* Three tasks in two batches under both publish policies, the last depends on the first.
SPECIFICATION FairSpec
CONSTANTS
    a1 = a1
    a2 = a2
    a3 = a3
    Task = {a1, a2, a3}
    Blockers <- LastBlocked
    BatchOf <- TwoBatches
    Board <- BoardOrder
    RebuildLimit = 1
    None = None
    MaxDrifts = 3
    MaxFailures = 1
    MaxCrashes = 1
INVARIANT TypeOK
PROPERTIES
    LandsInOrder
    
