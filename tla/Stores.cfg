SPECIFICATION FairSpec
CONSTANTS
    Proc = {p1, p2}
    Task = {t1}
    Seed = t0
    NoProc = NoProc
    NoDb = NoDb
    MaxCrash = 1
    MaxUser = 1
INVARIANTS
    OriginalsAreSafe
PROPERTIES
    CopyIsTrusted
    MigrationCompletes
CHECK_DEADLOCK FALSE
