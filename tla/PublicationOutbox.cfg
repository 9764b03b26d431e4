\* Two runs publish a task, with a failure, a crash, a push and a reset by others.
SPECIFICATION FairSpec
CONSTANTS
    Task = {a1}
    Foreign = {f1}
    Proc = {p1, p2}
    Required = TRUE
    Absent = Absent
    None = None
    MaxFailures = 1
    MaxRewinds = 1
    MaxCrashes = 1
    MaxMishaps = 2
INVARIANTS
    DeliveryIsTrue
PROPERTIES
    OnlyExpectedOverwritten
    EveryItemSettles
