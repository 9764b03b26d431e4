\* One process with two tasks: repairs, rebuilds, a crash, a failure and a move of the
\* target; in the end every landing is settled.
SPECIFICATION FairSpec
CONSTANTS
    a1 = a1
    a2 = a2
    p1 = p1
    p2 = p2
    Task = {a1, a2}
    Proc = {p1}
    Oid = {g, c1, c2, c3, c4}
    Genesis = g
    None = None
    Dead = Dead
    Claims <- AllClaims
    MaxRepairs = 1
    MaxRebuilds = 1
    MaxCrashes = 1
    MaxFailures = 1
    MaxDrifts = 1
INVARIANTS
    VerifiedUnlessCrashed
    ClosedIsContained
    CloseHasReceipt
    RecordsAgree

    
