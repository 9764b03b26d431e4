\* Two processes with a task each, a crash or a failure of either.
SPECIFICATION Spec
CONSTANTS
    a1 = a1
    a2 = a2
    p1 = p1
    p2 = p2
    Task = {a1, a2}
    Proc = {p1, p2}
    Oid = {g, c1, c2, c3}
    Genesis = g
    None = None
    Dead = Dead
    Claims <- DisjointClaims
    MaxRepairs = 0
    MaxRebuilds = 1
    MaxCrashes = 1
    MaxFailures = 1
    MaxDrifts = 0
CONSTRAINT OneMishap
SYMMETRY Swap
INVARIANTS
    TypeOK
    ReceiptInTarget
PROPERTIES
    LandedNeverLost
    ImplementsLedger
