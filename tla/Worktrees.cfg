\* Two processes use the worktree of one branch, with a crash and a failure.
SPECIFICATION FairSpec
CONSTANTS
    Proc = {p1, p2}
    Entries = {"run", "worktree", "sandbox"}
    Branch = {b}
    Temporary = {}
    None = None
    MaxCrashes = 1
    MaxFailures = 1
INVARIANTS
    OneOwner
PROPERTIES
    
    DeadLeaseGoes
