\* One run after the other, with a crash and a failure, beside a user who cleans up.
SPECIFICATION FairSpec
CONSTANTS
    Old = old
    Fresh = fresh
    Note = {n1, n2}
    None = None
    MaxCommits = 1
    MaxCalls = 2
    MaxCrashes = 1
    MaxFailures = 1
INVARIANTS
    RecordsAreBacked

    
    
    
