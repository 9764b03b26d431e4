\* Eight ways to call the agent, two calls of two iterations, two commits, one failed step.
SPECIFICATION FairSpec
CONSTANTS
    Modes <- MCModes
    None = None
    MaxIterations = 2
    IdleTimeout = 1
    MaxCalls = 2
    MaxCommits = 2
    MaxLines = 1
    MaxFailures = 1
INVARIANTS
    WorkAccountedFor
PROPERTIES
    TimeoutIsFinal
    CallEnds
CHECK_DEADLOCK FALSE
