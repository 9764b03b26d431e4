\* Two runs project a landed task for a user with two worktrees, who commits, edits and switches.
SPECIFICATION FairSpec
CONSTANTS
    Task = {a1}
    UserChange = {u1}
    Proc = {p1, p2}
    Worktree = {w1, w2}
    None = None
    MaxFailures = 1
    MaxCrashes = 1
    MaxUser = 2
INVARIANTS
    OutboxIsTrue
PROPERTIES
    UserCommitsKept
    ProjectableIsProjected
