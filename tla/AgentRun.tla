------------------------------ MODULE AgentRun ------------------------------
(***************************************************************************)
(* One caller of the agent: run(), Worktree.run(), Sandbox.run() and       *)
(* interactive().  Orchestrator.ts invokes the agent up to `iterations`    *)
(* times, races its process with an idle timer and an abort signal;        *)
(* SandboxLifecycle.ts surrounds each iteration: hooks, base commit, the   *)
(* agent, syncOut.ts for a sandbox of its own file system, the merge of a  *)
(* temporary branch, the collection of the commits; SandboxFactory.ts      *)
(* opens and closes the sandbox and its worktree.                          *)
(*                                                                         *)
(* A commit of the agent is a number.  Where a commit can be found again   *)
(* is what the model is about: in the sandbox, on the branch of the        *)
(* worktree, on the host's branch, or in a directory of saved patches.     *)
(***************************************************************************)
EXTENDS Integers, FiniteSets

CONSTANTS
    Modes,          \* the ways to call in use: [kind, provider, strategy]
    None,           \* nothing
    MaxIterations,  \* iterations of one call
    IdleTimeout,    \* idleTimeoutSeconds, in ticks
    MaxCalls,       \* bound: calls
    MaxCommits,     \* bound: commits of the agent
    MaxLines,       \* bound: lines of output and child processes of one invocation
    MaxFailures     \* bound: steps of the lifecycle that fail

Commits == 1 .. MaxCommits

\* How an iteration or a call ends
Outcomes == {"ok", "error", "transient", "idle", "abort"}

ASSUME AgentRunAssumption ==
    /\ None \notin Outcomes /\ \A s \in SUBSET Commits : s # None
    /\ MaxIterations \in Nat \ {0} /\ IdleTimeout \in Nat \ {0}
    /\ MaxCalls \in Nat /\ MaxCommits \in Nat /\ MaxLines \in Nat /\ MaxFailures \in Nat
    /\ \A m \in Modes :
          /\ m.kind \in {"run", "worktree", "sandbox", "interactive"}
          /\ m.provider \in {"none", "bind", "isolated"}
          /\ m.strategy \in {"head", "temp", "branch"}
          \* run() and interactive() reject head with an isolated provider; createSandbox
          \* has an explicit branch, createWorktree a worktree
          /\ m.strategy = "head" => m.provider # "isolated" /\ m.kind \in {"run", "interactive"}
          /\ m.kind \in {"worktree", "sandbox"} => m.strategy = "branch"

VARIABLES
    mode,     \* how this caller calls
    pc,       \* where the call is
    calls, iter,
    session,  \* the call is interactive: no timer, no iterations, any exit code will do
    abort,    \* the caller's AbortSignal
    proc,     \* the agent's process: it can outlive its invocation
    exit,     \* its exit: "zero", "nonzero", or "recoverable" (acceptRecoverableExit)
    output,   \* producedAgentOutput
    child,    \* hasActiveChildProcesses
    lines,    \* lines and children so far in this invocation
    timer,    \* the idle timer is armed
    silence,  \* ticks since it was reset
    cut,      \* the reason execAbortController aborted with
    outcome,  \* of the iteration
    result,   \* of the last call
    made,     \* the commits the agent has made
    mine,     \* in this iteration
    box,      \* commits in the isolated sandbox, None without one
    work,     \* commits on the branch of the worktree
    host,     \* commits on the host's current branch
    base,     \* baseHead: the commits below it
    tree,     \* the worktree exists
    dirty,    \* it has uncommitted changes
    saved,    \* commits in the patch directories kept in the worktree
    patches,  \* commits in the patch directory of the running sync, None without one
    left,     \* commits on branches and in worktrees of earlier iterations
    stray,    \* HEAD of the worktree is unknown in the sandbox: git am made new commits
    synced,   \* commits below sync-base, None when it is not in the sandbox
    midAm,    \* commits a stopped git am has applied
    reported, \* the commits of the result
    vouched,  \* history: commits of iterations that ended well
    lost,     \* history: interactive() removed a dirty worktree after an error
    failures

agent == <<proc, exit, output, child, lines, timer, silence, cut, abort>>
repo == <<box, work, host, tree, dirty, saved, left>>
sync == <<patches, stray, synced, midAm>>
flow == <<mode, calls, iter, session, outcome, result>>
books == <<made, mine, base, reported, vouched, lost, failures>>
vars == <<pc, agent, repo, sync, flow, books>>

Isolated == mode.provider = "isolated"
Head == mode.strategy = "head"
Temp == mode.strategy = "temp"
\* Each iteration has a worktree and a sandbox of its own (withSandbox of the factory);
\* the handles of createWorktree and createSandbox keep theirs.
Own == mode.kind \in {"run", "interactive"}

Init ==
    /\ mode \in Modes
    /\ pc = "idle" /\ calls = 0 /\ iter = 1 /\ session = FALSE /\ outcome = None /\ result = None
    /\ proc = "exited" /\ exit = "zero" /\ output = FALSE /\ child = FALSE /\ lines = 0
    /\ timer = FALSE /\ silence = 0 /\ cut = None /\ abort = FALSE
    /\ made = 0 /\ mine = {} /\ base = {} /\ reported = {} /\ vouched = {}
    /\ box = None /\ work = {} /\ host = {} /\ tree = FALSE /\ dirty = FALSE
    /\ saved = {} /\ left = {}
    /\ patches = None /\ stray = FALSE /\ synced = None /\ midAm = {}
    /\ lost = FALSE /\ failures = 0

Fail == failures < MaxFailures /\ failures' = failures + 1

-----------------------------------------------------------------------------
(* The call and its iterations *)

\* An aborted signal rejects before any setup.
StartCall(interactive, phase) ==
    /\ pc = "idle" /\ calls < MaxCalls /\ ~abort
    /\ calls' = calls + 1 /\ iter' = 1 /\ session' = interactive
    /\ outcome' = None /\ result' = None /\ reported' = {}
    /\ pc' = phase
    /\ UNCHANGED <<mode, agent, repo, sync, made, mine, base, vouched, lost, failures>>

CallRun == mode.kind = "run" /\ StartCall(FALSE, "acquire")
CallInteractive == mode.kind = "interactive" /\ StartCall(TRUE, "acquire")

\* Worktree.run() and Worktree.interactive() start a sandbox for each call.
CallWorktreeRun == mode.kind = "worktree" /\ StartCall(FALSE, "acquire")
CallWorktreeInteractive == mode.kind = "worktree" /\ StartCall(TRUE, "acquire")

\* The handle of createSandbox goes on with its sandbox; before, and after close(), a new
\* one is created.
HandleOpen == tree /\ (Isolated => box # None)

CallSandboxRun ==
    mode.kind = "sandbox" /\ StartCall(FALSE, IF HandleOpen THEN "setup" ELSE "acquire")
CallSandboxInteractive ==
    mode.kind = "sandbox" /\ StartCall(TRUE, IF HandleOpen THEN "setup" ELSE "acquire")

\* syncIn clones the worktree's repository into the new sandbox: the sandbox knows HEAD,
\* and knows no commit of an earlier sandbox.
SyncIn(commits) == box' = commits /\ stray' = FALSE /\ synced' = None

\* In head mode the agent works in the host's directory, in a container or not.
AcquireHead ==
    /\ Head
    /\ UNCHANGED <<proc, child, timer, silence, tree, work, left, dirty, saved, midAm, box, stray,
                   synced>>

\* A temporary branch starts at the host's HEAD, in a worktree of its own.  A process that
\* outlived its invocation stays in the worktree it was started in.
FreshWorktree ==
    /\ Temp
    /\ tree' = TRUE /\ dirty' = FALSE /\ saved' = {} /\ midAm' = {}
    /\ work' = host /\ left' = left \cup work \cup saved
    /\ proc' = "exited" /\ child' = FALSE /\ timer' = FALSE /\ silence' = 0

\* The worktree of an explicit branch is reused, with its uncommitted changes.
KeptWorktree ==
    /\ ~Head /\ ~Temp
    /\ tree' = TRUE /\ dirty' = (tree /\ dirty)
    /\ saved' = (IF tree THEN saved ELSE {}) /\ midAm' = (IF tree THEN midAm ELSE {})
    /\ UNCHANGED <<proc, child, timer, silence, work, left>>

\* No sandbox: the agent runs on the host, in the worktree.
AcquireHost ==
    mode.provider = "none" /\ (FreshWorktree \/ KeptWorktree) /\ UNCHANGED <<box, stray, synced>>

AcquireIsolated == Isolated /\ (FreshWorktree \/ KeptWorktree) /\ SyncIn(work')

\* The container has the worktree and the .git directories mounted.
AcquireBind ==
    mode.provider = "bind" /\ (FreshWorktree \/ KeptWorktree) /\ UNCHANGED <<box, stray, synced>>

\* checkAbort, then the worktree and the sandbox
Acquire ==
    /\ pc = "acquire" /\ ~abort
    /\ AcquireHead \/ AcquireHost \/ AcquireIsolated \/ AcquireBind
    /\ pc' = "setup"
    /\ UNCHANGED <<exit, output, lines, cut, abort, flow, host, patches, books>>

\* A failed acquisition releases nothing: acquireUseRelease has nothing to release yet.
AcquireFails ==
    /\ pc = "acquire" /\ ((abort /\ UNCHANGED failures) \/ (~abort /\ Fail))
    /\ result' = IF abort THEN "abort" ELSE "error"
    /\ pc' = "idle"
    /\ UNCHANGED <<mode, calls, iter, session, outcome, agent, repo, sync, made, mine, base, reported,
                   vouched, lost>>

\* The worktree is there, and copying files, a hook or the start of the sandbox fails:
\* nothing takes the worktree away again.
StartFails ==
    /\ pc = "acquire" /\ Own /\ ~abort /\ Fail
    /\ FreshWorktree \/ KeptWorktree
    /\ result' = "error"
    /\ pc' = "idle"
    /\ UNCHANGED <<mode, calls, iter, session, outcome, exit, output, lines, cut, abort, box, host,
                   patches, stray, synced, made, mine, base, reported, vouched, lost>>

\* git rev-parse HEAD in the host's worktree
BaseHead == IF Head THEN host ELSE work

\* Hooks and baseHead.
Setup ==
    /\ pc = "setup" /\ ~abort
    /\ base' = BaseHead /\ mine' = {}
    /\ outcome' = None
    /\ pc' = "prompt"
    /\ UNCHANGED <<mode, calls, iter, session, result, agent, repo, sync, made, reported, vouched, lost,
                   failures>>

\* A hook fails, times out, or is cut off by the signal; invokeAgent dies at once.
SetupFails ==
    /\ pc = "setup" /\ ((abort /\ UNCHANGED failures) \/ (~abort /\ Fail))
    /\ outcome' = IF abort THEN "abort" ELSE "error"
    /\ mine' = {}
    /\ pc' = "release"
    /\ UNCHANGED <<mode, calls, iter, session, result, agent, repo, sync, made, base, reported, vouched,
                   lost>>

\* The agent's process starts, with the timer of run() armed before.
Launch(timed) ==
    /\ pc = "prompt" /\ ~abort
    /\ proc' = "running" /\ exit' = "zero" /\ output' = FALSE /\ child' = FALSE /\ lines' = 0
    /\ timer' = timed /\ silence' = 0 /\ cut' = None
    /\ pc' = "invoke"
    /\ UNCHANGED <<abort, repo, sync, flow, books>>

\* The session to resume is in the sandbox, the commands of the prompt have run: invokeAgent.
StartAgent == ~session /\ Launch(TRUE)

\* interactiveExec has no timer, and races the signal only.
StartSession == session /\ Launch(FALSE)

\* The session to resume is not found, a command of the prompt fails, or the signal is
\* aborted by the time the agent would start.
PromptFails ==
    /\ pc = "prompt" /\ ((abort /\ UNCHANGED failures) \/ (~abort /\ Fail))
    /\ outcome' = IF abort THEN "abort" ELSE "error"
    /\ pc' = "release"
    /\ UNCHANGED <<mode, calls, iter, session, result, agent, repo, sync, made, mine, base, reported,
                   vouched, lost>>

\* The signal; onAbort aborts the exec.
Abort ==
    /\ ~abort /\ abort' = TRUE
    /\ cut' = IF pc = "invoke" /\ cut = None THEN "abort" ELSE cut
    /\ UNCHANGED <<pc, proc, exit, output, child, lines, timer, silence, repo, sync, flow, books>>

-----------------------------------------------------------------------------
(* The agent's process *)

\* onLine: every line resets the timer, one that comes after the end of the invocation too.
Line ==
    /\ proc = "running" /\ lines < MaxLines /\ lines' = lines + 1
    /\ \E o \in BOOLEAN : output' = (output \/ (o /\ pc = "invoke"))
    /\ timer' = ~session /\ silence' = 0
    /\ UNCHANGED <<pc, proc, exit, child, cut, abort, repo, sync, flow, books>>

ChildStarts ==
    /\ proc = "running" /\ ~child /\ lines < MaxLines
    /\ child' = TRUE /\ lines' = lines + 1
    /\ UNCHANGED <<pc, proc, exit, output, timer, silence, cut, abort, repo, sync, flow, books>>

ChildEnds ==
    /\ child /\ child' = FALSE
    /\ UNCHANGED <<pc, proc, exit, output, lines, timer, silence, cut, abort, repo, sync, flow,
                   books>>

Commit ==
    /\ proc = "running" /\ made < MaxCommits
    /\ IF Isolated THEN box # None ELSE Head \/ tree
    /\ made' = made + 1 /\ mine' = mine \cup {made'}
    /\ IF Isolated THEN box' = box \cup {made'} /\ UNCHANGED <<host, work>>
       ELSE IF Head THEN host' = host \cup {made'} /\ UNCHANGED <<box, work>>
       ELSE work' = work \cup {made'} /\ UNCHANGED <<box, host>>
    /\ UNCHANGED <<pc, agent, tree, dirty, saved, left, sync, flow, base, reported, vouched, lost,
                   failures>>

\* Uncommitted changes of an isolated sandbox reach the worktree with syncOut.
Edit ==
    /\ proc = "running" /\ ~Isolated /\ tree /\ ~dirty /\ dirty' = TRUE
    /\ UNCHANGED <<pc, agent, box, work, host, tree, saved, left, sync, flow, books>>

Exit ==
    /\ proc = "running" /\ proc' = "exited" /\ child' = FALSE
    /\ exit' \in {"zero", "nonzero", "recoverable"}
    /\ UNCHANGED <<pc, output, lines, timer, silence, cut, abort, repo, sync, flow, books>>

-----------------------------------------------------------------------------
(* invokeAgent: the race of the process, the idle timer and the signal *)

Tick ==
    /\ timer /\ silence < IdleTimeout /\ silence' = silence + 1
    /\ UNCHANGED <<pc, proc, exit, output, child, lines, timer, cut, abort, repo, sync, flow, books>>

\* Mutant of Rearmed: the timer is not set again for a running child.
RearmedNever == FALSE

\* The timer's callback finds a child of the agent at work and sets the timer again.
Rearmed == child

TimerFires ==
    /\ timer /\ silence = IdleTimeout
    /\ timer' = Rearmed /\ silence' = 0
    /\ cut' = IF ~child /\ pc = "invoke" /\ cut = None THEN "idle" ELSE cut
    /\ UNCHANGED <<pc, proc, exit, output, child, lines, abort, repo, sync, flow, books>>

\* Mutant of Classify: the reason of the abort is not looked at.
ClassifyByExit ==
    IF exit # "nonzero" THEN "ok" ELSE IF output THEN "error" ELSE "transient"

\* What the end of the process means; interactive() hands on any exit code.
Classify ==
    IF cut # None THEN cut
    ELSE IF session \/ exit # "nonzero" THEN "ok"
    ELSE IF output THEN "error" ELSE "transient"

\* Only the factory of run() hands the container's handle to orchestrate, and only a handle
\* lets the agent's session be copied to the host.
Captures == mode.kind = "run" /\ mode.provider = "bind"

AfterAgent == IF Isolated THEN "save" ELSE "merge"

\* The first of the three to end decides; the timers are cleared.
Decide(o) ==
    /\ pc = "invoke"
    /\ outcome' = o
    /\ timer' = FALSE /\ silence' = 0
    /\ pc' = CASE o # "ok" -> "release" [] o = "ok" /\ Captures -> "capture"
              [] o = "ok" /\ ~Captures -> AfterAgent
    /\ UNCHANGED <<mode, calls, iter, session, result, proc, exit, output, child, lines, cut, abort, repo,
                   sync, books>>

ProcessEnds == proc = "exited" /\ Decide(Classify)
TimeoutWins == cut = "idle" /\ Decide("idle")
AbortWins == abort /\ Decide("abort")

\* The session is captured while the sandbox lives; a session that cannot be copied fails
\* the iteration whose agent has succeeded.
CaptureSession ==
    /\ pc = "capture"
    /\ \/ pc' = AfterAgent /\ UNCHANGED <<outcome, failures>>
       \/ Fail /\ outcome' = "error" /\ pc' = "release"
    /\ UNCHANGED <<mode, calls, iter, session, result, agent, repo, sync, made, mine, base, reported,
                   vouched, lost>>

-----------------------------------------------------------------------------
(* syncOut *)

\* The commits not to extract again: those below the worktree's HEAD, or below sync-base
\* when the sandbox does not know HEAD.  None: format-patch will fail.
PatchBase == IF ~stray THEN work ELSE synced

\* Phase 1: the artifacts are saved.  A step that fails fails the iteration, with what
\* has been saved so far left behind.
Save ==
    /\ pc = "save"
    /\ \/ /\ PatchBase # None
          /\ patches' = box \ PatchBase /\ pc' = "apply"
          /\ UNCHANGED <<outcome, failures, dirty>>
       \/ /\ PatchBase = None /\ outcome' = "error" /\ pc' = "release" /\ dirty' = TRUE
          /\ UNCHANGED <<patches, failures>>
       \/ Fail /\ outcome' = "error" /\ pc' = "release" /\ dirty' = TRUE /\ UNCHANGED patches
    /\ UNCHANGED <<mode, calls, iter, session, result, agent, box, work, host, tree, saved, left, stray,
                   synced, midAm, made, mine, base, reported, vouched, lost>>

\* Mutant of Stopped: a git am that stops is taken for a success.
StoppedIgnored(applied, diffFails) == FALSE

\* failedStep
Stopped(applied, diffFails) == applied # patches \/ diffFails

\* Phase 2: git am --abort takes back what a stopped git am has applied, git am applies
\* the patches in order and may stop; then the diff and the untracked files, which fail
\* on a binary change or on changes the worktree has already.  The patch directory goes
\* only when everything was applied, and only then sync-base moves.
Apply ==
    /\ pc = "apply"
    /\ \E n \in 0 .. MaxCommits, diff \in BOOLEAN, diffFails \in BOOLEAN :
         LET applied == {c \in patches : c <= n}
             rest == IF patches = {} THEN work ELSE work \ midAm
         IN
         /\ diffFails => diff /\ applied = patches
         /\ work' = rest \cup applied
         /\ midAm' = IF patches = {} THEN midAm ELSE IF applied = patches THEN {} ELSE applied
         /\ stray' = (stray \/ applied # {})
         /\ IF Stopped(applied, diffFails)
            THEN /\ saved' = saved \cup patches /\ dirty' = TRUE /\ UNCHANGED synced
            ELSE /\ synced' = IF patches # {} THEN box ELSE synced
                 /\ dirty' = (dirty \/ patches # {} \/ diff)
                 /\ UNCHANGED saved
    /\ patches' = None
    /\ pc' = "merge"
    /\ UNCHANGED <<agent, flow, box, host, tree, left, books>>

-----------------------------------------------------------------------------
(* The temporary branch, the commits *)

\* git rev-list baseHead..HEAD --count
HasNewCommits == work \ base # {}

\* git merge of the temporary branch in the host's repository.  A failed count reads as
\* no commits.
Merge ==
    /\ pc = "merge"
    /\ \/ ~Temp /\ pc' = "collect" /\ UNCHANGED <<host, outcome, failures>>
       \/ /\ Temp /\ HasNewCommits /\ host' = host \cup work
          /\ pc' = "delete" /\ UNCHANGED <<outcome, failures>>
       \/ Temp /\ ~HasNewCommits /\ pc' = "delete" /\ UNCHANGED <<host, outcome, failures>>
       \/ Temp /\ HasNewCommits /\ Fail /\ pc' = "delete" /\ UNCHANGED <<host, outcome>>
       \* a conflict: the branch is preserved
       \/ /\ Temp /\ HasNewCommits /\ failures < MaxFailures
          /\ outcome' = "error" /\ pc' = "release" /\ UNCHANGED <<host, failures>>
    /\ UNCHANGED <<mode, calls, iter, session, result, agent, box, work, tree, dirty, saved, left, sync,
                   made, mine, base, reported, vouched, lost>>

\* git branch -D: it fails, silently, for the branch an isolated provider's worktree is on,
\* since the checkout --detach ran in the sandbox.
DeleteBranch ==
    /\ pc = "delete"
    /\ work' = IF Isolated THEN work ELSE {}
    /\ pc' = "collect"
    /\ UNCHANGED <<agent, box, host, tree, dirty, saved, left, sync, flow, books>>

\* git rev-list baseHead..HEAD in the host's repository, or ..refs/heads/branch
Collected == (IF Temp \/ Head THEN host ELSE work) \ base

Collect ==
    /\ pc = "collect"
    /\ \/ reported' = reported \cup Collected /\ UNCHANGED failures
       \/ Fail /\ UNCHANGED reported
    /\ vouched' = vouched \cup mine
    /\ pc' = "release"
    /\ UNCHANGED <<agent, repo, sync, flow, made, mine, base, lost>>

-----------------------------------------------------------------------------
(* The end of an iteration and of a call *)

\* The providers of containers take the agent's process down with the sandbox.
CloseSandbox ==
    /\ box' = None /\ synced' = None
    /\ IF mode.provider = "none" THEN UNCHANGED <<proc, child>>
       ELSE proc' = "exited" /\ child' = FALSE

\* cleanupWorktree
CleanupRemoves(isDirty) == mode.kind = "run" /\ ~Head /\ ~isDirty

\* interactive() removes the worktree after a failure, clean or not, and none after an
\* abort, which is no failure but a defect.
InteractiveRemoves(isDirty) ==
    /\ mode.kind = "interactive" /\ ~Head
    /\ outcome = "error" \/ (outcome = "ok" /\ ~isDirty)

RemovesWorktree(isDirty) == CleanupRemoves(isDirty) \/ InteractiveRemoves(isDirty)

\* releaseLeasedWorktree and the end of interactive(): the sandbox is closed, a clean
\* worktree is removed.
Release ==
    /\ pc = "release" /\ Own
    /\ CloseSandbox
    /\ \/ pc' = (IF RemovesWorktree(dirty) THEN "remove" ELSE "next") /\ UNCHANGED failures
       \/ Fail    \* git status fails
          /\ pc' = (IF RemovesWorktree(FALSE) THEN "remove" ELSE "next")
    /\ UNCHANGED <<exit, output, lines, timer, silence, cut, abort, work, host, tree, dirty, saved,
                   left, patches, stray, midAm, flow, made, mine, base, reported, vouched, lost>>

\* The factory of a handle releases nothing after an iteration.
ReuseSandbox ==
    /\ pc = "release" /\ ~Own
    /\ pc' = "next"
    /\ UNCHANGED <<agent, repo, sync, flow, books>>

\* git worktree remove --force
Remove ==
    /\ pc = "remove"
    /\ tree' = FALSE /\ dirty' = FALSE /\ saved' = {} /\ midAm' = {}
    /\ lost' = (lost \/ (mode.kind = "interactive" /\ saved # {}))
    /\ pc' = "next"
    /\ UNCHANGED <<agent, box, work, host, left, patches, stray, synced, flow, made, mine, base,
                   reported, vouched, failures>>

\* A transient start-up abort is repeated while iterations are left; a completion signal
\* in the output ends the call early.
NextIteration ==
    /\ pc = "next"
    /\ outcome \in {"ok", "transient"} /\ iter < MaxIterations /\ ~session
    /\ iter' = iter + 1
    /\ pc' = IF Own \/ abort THEN "acquire" ELSE "setup"
    /\ UNCHANGED <<mode, calls, session, outcome, result, agent, repo, sync, books>>

\* The iterations are over.  An error with an aborted signal is the abort.
Return(value) ==
    /\ pc = "next"
    /\ outcome = "transient" => iter = MaxIterations \/ session
    /\ outcome = "ok" => output \/ iter = MaxIterations \/ session
    /\ result' = IF outcome # "ok" /\ abort THEN "abort" ELSE value
    /\ pc' = "idle"
    /\ UNCHANGED <<mode, calls, iter, session, outcome, exit, output, lines, timer, silence, cut, abort, work,
                   host, tree, dirty, saved, left, patches, stray, midAm, made, mine, base, reported,
                   vouched, lost>>

\* What a finished run() has done stays done when its structured output cannot be found.
ReturnRun ==
    /\ mode.kind = "run" /\ UNCHANGED <<box, synced, proc, child>>
    /\ \/ Return(outcome) /\ UNCHANGED failures
       \/ outcome = "ok" /\ Return("error") /\ Fail

ReturnInteractive ==
    mode.kind = "interactive" /\ Return(outcome) /\ UNCHANGED <<box, synced, proc, child, failures>>

\* The sandbox of a call of a worktree is closed with the call.
ReturnWorktreeRun ==
    mode.kind = "worktree" /\ ~session /\ Return(outcome) /\ CloseSandbox /\ UNCHANGED failures

ReturnWorktreeInteractive ==
    mode.kind = "worktree" /\ session /\ Return(outcome) /\ CloseSandbox /\ UNCHANGED failures

\* That of createSandbox stays open.
ReturnSandbox ==
    mode.kind = "sandbox" /\ Return(outcome) /\ UNCHANGED <<box, synced, proc, child, failures>>

\* close() of the handles: a dirty worktree is preserved.
CloseHandle(kind) ==
    /\ pc = "idle" /\ mode.kind = kind /\ tree
    /\ CloseSandbox
    /\ tree' = dirty
    /\ midAm' = IF dirty THEN midAm ELSE {}
    /\ UNCHANGED <<pc, exit, output, lines, timer, silence, cut, abort, work, host, dirty, saved,
                   left, patches, stray, flow, books>>

CloseWorktree == CloseHandle("worktree")
CloseCreatedSandbox == CloseHandle("sandbox")

-----------------------------------------------------------------------------
Environment ==
    \/ CallRun \/ CallInteractive \/ CallWorktreeRun \/ CallWorktreeInteractive
    \/ CallSandboxRun \/ CallSandboxInteractive \/ CloseWorktree \/ CloseCreatedSandbox
    \/ Abort \/ Line \/ ChildStarts \/ Commit \/ Edit

Lifecycle ==
    \/ Acquire \/ AcquireFails \/ StartFails \/ Setup \/ SetupFails
    \/ StartAgent \/ StartSession \/ PromptFails \/ CaptureSession
    \/ Save \/ Apply \/ Merge \/ DeleteBranch \/ Collect
    \/ Release \/ ReuseSandbox \/ Remove \/ NextIteration
    \/ ReturnRun \/ ReturnInteractive \/ ReturnWorktreeRun \/ ReturnWorktreeInteractive
    \/ ReturnSandbox

Race == Tick \/ TimerFires \/ ProcessEnds \/ TimeoutWins \/ AbortWins

Next == Environment \/ Lifecycle \/ Race \/ ChildEnds \/ Exit

Spec == Init /\ [][Next]_vars

\* Nothing makes an agent's process end by itself but the user of an interactive session;
\* the child processes of an agent end.
FairSpec ==
    /\ Spec
    /\ WF_vars(Lifecycle) /\ WF_vars(Tick) /\ WF_vars(TimerFires)
    /\ WF_vars(ProcessEnds) /\ WF_vars(TimeoutWins) /\ WF_vars(AbortWins) /\ WF_vars(ChildEnds)
    /\ WF_vars(session /\ Exit)

-----------------------------------------------------------------------------
(* Properties *)

\* Every variable is of its type; a sandbox that is gone leaves no sync-base behind that
\* a later one would trust.
TypeOK ==
    /\ mode \in Modes
    /\ pc \in {"idle", "acquire", "setup", "prompt", "invoke", "capture", "save", "apply", "merge", "delete", "collect",
               "release", "remove", "next"}
    /\ calls \in 0 .. MaxCalls /\ iter \in 1 .. MaxIterations
    /\ session \in BOOLEAN /\ abort \in BOOLEAN /\ output \in BOOLEAN /\ child \in BOOLEAN /\ timer \in BOOLEAN
    /\ proc \in {"running", "exited"} /\ exit \in {"zero", "nonzero", "recoverable"}
    /\ lines \in 0 .. MaxLines /\ silence \in 0 .. IdleTimeout
    /\ cut \in {None, "idle", "abort"}
    /\ outcome \in {None} \cup Outcomes /\ result \in {None} \cup Outcomes
    /\ made \in 0 .. MaxCommits
    /\ mine \cup work \cup host \cup base \cup saved \cup left \cup midAm \subseteq Commits
    /\ reported \cup vouched \subseteq Commits
    /\ box \in {None} \cup SUBSET Commits /\ patches \in {None} \cup SUBSET Commits
    /\ synced \in {None} \cup SUBSET Commits
    /\ box = None => synced = None
    /\ tree \in BOOLEAN /\ dirty \in BOOLEAN /\ stray \in BOOLEAN /\ lost \in BOOLEAN
    /\ failures \in 0 .. MaxFailures

\* Where the commit can be found again
Safe == work \cup host \cup saved \cup left

\* No commit is lost: one made outside an isolated sandbox stays on a branch whatever
\* happens, one made in an isolated sandbox in an iteration that ended well is on a branch
\* or in a patch directory that is kept, unless a git command failed (withSandboxLifecycle
\* reads a failed count as no commits, cleanupWorktree a failed status as a clean
\* worktree) or interactive() removed a dirty worktree.
WorkKept ==
    failures = 0 /\ ~lost => (IF Isolated THEN vouched ELSE 1 .. made) \subseteq Safe

\* An agent cut off by the idle timer ends the call: whatever exit status the killed
\* process has, it is never taken for a transient start-up abort and started again
\* (invokeAgent looks at the reason of the abort before the exit code).
TimeoutIsFinal == [][iter' > iter => cut # "idle"]_vars

\* The result of a call that ended well has every commit of the last iteration, but those
\* whose patches did not apply (syncOut reports that only on the console).
ResultComplete ==
    (pc = "idle" /\ result = "ok" /\ failures = 0) => mine \subseteq reported \cup saved \cup left

\* Every call ends: an agent that goes silent is timed out, and one whose children run is
\* timed out after they end (resetIdleTimer).
CallEnds == []<>(pc = "idle")

\* Every commit an agent made is accounted for: TypeOK, WorkKept and ResultComplete
\* (withSandboxLifecycle, syncOut, cleanupWorktree).
WorkAccountedFor == TypeOK /\ WorkKept /\ ResultComplete
=============================================================================
